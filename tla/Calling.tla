--------------------------------- MODULE Calling ---------------------------------
(***************************************************************************)
(* How a call is made: modules/CallingSettings keeps what the user calls   *)
(* with and gives it up when a permission or a number is gone,             *)
(* modules/Call connects the web phone when the settings ask for it,       *)
(* validates the numbers of a call and makes it, and modules/Ringout asks  *)
(* for a call and polls what became of it.                                 *)
(*                                                                         *)
(* An action is one event loop turn; the store listeners run before        *)
(* anything else happens (Settled).  The validation of numbers, the web    *)
(* phone and the softphone are external; what a number is for, and whether *)
(* it is one of the user's, is all there is to it.                         *)
(***************************************************************************)
EXTENDS Naturals, FiniteSets

CONSTANTS
  MyNumber,     \* direct numbers
  OtherNumber,  \* numbers calls may be flipped to
  None,
  MaxEvents     \* bound: logins, logouts, permissions, numbers, settings, calls

VARIABLES
  loggedIn,       \* all the modules below are ready with it
  enabled,        \* rolesAndPermissions: callingEnabled, ringoutEnabled, webphoneEnabled
  my, other,      \* myPhoneNumbers, otherPhoneNumbers
  callerIds,      \* there are fromNumbers
  settings,       \* of CallingSettings, in Storage
  settingsReady,
  seen,           \* _ringoutEnabled, _webphoneEnabled, _myPhoneNumbers, _otherPhoneNumbers
  status,         \* of Call
  mode,           \* _callSettingMode
  webphone,       \* external: connect was called, and disconnect not since
  connecting,     \* init awaits webphone.connect
  callStatus,
  calls,          \* calls of call under way
  last,           \* history: how the call that ended last has ended
  crossed,        \* history: a logout while init awaited the web phone
  changed,        \* history: the settings or the login changed while a call was validated
  events

env == <<loggedIn, enabled, my, other, callerIds>>
vars == <<env, settings, settingsReady, seen, status, mode, webphone, connecting, callStatus, calls,
          last, crossed, changed, events>>

Permission == {"calling", "ringout", "webphone"}
Number     == MyNumber \cup OtherNumber
Option     == {"softphone", "myphone", "otherphone", "customphone", "browser"}
Mode       == {"softphone", "ringout", "webphone"}
Settings   == [callWith : Option \cup {None}, myLocation : Number \cup {"", "custom"},
               fromNumber : {"null", "number"}, timestamp : BOOLEAN]
Seen       == [ringout : BOOLEAN, webphone : BOOLEAN, my : SUBSET Number, other : SUBSET Number]
Call       == [at : {"validating", "ringout", "polling", "webphone"},
               from : {"", "callerId", "location"}]

TypeOK ==
  /\ loggedIn \in BOOLEAN /\ enabled \subseteq Permission
  /\ my \subseteq MyNumber /\ other \subseteq OtherNumber /\ callerIds \in BOOLEAN
  /\ settings \in Settings /\ settingsReady \in BOOLEAN
  /\ seen \in Seen \cup {None}
  /\ status \in {"pending", "initializing", "ready"}
  /\ mode \in Mode /\ webphone \in BOOLEAN /\ connecting \in BOOLEAN
  /\ callStatus \in {"idle", "connecting"}
  /\ calls \subseteq Call
  /\ last \in [result : {"none", "success", "error"}, mode : Mode, from : {"", "callerId", "location"}]
  /\ crossed \in BOOLEAN /\ changed \in BOOLEAN
  /\ events \in 0..MaxEvents

Init ==
  /\ loggedIn = FALSE
  /\ enabled \in {{"calling"}, {"calling", "ringout"}, {"calling", "ringout", "webphone"}, {}}
  /\ my \in {{}, MyNumber} /\ other \in {{}, OtherNumber} /\ callerIds \in BOOLEAN
  /\ settings = [callWith |-> None, myLocation |-> "", fromNumber |-> "null", timestamp |-> FALSE]
  /\ settingsReady = FALSE /\ seen = None
  /\ status = "pending" /\ mode = "softphone" /\ webphone = FALSE /\ connecting = FALSE
  /\ callStatus = "idle" /\ calls = {}
  /\ last = [result |-> "none", mode |-> "softphone", from |-> ""]
  /\ crossed = FALSE /\ changed = FALSE /\ events = 0

Counted == events < MaxEvents /\ events' = events + 1

-----------------------------------------------------------------------------
(* CallingSettings. *)

Ringouts == {"myphone", "otherphone", "customphone"}

\* mapOptionToMode; without storage there is no option.
ModeOf(option) ==
  IF option \in Ringouts THEN "ringout" ELSE IF option = "browser" THEN "webphone" ELSE "softphone"
CallingMode == IF loggedIn THEN ModeOf(settings.callWith) ELSE "softphone"

CallWithOptions ==
  {"softphone"} \cup (IF "webphone" \in enabled THEN {"browser"} ELSE {})
    \cup (IF "ringout" \in enabled THEN {"myphone", "customphone"} ELSE {})
    \cup (IF "ringout" \in enabled /\ other # {} THEN {"otherphone"} ELSE {})

Looks == [ringout |-> "ringout" \in enabled, webphone |-> "webphone" \in enabled,
          my |-> my, other |-> other]

WebphonePermissionRemoved(s, o) == ~s.webphone /\ o.callWith = "browser"
PermissionChanged_NoCustom(s, o) == ~s.ringout /\ o.callWith \in {"myphone", "otherphone"}
PermissionChanged(s, o) == ~s.ringout /\ o.callWith \in Ringouts
PhoneNumberChanged(s, o) ==
  \/ o.callWith = "otherphone" /\ o.myLocation \notin s.other
  \/ o.callWith = "myphone" /\ o.myLocation \notin s.my

FirstNumber_Undefined(s, o) == IF s.my = {} THEN {"undefined"} ELSE s.my
\* The first of one's own numbers; with none, the reducer leaves the location.
FirstNumber(s, o) == IF s.my = {} THEN {o.myLocation} ELSE s.my

\* _validateSettings, of the settings o by what was seen.
Validated(s, o) ==
  IF WebphonePermissionRemoved(s, o) \/ PermissionChanged(s, o)
  THEN {[o EXCEPT !.callWith = "softphone", !.timestamp = TRUE]}
  ELSE IF PhoneNumberChanged(s, o)
  THEN {[o EXCEPT !.callWith = "myphone", !.timestamp = TRUE, !.myLocation = n] :
          n \in FirstNumber(s, o)}
  ELSE {o}

\* The first option, of a user who logs in for the first time.
Default == IF "webphone" \in enabled THEN "browser" ELSE "softphone"

FirstLogin(o) ==
  IF o.timestamp THEN o ELSE [o EXCEPT !.callWith = Default, !.timestamp = TRUE]

\* updateFromNumber.  The undefined it writes if there are no caller ids is null again when
\* the next action, initSuccess, reaches getFromNumberReducer.
WithFromNumber(o) == [o EXCEPT !.fromNumber = IF @ = "number" \/ callerIds THEN "number" ELSE "null"]

SettingsTurn   == settingsReady # loggedIn
ShouldValidate == settingsReady /\ loggedIn /\ seen # Looks
CallTurns      == \/ status = "pending" /\ settingsReady /\ loggedIn
                  \/ status = "ready" /\ ~(settingsReady /\ loggedIn)
ModeChanges    == status = "ready" /\ settingsReady /\ loggedIn /\ mode # CallingMode
Settled        == ~(SettingsTurn \/ ShouldValidate \/ CallTurns \/ ModeChanges)

\* _onStateChange.  A user who may not call has nothing set up.
TurnSettings ==
  /\ SettingsTurn
  /\ settingsReady' = loggedIn
  /\ IF loggedIn /\ "calling" \in enabled
     THEN /\ seen' = Looks
          /\ \E o \in Validated(Looks, FirstLogin(settings)) : settings' = WithFromNumber(o)
     ELSE UNCHANGED <<seen, settings>>
  /\ UNCHANGED <<env, status, mode, webphone, connecting, crossed, callStatus, calls, last, changed, events>>

ValidateSettings ==
  /\ ~SettingsTurn /\ ShouldValidate
  /\ seen' = Looks
  /\ settings' \in Validated(Looks, settings)
  /\ changed' = (changed \/ settings' # settings)
  /\ UNCHANGED <<env, settingsReady, status, mode, webphone, connecting, crossed, callStatus, calls, last,
                 events>>

-----------------------------------------------------------------------------
(* Call: the store listener. *)

InitCallModule ==
  /\ ~SettingsTurn /\ ~ShouldValidate /\ CallTurns /\ status = "pending"
  /\ status' = IF CallingMode = "webphone" THEN "initializing" ELSE "ready"
  /\ mode' = CallingMode
  /\ connecting' = (CallingMode = "webphone")
  /\ webphone' = (webphone \/ CallingMode = "webphone")
  /\ crossed' = FALSE
  /\ UNCHANGED <<env, settings, settingsReady, seen, callStatus, calls, last, changed, events>>

\* webphone.connect comes to an end, and so does init.
Connected ==
  /\ Settled /\ connecting
  /\ connecting' = FALSE
  /\ status' = "ready"
  /\ UNCHANGED <<env, settings, settingsReady, seen, mode, webphone, callStatus, calls, last,
                 changed, events, crossed>>

\* _resetCallModule; a web phone resets itself at logout.
ResetCallModule ==
  /\ ~SettingsTurn /\ ~ShouldValidate /\ CallTurns /\ status = "ready"
  /\ status' = "pending"
  /\ mode' = CallingMode
  /\ UNCHANGED <<env, settings, settingsReady, seen, webphone, connecting, crossed, callStatus, calls, last,
                 changed, events>>

Follows_Connects(new) == webphone \/ new = "webphone"
\* What _processCall makes of the web phone.
Follows(new) == IF mode = "webphone" THEN FALSE ELSE webphone \/ new = "webphone"

ProcessCall ==
  /\ ~SettingsTurn /\ ~ShouldValidate /\ ModeChanges
  /\ mode' = CallingMode
  /\ webphone' = Follows(CallingMode)
  /\ UNCHANGED <<env, settings, settingsReady, seen, status, connecting, crossed, callStatus, calls, last,
                 changed, events>>

-----------------------------------------------------------------------------
(* A call. *)

\* _getValidatedNumbers asks for the number of the mode there is now.
From ==
  IF CallingMode # "webphone"
  THEN IF settings.myLocation = "" THEN "" ELSE "location"
  ELSE IF settings.fromNumber = "number" THEN "callerId" ELSE ""

Ends(c, result) ==
  /\ callStatus' = "idle"
  /\ calls' = calls \ {c}
  /\ last' = [result |-> result, from |-> c.from,
              mode |-> IF c.at = "validating" THEN CallingMode
                       ELSE IF c.at = "webphone" THEN "webphone" ELSE "ringout"]

\* call, up to the answer of validateNumbers.
MakeCall ==
  /\ Settled /\ status = "ready" /\ callStatus = "idle" /\ Counted
  /\ IF CallingMode = "webphone" /\ settings.fromNumber = "null"
     THEN /\ last' = [result |-> "error", mode |-> "webphone", from |-> ""]
          /\ UNCHANGED <<callStatus, calls, changed>>
     ELSE /\ callStatus' = "connecting"
          /\ calls' = calls \cup {[at |-> "validating", from |-> From]}
          /\ changed' = FALSE
          /\ UNCHANGED last
  /\ UNCHANGED <<env, settings, settingsReady, seen, status, mode, webphone, connecting, crossed>>

\* _makeCall, in the mode there is now.  Ringout does nothing if it is not ready.
ValidatedNumbers(c) ==
  /\ Settled /\ c.at = "validating"
  /\ CASE CallingMode = "softphone" -> Ends(c, "success")
       [] CallingMode = "ringout" ->
            /\ calls' = (calls \ {c}) \cup {[c EXCEPT !.at = "ringout"]}
            /\ UNCHANGED <<callStatus, last>>
       [] CallingMode = "webphone" ->
            /\ calls' = (calls \ {c}) \cup {[c EXCEPT !.at = "webphone"]}
            /\ UNCHANGED <<callStatus, last>>
  /\ UNCHANGED <<env, settings, settingsReady, seen, status, mode, webphone, connecting, crossed, changed,
                 events>>

\* The request of Ringout is answered: it polls.
RingoutPosted(c) ==
  /\ Settled /\ c.at = "ringout"
  /\ calls' = (calls \ {c}) \cup {[c EXCEPT !.at = "polling"]}
  /\ UNCHANGED <<env, settings, settingsReady, seen, status, mode, webphone, connecting, crossed, callStatus,
                 last, changed, events>>

\* The first leg is taken or nobody answers, or it takes too long, which is no error; or
\* makeCall of the web phone is through.
CallMade(c) ==
  /\ Settled /\ c.at \in {"polling", "webphone"}
  /\ Ends(c, "success")
  /\ UNCHANGED <<env, settings, settingsReady, seen, status, mode, webphone, connecting, crossed, changed,
                 events>>

\* A number is not valid, a request fails, or the first leg does.
CallFails(c) ==
  /\ Settled
  /\ Ends(c, "error")
  /\ UNCHANGED <<env, settings, settingsReady, seen, status, mode, webphone, connecting, crossed, changed,
                 events>>

-----------------------------------------------------------------------------
(* The user, and what the server says of the user. *)

\* setData: what the screen offers.
SetData ==
  /\ Settled /\ settingsReady /\ Counted
  /\ \E option \in CallWithOptions :
       \E n \in CASE option = "myphone" -> my [] option = "otherphone" -> other
                  [] option = "customphone" -> {"custom"} [] OTHER -> {settings.myLocation} :
         settings' = [settings EXCEPT !.callWith = option, !.myLocation = n, !.timestamp = TRUE]
  /\ changed' = (changed \/ settings' # settings)
  /\ UNCHANGED <<env, settingsReady, seen, status, mode, webphone, connecting, crossed, callStatus, calls, last>>

\* Permissions or numbers come or go.
Change ==
  /\ Settled /\ Counted
  /\ \/ \E p \in Permission :
          enabled' = (IF p \in enabled THEN enabled \ {p} ELSE enabled \cup {p})
        /\ UNCHANGED <<my, other, callerIds>>
     \/ my' \in (SUBSET MyNumber) \ {my} /\ UNCHANGED <<enabled, other, callerIds>>
     \/ other' \in (SUBSET OtherNumber) \ {other} /\ UNCHANGED <<enabled, my, callerIds>>
  /\ UNCHANGED <<loggedIn, settings, settingsReady, seen, status, mode, webphone, connecting, crossed,
                 callStatus, calls, last, changed>>

\* A web phone is disconnected by its own reset.
Turn ==
  /\ Settled /\ Counted
  /\ loggedIn' = ~loggedIn
  /\ webphone' = (webphone /\ ~loggedIn)
  /\ crossed' = (crossed \/ connecting)
  /\ changed' = TRUE
  /\ UNCHANGED <<enabled, my, other, callerIds, settings, settingsReady, seen, status, mode,
                 connecting, callStatus, calls, last>>

Next ==
  \/ TurnSettings \/ ValidateSettings \/ InitCallModule \/ Connected \/ ResetCallModule \/ ProcessCall
  \/ MakeCall \/ SetData \/ Change \/ Turn
  \/ \E c \in calls : ValidatedNumbers(c) \/ RingoutPosted(c) \/ CallMade(c) \/ CallFails(c)

Spec == Init /\ [][Next]_vars

-----------------------------------------------------------------------------
(* Whatever is taken away, the user is left with settings that are offered, and with a  *)
(* number there is, if there is any; the web phone is connected when, and only when,    *)
(* they ask for it; one call is made at a time, and one that succeeds was made from a    *)
(* number of its mode, without which the web phone makes none, unless settings or login  *)
(* changed since its numbers were looked at.                                             *)
CallsAsSet ==
  Settled =>
    /\ loggedIn /\ settings.callWith # None =>
         /\ settings.callWith \in CallWithOptions
         /\ settings.callWith = "myphone" /\ my # {} => settings.myLocation \in my
         /\ settings.callWith = "otherphone" => settings.myLocation \in other
    /\ loggedIn /\ status = "ready" /\ ~crossed => (webphone <=> CallingMode = "webphone")
    /\ Cardinality(calls) <= 1 /\ (callStatus = "idle" <=> calls = {})
    /\ callStatus = "idle" /\ last.result = "success" /\ ~changed =>
         /\ last.mode = "webphone" => last.from = "callerId"
         /\ last.mode = "ringout" => last.from # "callerId"
=============================================================================
