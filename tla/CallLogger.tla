-------------------------------- MODULE CallLogger --------------------------------
(***************************************************************************)
(* Calls logged in the application's system as they go (modules/CallLogger *)
(* over lib/LoggerBase): of each change of a call the tab in front makes a *)
(* log, after it has asked whether it is the one, whether the call has a   *)
(* record, and whose number it is.                                         *)
(*                                                                         *)
(* A call rings (version 1), is connected (2), and has a record in the     *)
(* call log (3).  An action is one event loop turn; the store listener     *)
(* runs before anything else happens (Settled).                            *)
(***************************************************************************)
EXTENDS LoggerBase

CONSTANTS MaxEvents  \* bound: failures, options, logins and logouts, tabs that change

VARIABLES
  calls,       \* callMonitor.calls: 1 or 2, 0 for a call that is not there
  ended,       \* calls of recentlyEndedCalls
  over,        \* calls that came to their end
  loggedIn,    \* and all that _shouldInit asks for
  status,
  active,      \* tabManager.ensureActive
  autoLog, logOnRinging,
  lastCalls, lastEnded,  \* _lastProcessedCalls, _lastProcessedEndedCalls
  handlers,    \* calls of _onNewCall and _onCallUpdated under way
  shown,       \* history: the last version a ready module was shown
  excused,     \* history: calls of another tab, of an earlier login, behind a failure,
               \* shown while the options were others, or with a later version logged first
  events

options == <<autoLog, logOnRinging>>
monitor == <<calls, ended, over>>
seen == <<lastCalls, lastEnded, shown>>
vars == <<logger, monitor, loggedIn, status, active, options, seen, handlers, excused, events>>

Handler == [of : Thing, version : 1..3, new : BOOLEAN, at : {"active", "activity", "contact"}]

TypeOK ==
  /\ LoggerTypeOK
  /\ calls \in [Thing -> 0..2] /\ ended \subseteq Thing /\ over \subseteq Thing
  /\ loggedIn \in BOOLEAN /\ status \in {"pending", "ready"} /\ active \in BOOLEAN
  /\ autoLog \in BOOLEAN /\ logOnRinging \in BOOLEAN
  /\ lastCalls \in [Thing -> 0..2] /\ lastEnded \subseteq Thing
  /\ handlers \subseteq Handler
  /\ shown \in [Thing -> 0..3] /\ excused \subseteq Thing
  /\ events \in 0..MaxEvents

Init ==
  /\ LoggerInit
  /\ calls = [c \in Thing |-> 0] /\ ended = {} /\ over = {}
  /\ loggedIn = FALSE /\ status = "pending" /\ active = TRUE
  /\ autoLog \in BOOLEAN /\ logOnRinging \in BOOLEAN
  /\ lastCalls = calls /\ lastEnded = {} /\ handlers = {}
  /\ shown = calls /\ excused = {} /\ events = 0

Counted == events < MaxEvents /\ events' = events + 1

-----------------------------------------------------------------------------
(* The store listener. *)

Turns         == loggedIn # (status = "ready")
ShouldProcess == loggedIn /\ status = "ready" /\ <<lastCalls, lastEnded>> # <<calls, ended>>
Settled       == ~Turns /\ ~ShouldProcess

\* _onStateChange of LoggerBase.
Initialize ==
  /\ Turns /\ loggedIn
  /\ status' = "ready"
  /\ UNCHANGED <<logger, monitor, loggedIn, active, options, seen, handlers, excused, events>>

Reset ==
  /\ Turns /\ ~loggedIn
  /\ status' = "pending"
  /\ lastCalls' = [c \in Thing |-> 0] /\ lastEnded' = {}
  /\ LoggerReset
  /\ excused' = excused \cup {c \in Thing : shown[c] # 0}
  /\ UNCHANGED <<monitor, loggedIn, active, options, shown, handlers, events>>

Changed(c) == calls[c] # lastCalls[c]
\* A call that left recentlyEndedCalls has a record in the call log.
Recorded(c) == c \in lastEnded \ ended

\* What the listener has to say of a call; one that is gone is told of as it was.
Handed(c) == IF Recorded(c) THEN 3 ELSE IF calls[c] = 0 THEN lastCalls[c] ELSE calls[c]

ProcessCalls ==
  /\ ShouldProcess
  /\ lastCalls' = calls /\ lastEnded' = ended
  /\ LET told == {c \in Thing : Changed(c) \/ Recorded(c)} IN
     /\ handlers' = handlers \cup
          {[of |-> c, version |-> Handed(c), at |-> "active",
            new |-> ~Recorded(c) /\ lastCalls[c] = 0] : c \in told}
     /\ shown' = [c \in Thing |-> IF c \in told THEN Handed(c) ELSE shown[c]]
  /\ UNCHANGED <<logger, monitor, loggedIn, status, active, options, excused, events>>

-----------------------------------------------------------------------------
(* The handlers. *)

Ringing(h) == h.version = 1
MayLog(h)  == logOnRinging \/ ~Ringing(h)

Drop(h, excuse) ==
  /\ handlers' = handlers \ {h}
  /\ excused' = IF excuse THEN excused \cup {h.of} ELSE excused
  /\ UNCHANGED logger

Await(h, what) ==
  /\ handlers' = (handlers \ {h}) \cup {[h EXCEPT !.at = what]}
  /\ UNCHANGED <<logger, excused>>

\* _autoLogCall: log throws if the module is not ready, and nobody catches it.
AutoLogCall(h) ==
  IF status # "ready" THEN Drop(h, TRUE)
  ELSE /\ BeginLog(h.of, h.version)
       /\ handlers' = handlers \ {h}
       /\ excused' = IF h.version < shown[h.of]
                        /\ ~\E g \in handlers : g.of = h.of /\ g.version > h.version
                     THEN excused \cup {h.of} ELSE excused

\* A call that has a record already is updated, whatever autoLog is.
ChecksActivity_Never(h) == FALSE
ChecksActivity(h) == ~h.new

\* ensureActive has answered.
EnsuredActive(h) ==
  /\ Settled /\ h.at = "active"
  /\ IF ~active THEN Drop(h, TRUE)
     ELSE IF ~MayLog(h) THEN Drop(h, FALSE)
     ELSE IF autoLog THEN IF h.new THEN Await(h, "activity") ELSE AutoLogCall(h)
     ELSE IF ChecksActivity(h) THEN Await(h, "activity") ELSE Drop(h, FALSE)
  /\ UNCHANGED <<monitor, loggedIn, status, active, options, seen, events>>

\* activityMatcher has: what was recorded since it asked last may be unknown to it.
ActivityMatched(h) ==
  /\ Settled /\ h.at = "activity"
  /\ \E matched \in {FALSE, recorded[h.of] # 0} :
       IF matched THEN AutoLogCall(h)
       ELSE IF h.new THEN Await(h, "contact")
       ELSE Drop(h, recorded[h.of] # 0 \/ \E l \in logs : l.of = h.of)
  /\ UNCHANGED <<monitor, loggedIn, status, active, options, seen, events>>

ContactMatched(h) ==
  /\ Settled /\ h.at = "contact"
  /\ AutoLogCall(h)
  /\ UNCHANGED <<monitor, loggedIn, status, active, options, seen, events>>

HandlerFails(h) ==
  /\ Settled /\ Counted
  /\ Drop(h, TRUE)
  /\ UNCHANGED <<monitor, loggedIn, status, active, options, seen>>

-----------------------------------------------------------------------------
(* The rest. *)

\* logCall, by the user.
LogCall(c) ==
  /\ Settled /\ status = "ready" /\ shown[c] # 0 /\ Counted
  /\ BeginLog(c, shown[c])
  /\ UNCHANGED <<monitor, loggedIn, status, active, options, seen, handlers, excused>>

Logs ==
  /\ Settled
  /\ \E l \in logs : \/ LogDone(l) /\ UNCHANGED events
                     \/ LogFails(l) /\ Counted
  /\ UNCHANGED <<monitor, loggedIn, status, active, options, seen, handlers, excused>>

\* A call comes, is taken, ends, and gets into the call log, which this module is not
\* told of before it was told of the end.
CallGoesOn(c) ==
  /\ Settled
  /\ \/ /\ c \notin over /\ calls[c] < 2
        /\ calls' = [calls EXCEPT ![c] = @ + 1]
        /\ UNCHANGED <<ended, over>>
     \/ /\ calls[c] # 0
        /\ calls' = [calls EXCEPT ![c] = 0]
        /\ over' = over \cup {c}
        /\ ended' = ended \cup {c}
     \/ /\ c \in ended
        /\ ended' = ended \ {c}
        /\ UNCHANGED <<calls, over>>
  /\ UNCHANGED <<logger, loggedIn, status, active, options, seen, handlers, excused, events>>

\* The user logs in or out, goes to another tab, or sets an option.
Turn ==
  /\ Settled /\ Counted
  /\ \/ loggedIn' = ~loggedIn /\ UNCHANGED <<active, options, excused>>
     \/ active' = ~active /\ UNCHANGED <<loggedIn, options, excused>>
     \/ /\ status = "ready"
        /\ \/ autoLog' = ~autoLog /\ UNCHANGED logOnRinging
           \/ logOnRinging' = ~logOnRinging /\ UNCHANGED autoLog
        /\ excused' = excused \cup
             {c \in Thing : \/ \E h \in handlers : h.of = c
                            \/ shown[c] # 0 /\ recorded[c] # shown[c]}
        /\ UNCHANGED <<loggedIn, active>>
  /\ UNCHANGED <<logger, monitor, status, seen, handlers>>

Next ==
  \/ Initialize \/ Reset \/ ProcessCalls
  \/ \E h \in handlers : EnsuredActive(h) \/ ActivityMatched(h) \/ ContactMatched(h) \/ HandlerFails(h)
  \/ \E c \in Thing : LogCall(c) \/ CallGoesOn(c)
  \/ Logs \/ Turn

Spec == Init /\ [][Next]_vars

-----------------------------------------------------------------------------
(* When nothing of a call is on its way, its record is about what was shown of it last: *)
(* if calls are logged, and if they are not, but this one has a record; and what is      *)
(* shown as being logged is.  Excused and disturbed are what a failure, another tab or   *)
(* login, other options or logs that crossed have to do with.                            *)
CallsLogged ==
  /\ Settled /\ status = "ready" =>
       \A c \in Thing \ (excused \cup disturbed) :
         \/ \E h \in handlers : h.of = c
         \/ \E l \in logs : l.of = c
         \/ recorded[c] = shown[c]
         \/ shown[c] = 1 /\ ~logOnRinging
         \/ ~autoLog /\ recorded[c] = 0
  /\ OnlyLogging
=============================================================================
