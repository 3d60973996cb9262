------------------------------- MODULE Presence -------------------------------
(***************************************************************************)
(* The presence of the user (modules/Presence) and, with the active calls, *)
(* modules/DetailedPresence, which extends it.  A copy of what the server  *)
(* has is fetched when the user is logged in, replaced by notifications    *)
(* and by the answers of the calls that set a status, and, by the detailed *)
(* module, fetched again when the connection is restored.                  *)
(*                                                                         *)
(* An action is one event loop turn; a store listener that has something   *)
(* to do runs before anything else happens (Settled).  The server numbers  *)
(* the versions of a user's presence, and so the sequence of notifications.*)
(* Requests and notifications may be delayed, reordered, lost or repeated. *)
(***************************************************************************)
EXTENDS Integers, Sequences

CONSTANTS
  Owner, NoOne,
  MaxLogins,   \* bound: logins
  MaxVersions, \* bound: versions of a user's presence
  MaxEvents    \* bound: calls of the user, requests that fail, connections restored

VARIABLES
  variant,    \* which of the classes this is, and whether it may ask; never changes
  real,       \* the versions of a user's presence
  owner,      \* auth.ownerId; the subscription is ready while somebody is logged in
  logins,     \* number of logins
  events,     \* number of the events of MaxEvents
  message,    \* the sequence in subscription.message, 0 if there is none
  unheard,    \* subscription.message is not _lastMessage
  status,
  lastSequence,
  promise,    \* _promise: none, under way, or resolved and never cleared
  shown,      \* the state, as far as updateSuccess replaces it
  activeCalls, \* the version of data and telephonyStatus
  remembered, \* lastNotDisturbDndStatus
  online,     \* connectivityMonitor.connectivity is what _connectivity says
  requests,   \* requests under way
  crossed     \* history: an earlier login's answer or promise was used, or the first request failed

server == <<real, events>>
client == <<status, lastSequence, promise, shown, activeCalls, remembered>>
vars == <<variant, server, owner, logins, message, unheard, client, online, requests, crossed>>

Variant == {"Presence", "DetailedPresence", "no permission"}
Dnd     == {"TakeAllCalls", "DoNotAcceptAnyCalls", "DoNotAcceptDepartmentCalls"}
Chosen  == {"Available", "Busy", "Offline"}
Null    == "null"
State   == [dnd : Dnd \cup {Null}, user : Chosen \cup {Null}]
Blank   == [of |-> NoOne, at |-> 0, state |-> [dnd |-> Null, user |-> Null]]
\* at: the version of the answer, 0 as long as the server has not answered.
Request == [op : {"get", "put"}, of : Owner, login : Nat, first : BOOLEAN,
            put : State, at : Nat]

TypeOK ==
  /\ variant \in Variant
  /\ real \in [Owner -> Seq(State)]
  /\ owner \in Owner \cup {NoOne}
  /\ logins \in Nat /\ events \in Nat
  /\ message \in Nat /\ unheard \in BOOLEAN
  /\ status \in {"pending", "initializing", "ready"}
  /\ lastSequence \in Nat
  /\ promise \in {"none", "pending", "dead"}
  /\ shown \in [of : Owner \cup {NoOne}, at : Nat, state : State]
  /\ activeCalls \in Nat
  /\ remembered \in Dnd \cup {Null}
  /\ online \in BOOLEAN
  /\ requests \subseteq Request
  /\ crossed \in BOOLEAN

Detailed == variant # "Presence"
hasPresencePermission == variant # "no permission"

Start == [dnd |-> "TakeAllCalls", user |-> "Available"]

Init ==
  /\ variant \in Variant
  /\ real = [o \in Owner |-> <<Start>>]
  /\ owner = NoOne
  /\ logins = 0 /\ events = 0
  /\ message = 0 /\ unheard = FALSE
  /\ status = "pending"
  /\ lastSequence = 0
  /\ promise = "none"
  /\ shown = Blank
  /\ activeCalls = 0
  /\ remembered = Null
  /\ online = TRUE
  /\ requests = {}
  /\ crossed = FALSE

-----------------------------------------------------------------------------
(* The state. *)

\* getLastNotDisturbDndStatusReducer, given what was in force and what is now.
Remembers(last, dnd) ==
  IF last # "DoNotAcceptAnyCalls" /\ last # dnd THEN last ELSE remembered

\* fetchSuccess, updateSuccess or notification with version at, lastDndStatus being last.
Shows(o, at, last) ==
  /\ shown' = [of |-> o, at |-> at, state |-> real[o][at]]
  /\ remembered' = Remembers(last, real[o][at].dnd)

dndStatus == shown.state.dnd

\* A request of the listener or of a call; first: initialize awaits it.
Sent(op, first, put) ==
  [op |-> op, of |-> owner, login |-> logins, first |-> first, put |-> put, at |-> 0]

-----------------------------------------------------------------------------
(* The store listener. *)

ShouldInit  == owner # NoOne /\ status = "pending"
ShouldReset == owner = NoOne /\ status = "ready"
ShouldHear  == status = "ready" /\ owner # NoOne /\ message # 0 /\ unheard
ShouldFetch == Detailed /\ status = "ready" /\ ~online /\ ~ShouldHear
Settled     == ~(ShouldInit \/ ShouldReset \/ ShouldHear \/ ShouldFetch)

\* fetch returns a promise that is there already; one that is resolved ends the
\* initialization in the same turn.
Initialize ==
  /\ ShouldInit
  /\ IF hasPresencePermission /\ promise = "none"
     THEN /\ status' = "initializing"
          /\ promise' = "pending"
          /\ requests' = requests \cup {Sent("get", TRUE, Start)}
     ELSE /\ status' = "ready"
          /\ UNCHANGED <<promise, requests>>
  /\ online' = TRUE
  /\ crossed' = (crossed \/ promise = "dead")
  /\ UNCHANGED <<variant, server, owner, logins, message, unheard, lastSequence, shown,
                 activeCalls, remembered>>

Reset ==
  /\ ShouldReset
  /\ status' = "pending"
  /\ lastSequence' = 0
  /\ unheard' = (message # 0)
  /\ shown' = Blank
  /\ activeCalls' = 0
  /\ remembered' = Null
  /\ UNCHANGED <<variant, server, owner, logins, message, promise, online, requests, crossed>>

Newer_Any == TRUE
Newer == message > lastSequence

\* _subscriptionHandler: Presence does not say what was in force before.
Hear ==
  /\ ShouldHear
  /\ unheard' = FALSE
  /\ IF Newer
     THEN /\ lastSequence' = message
          /\ Shows(owner, message, IF Detailed THEN dndStatus ELSE remembered)
          /\ activeCalls' = message
     ELSE UNCHANGED <<lastSequence, shown, activeCalls, remembered>>
  /\ UNCHANGED <<variant, server, owner, logins, message, status, promise, online,
                 requests, crossed>>

\* The connection is restored: _fetch, not fetch.
Refetch ==
  /\ ShouldFetch
  /\ online' = TRUE
  /\ requests' = IF hasPresencePermission
                 THEN requests \cup {Sent("get", FALSE, Start)} ELSE requests
  /\ UNCHANGED <<variant, server, owner, logins, message, unheard, client, crossed>>

-----------------------------------------------------------------------------
(* The server. *)

Becomes(o, state) ==
  /\ Len(real[o]) < MaxVersions
  /\ real' = [real EXCEPT ![o] = Append(@, state)]

\* The user sets the status elsewhere, or a call begins or ends.
Change(o, state) ==
  /\ Settled
  /\ Becomes(o, state)
  /\ UNCHANGED <<variant, owner, logins, events, message, unheard, client, online, requests, crossed>>

Serve(r) ==
  /\ Settled /\ r.at = 0
  /\ IF r.op = "put" THEN Becomes(r.of, r.put) ELSE UNCHANGED real
  /\ requests' = (requests \ {r}) \cup {[r EXCEPT !.at = Len(real'[r.of])]}
  /\ UNCHANGED <<variant, owner, logins, events, message, unheard, client, online, crossed>>

\* The subscription brings a notification.
Notify(at) ==
  /\ Settled /\ owner # NoOne /\ at \in 2..Len(real[owner])
  /\ message' = at
  /\ unheard' = TRUE
  /\ UNCHANGED <<variant, server, owner, logins, client, online, requests, crossed>>

-----------------------------------------------------------------------------
(* The answers. *)

\* The request is over: _promise is cleared, but by DetailedPresence only for the user
\* that asked; the initialization goes on whoever is logged in now.
Over(r, ready) ==
  /\ requests' = requests \ {r}
  /\ promise' = IF r.op = "put" THEN promise
                ELSE IF ~Detailed \/ r.of = owner THEN "none"
                ELSE IF r.first THEN "dead" ELSE promise
  /\ status' = IF r.first /\ ready THEN "ready" ELSE status

SameOwner_Unchecked(r) == owner # NoOne
SameOwner(r) == r.of = owner

\* fetchSuccess and updateSuccess; that of DetailedPresence does not say what was in force
\* before, and updateSuccess does not replace its calls.
Answer(r) ==
  /\ Settled /\ r.at # 0
  /\ IF SameOwner(r)
     THEN /\ Shows(r.of, r.at,
                   IF Detailed /\ r.op = "get" THEN remembered ELSE dndStatus)
          /\ activeCalls' = IF r.op = "get" THEN r.at ELSE activeCalls
     ELSE UNCHANGED <<shown, activeCalls, remembered>>
  /\ Over(r, TRUE)
  /\ crossed' = (crossed \/ (r.login # logins /\ (r.of = owner \/ r.first)))
  /\ UNCHANGED <<variant, server, owner, logins, message, unheard, lastSequence, online>>

\* fetchError and updateError.  Presence rethrows, and its initialization never ends.
Fail(r) ==
  /\ Settled /\ events < MaxEvents
  /\ events' = events + 1
  /\ Over(r, Detailed)
  /\ crossed' = (crossed \/ r.first)
  /\ UNCHANGED <<variant, real, owner, logins, message, unheard, lastSequence, shown,
                 activeCalls, remembered, online>>

-----------------------------------------------------------------------------
(* Calls of the user. *)

\* _getUpdateStatusParams.
UpdateStatusParams(user) ==
  [user |-> user,
   dnd |-> IF dndStatus \in {"TakeAllCalls", "DoNotAcceptDepartmentCalls"} THEN dndStatus
           ELSE IF remembered = Null THEN "TakeAllCalls" ELSE remembered]

\* setAvailable, setBusy and setInvisible.
Set(user) ==
  /\ shown.state.user # user \/ (user = "Busy" /\ dndStatus = "DoNotAcceptAnyCalls")
  /\ requests' = requests \cup {Sent("put", FALSE, UpdateStatusParams(user))}

setDoNotDisturb ==
  /\ ~(shown.state.user = "Busy" /\ dndStatus = "DoNotAcceptAnyCalls")
  /\ requests' = requests
       \cup {Sent("put", FALSE, [user |-> "Busy", dnd |-> "DoNotAcceptAnyCalls"])}

toggleAcceptCallQueueCalls ==
  \E dnd \in {"TakeAllCalls", "DoNotAcceptDepartmentCalls"} \ {dndStatus} :
    /\ dndStatus \in {"TakeAllCalls", "DoNotAcceptDepartmentCalls"}
    /\ requests' = requests \cup {Sent("put", FALSE, [user |-> shown.state.user, dnd |-> dnd])}

Update ==
  /\ Settled /\ status = "ready" /\ events < MaxEvents
  /\ events' = events + 1
  /\ (\E user \in Chosen : Set(user)) \/ setDoNotDisturb \/ toggleAcceptCallQueueCalls
  /\ UNCHANGED <<variant, real, owner, logins, message, unheard, client, online, crossed>>

-----------------------------------------------------------------------------
(* Logins, and the connection. *)

Login(o) ==
  /\ Settled /\ owner = NoOne /\ logins < MaxLogins
  /\ owner' = o
  /\ logins' = logins + 1
  /\ UNCHANGED <<variant, server, message, unheard, client, online, requests, crossed>>

\* The subscription resets too: its message is gone.
Logout ==
  /\ Settled /\ owner # NoOne
  /\ owner' = NoOne
  /\ message' = 0
  /\ unheard' = FALSE
  /\ UNCHANGED <<variant, server, logins, client, online, requests, crossed>>

\* The connection is lost and restored.
Reconnect ==
  /\ Settled /\ Detailed /\ status = "ready" /\ online /\ events < MaxEvents
  /\ online' = FALSE
  /\ events' = events + 1
  /\ UNCHANGED <<variant, real, owner, logins, message, unheard, client, requests, crossed>>

Next ==
  \/ Initialize \/ Reset \/ Hear \/ Refetch
  \/ \E o \in Owner, s \in [dnd : Dnd, user : {"Available"}] : Change(o, s)
  \/ \E r \in requests : Serve(r) \/ Answer(r) \/ Fail(r)
  \/ \E at \in 2..MaxVersions : Notify(at)
  \/ Update
  \/ \E o \in Owner : Login(o)
  \/ Logout \/ Reconnect

Spec == Init /\ [][Next]_vars

-----------------------------------------------------------------------------
(* Nobody sees the presence or the calls of another user, a module that is ready shows  *)
(* something of its own user if it may, and leaving Do Not Disturb never restores Do Not *)
(* Disturb, unless a request or the promise of an earlier login got into this one or the *)
(* first request failed.                                                                 *)
OwnPresence ==
  /\ remembered # "DoNotAcceptAnyCalls"
  /\ \/ crossed \/ ~Settled
     \/ /\ shown.of \in {NoOne, owner}
        /\ status = "ready" /\ hasPresencePermission => shown.of = owner /\ activeCalls > 0
=============================================================================
