--------------------------- MODULE WebphoneConnection ---------------------------
(***************************************************************************)
(* How modules/Webphone connects to the SIP server.  connect asks for the  *)
(* devices, _connect for the provision data, and the user agent made from  *)
(* them says whether it is registered; what fails is tried again after a   *)
(* sleep.  Nothing stops a call that is under way: it looks at the state   *)
(* after each await and goes on or does not.                               *)
(*                                                                         *)
(* An action is one event loop turn; the store listener runs before        *)
(* anything else happens (Settled).  The browser is one that is supported. *)
(***************************************************************************)
EXTENDS Integers

CONSTANTS
  MaxUnderWay,  \* bound: calls that wait at one await
  MaxEvents     \* bound: logins, logouts, tabs that change, connects, disconnects, failures

VARIABLES
  loggedIn,          \* and all else that _shouldInit asks for
  status,
  active,            \* tabManager.active
  connectionStatus,
  webphone,          \* _webphone: what its user agent said last
  heard,             \* onRegistrationFailed, which is heard once, was
  underWay,          \* calls of connect and _connect, by the await they are at
  wanted,            \* history: connect was called, and disconnect not since
  crossed,           \* history: a disconnect did not reach all, or two attempts overlapped
  events

vars == <<loggedIn, status, active, connectionStatus, webphone, heard, underWay, wanted, crossed,
          events>>

Await == {"_fetchDL", "_retrySleep", "inactive", "inactiveReconnect", "_sipProvision"}

\* "disconnecting" lasts for a part of a turn only.
TypeOK ==
  /\ loggedIn \in BOOLEAN /\ active \in BOOLEAN
  /\ status \in {"pending", "ready"}
  /\ connectionStatus \in {"disconnected", "connecting", "connected", "connectFailed"}
  /\ webphone \in {"none", "new", "registered", "unregistered", "failed"}
  /\ underWay \in [Await -> 0..MaxUnderWay]
  /\ heard \in BOOLEAN /\ wanted \in BOOLEAN /\ crossed \in BOOLEAN
  /\ events \in 0..MaxEvents

Init ==
  /\ loggedIn = FALSE /\ status = "pending" /\ active = TRUE
  /\ connectionStatus = "disconnected"
  /\ webphone = "none" /\ heard = FALSE
  /\ underWay = [a \in Await |-> 0]
  /\ wanted = FALSE /\ crossed = FALSE
  /\ events = 0

Counted == events < MaxEvents /\ events' = events + 1

-----------------------------------------------------------------------------
(* _connect. *)

ShouldInit  == loggedIn /\ status = "pending"
ShouldReset == ~loggedIn /\ status = "ready"
Settled     == ~(ShouldInit \/ ShouldReset)

Idle == Settled /\ UNCHANGED <<loggedIn, status, active>>

\* A call leaves one await (or none) and may reach another.
Moves(from, to) ==
  /\ underWay' = [a \in Await |->
       underWay[a] - (IF a = from THEN 1 ELSE 0) + (IF a = to THEN 1 ELSE 0)]
  /\ \A a \in Await : underWay'[a] \in 0..MaxUnderWay

GoesOn_Always(reconnect, connection) == loggedIn /\ connection # "connecting"
GoesOn(reconnect, connection) ==
  /\ loggedIn /\ connection # "connecting"
  /\ reconnect => connection = "connectFailed"

\* From the check of loggedIn to the request; the count of retries only sets the sleep.
Connects(from, reconnect, connection) ==
  IF ~GoesOn(reconnect, connection)
  THEN Moves(from, "none") /\ connectionStatus' = connection
  ELSE IF ~active
  THEN /\ Moves(from, IF reconnect THEN "inactiveReconnect" ELSE "inactive")
       /\ connectionStatus' = connection
  ELSE Moves(from, "_sipProvision") /\ connectionStatus' = "connecting"

\* Two attempts at once: the one ends what the other has got.
Overlap ==
  \/ underWay'["_sipProvision"] > 1
  \/ underWay'["_sipProvision"] > 0 /\ webphone \in {"new", "registered"}

WakeUp ==
  /\ underWay["_retrySleep"] > 0
  /\ Connects("_retrySleep", TRUE, connectionStatus)
  /\ crossed' = (crossed \/ Overlap)
  /\ Idle /\ UNCHANGED <<webphone, heard, wanted, events>>

\* The tab may be the active one now; a reconnect sleeps once more.
InactiveOver ==
  /\ \/ /\ underWay["inactive"] > 0
        /\ Connects("inactive", FALSE, connectionStatus)
     \/ /\ underWay["inactiveReconnect"] > 0
        /\ Moves("inactiveReconnect", "_retrySleep")
        /\ UNCHANGED connectionStatus
  /\ crossed' = (crossed \/ Overlap)
  /\ Idle /\ UNCHANGED <<webphone, heard, wanted, events>>

\* _createWebphone; the user agent there was is stopped, and heard no more.
Provisioned ==
  /\ underWay["_sipProvision"] > 0
  /\ Moves("_sipProvision", "none")
  /\ webphone' = "new" /\ heard' = FALSE
  /\ crossed' = (crossed \/ connectionStatus # "connecting")
  /\ Idle /\ UNCHANGED <<connectionStatus, wanted, events>>

\* The request fails, or the feature is not there: then nothing says so.
ProvisionFails ==
  /\ underWay["_sipProvision"] > 0 /\ Counted
  /\ \/ /\ Moves("_sipProvision", "_retrySleep")
        /\ connectionStatus' = "connectFailed"
        /\ UNCHANGED crossed
     \/ /\ Moves("_sipProvision", "none")
        /\ crossed' = TRUE
        /\ UNCHANGED connectionStatus
  /\ Idle /\ UNCHANGED <<webphone, heard, wanted>>

-----------------------------------------------------------------------------
(* What the user agent says. *)

\* onRegistered: the first time counts, all later ones do not.
Registered ==
  /\ webphone \in {"new", "unregistered", "failed"}
  /\ webphone' = "registered"
  /\ connectionStatus' = "connected"
  /\ crossed' = (crossed \/ underWay["_sipProvision"] > 0)
  /\ Idle /\ UNCHANGED <<heard, underWay, wanted, events>>

Unregistered ==
  /\ webphone # "none" /\ Counted
  /\ webphone' = "unregistered"
  /\ connectionStatus' = "disconnected"
  /\ crossed' = (crossed \/ underWay["_sipProvision"] > 0)
  /\ Idle /\ UNCHANGED <<heard, underWay, wanted>>

\* onRegistrationFailed.  The server has too many of us, forbids it
\* or times out: the agent is removed, and _connect sleeps.
RegistrationFailed ==
  /\ webphone # "none" /\ ~heard /\ Counted
  /\ heard' = TRUE
  /\ connectionStatus' = "connectFailed"
  /\ \/ webphone' = "none" /\ Moves("none", "_retrySleep")
     \/ webphone' = "failed" /\ UNCHANGED underWay
  /\ crossed' = (crossed \/ underWay["_sipProvision"] > 0)
  /\ Idle /\ UNCHANGED wanted

-----------------------------------------------------------------------------
(* What the application does, and the store listener. *)

\* connect, up to the answer of _fetchDL.
Connect ==
  /\ loggedIn /\ connectionStatus = "disconnected" /\ Counted
  /\ Moves("none", "_fetchDL")
  /\ wanted' = TRUE
  /\ Idle /\ UNCHANGED <<connectionStatus, webphone, heard, crossed>>

\* There is a line to call from, or there is none or no answer: it is said, and connects.
FetchedDL ==
  /\ underWay["_fetchDL"] > 0
  /\ \E lines \in BOOLEAN :
       Connects("_fetchDL", FALSE, IF lines THEN connectionStatus ELSE "connectFailed")
  /\ crossed' = (crossed \/ Overlap \/ connectionStatus \in {"connecting", "connected"})
  /\ Idle /\ UNCHANGED <<webphone, heard, wanted, events>>

\* What a disconnect does not end: what goes on later whatever the state is then, and a
\* user agent that is there though it said it is not registered.
Survives ==
  \/ \E a \in {"_fetchDL", "inactive", "_sipProvision"} : underWay[a] > 0
  \/ connectionStatus = "disconnected" /\ webphone # "none"

Disconnects_Failed == connectionStatus \in {"connected", "connecting"}
Disconnects == connectionStatus \in {"connected", "connecting", "connectFailed"}

\* _disconnect.
Disconnected ==
  /\ connectionStatus' = "disconnected"
  /\ webphone' = IF Disconnects THEN "none" ELSE webphone
  /\ wanted' = FALSE
  /\ crossed' = Survives
  /\ UNCHANGED <<heard, underWay>>

Disconnect == Counted /\ Disconnected /\ Idle

Initialize ==
  /\ ShouldInit
  /\ status' = "ready"
  /\ UNCHANGED <<loggedIn, active, connectionStatus, webphone, heard, underWay, wanted, crossed, events>>

Reset ==
  /\ ShouldReset
  /\ status' = "pending"
  /\ Disconnected
  /\ UNCHANGED <<loggedIn, active, events>>

Turn ==
  /\ Settled /\ Counted
  /\ \/ loggedIn' = ~loggedIn /\ UNCHANGED active
     \/ active' = ~active /\ UNCHANGED loggedIn
  /\ UNCHANGED <<status, connectionStatus, webphone, heard, underWay, wanted, crossed>>

Next ==
  \/ WakeUp \/ InactiveOver \/ Provisioned \/ ProvisionFails
  \/ Registered \/ Unregistered \/ RegistrationFailed
  \/ Connect \/ FetchedDL \/ Disconnect
  \/ Initialize \/ Reset \/ Turn

Spec == Init /\ [][Next]_vars

-----------------------------------------------------------------------------
(* The status does not lie and does not get stuck: who is connecting has a request or   *)
(* a new user agent under way, who failed has a retry or an agent left, who is          *)
(* connected is registered; and after a disconnect, or a logout, it stays disconnected, *)
(* retries that sleep included.  Crossed are those attempts the code cannot tell apart. *)
ConnectionServed ==
  Settled /\ ~crossed =>
    /\ connectionStatus = "connecting" => underWay["_sipProvision"] > 0 \/ webphone = "new"
    /\ connectionStatus = "connected" => webphone = "registered"
    /\ connectionStatus = "connectFailed" /\ loggedIn =>
         webphone # "none" \/ \E a \in Await : underWay[a] > 0
    /\ ~wanted => connectionStatus = "disconnected" /\ webphone = "none"
=============================================================================
