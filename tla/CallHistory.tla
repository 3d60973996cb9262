------------------------------ MODULE CallHistory ------------------------------
(***************************************************************************)
(* The calls on the screen: the active ones, which modules/CallMonitor     *)
(* derives from the presence, and the history of modules/CallHistory: the  *)
(* calls of the log, and before them those that ended and are not in the   *)
(* log yet.  What the presence and the log say is the environment's (see   *)
(* Presence and CallLog), and may change in any way.                       *)
(*                                                                         *)
(* An action is one event loop turn; the store listeners run before        *)
(* anything else happens (Settled), in the order of their registration,    *)
(* which is not fixed here.                                                *)
(***************************************************************************)
EXTENDS Integers, FiniteSets

CONSTANTS
  Session,
  RingOut,    \* pairs of an outbound and an inbound session that are one RingOut call
  None,
  MaxChanges  \* bound: changes of the presence, the log and what is ready

VARIABLES
  presence,   \* detailedPresence.data: the status of the legs of a session
  records,    \* the legs callLog.data has a record of
  readiness,  \* presence, log, and all else both modules wait for
  monitor,    \* the status of CallMonitor and _lastProcessedCalls
  history,    \* that of CallHistory, with _lastProcessedMonitorCalls, _lastProcessedCalls
              \* and _lastProcessedIds
  endedCalls,
  matched,    \* history: what the matchers were last asked about
  seen,       \* history: sessions CallHistory saw active since it is ready
  changes

vars == <<presence, records, readiness, monitor, history, endedCalls, matched, seen, changes>>

Direction == {"Inbound", "Outbound"}
Status    == {"Ringing", "CallConnected", "OnHold", "NoCall"}
Leg       == Session \X Direction
Item      == [session : Session, direction : Direction, status : Status]
Part      == {"presence", "log", "others"}

TypeOK ==
  /\ presence \in [Leg -> Status \cup {None}]
  /\ records \subseteq Leg
  /\ readiness \in [Part -> BOOLEAN]
  /\ monitor \in [ready : BOOLEAN, last : (SUBSET Item) \cup {None}]
  /\ history \in [ready : BOOLEAN, last : (SUBSET Session) \cup {None},
                  log : (SUBSET Session) \cup {None}, ids : (SUBSET Session) \cup {None}]
  /\ endedCalls \subseteq Session
  /\ matched \subseteq Session /\ seen \subseteq Session
  /\ changes \in Nat

Init ==
  /\ presence = [leg \in Leg |-> None]
  /\ records = {}
  /\ readiness = [p \in Part |-> FALSE]
  /\ monitor = [ready |-> FALSE, last |-> None]
  /\ history = [ready |-> FALSE, last |-> None, log |-> None, ids |-> None]
  /\ endedCalls = {} /\ matched = {} /\ seen = {}
  /\ changes = 0

-----------------------------------------------------------------------------
(* callLogHelpers. *)

\* removeInboundRingOutLegs: of two legs of one call the outbound one stays.
Merged(legs) ==
  {leg \in legs : ~\E pair \in RingOut :
     /\ leg = <<pair[2], "Inbound">> /\ <<pair[1], "Outbound">> \in legs}

Legs == {leg \in Leg : presence[leg] # None}

\* The call is on hold if its inbound leg is.
MergedStatus(leg) ==
  IF \E pair \in RingOut : /\ leg = <<pair[1], "Outbound">>
                           /\ presence[<<pair[2], "Inbound">>] = "OnHold"
  THEN "OnHold" ELSE presence[leg]

\* The selectors calls of DetailedPresence (without the ended calls) and of CallMonitor, and the sessions of the
\* selector calls of CallLog.
monitorCalls ==
  {[session |-> leg[1], direction |-> leg[2], status |-> MergedStatus(leg)] :
     leg \in {l \in Merged(Legs) : MergedStatus(l) # "NoCall"}}

Sessions(calls) == {call.session : call \in calls}
Active == Sessions(monitorCalls)
Logged == {leg[1] : leg \in Merged(records)}

\* The selector calls of CallHistory, by session.
Listed == Logged \cup endedCalls

-----------------------------------------------------------------------------
(* CallMonitor. *)

MonitorMay == readiness["presence"] /\ readiness["others"]
MonitorTurns   == monitor.ready # MonitorMay
MonitorChanged == monitor.ready /\ MonitorMay /\ monitor.last # monitorCalls

\* init, initSuccess; reset, resetSuccess.
MonitorReady ==
  /\ MonitorTurns
  /\ monitor' = [ready |-> MonitorMay, last |-> None]
  /\ UNCHANGED <<presence, records, readiness, history, endedCalls, matched, seen, changes>>

\* triggerMatch asks about what both modules show, as far as they are ready.
Queries(ended) ==
  (IF readiness["presence"] THEN Active ELSE {})
    \cup (IF readiness["log"] /\ monitor.ready THEN Logged \cup ended ELSE {})

\* _onStateChange, but for the callbacks of the application and the contacts it called.
MonitorCalls ==
  /\ MonitorChanged
  /\ monitor' = [monitor EXCEPT !.last = monitorCalls]
  /\ matched' = IF monitor.last # None /\ Sessions(monitor.last) = Active THEN matched
                ELSE Queries(endedCalls)
  /\ UNCHANGED <<presence, records, readiness, history, endedCalls, seen, changes>>

-----------------------------------------------------------------------------
(* CallHistory. *)

HistoryMay     == readiness["log"] /\ monitor.ready /\ readiness["others"]
HistoryTurns   == history.ready # HistoryMay
HistoryChanged ==
  /\ history.ready /\ HistoryMay
  /\ history.last # Active \/ history.log # Logged \/ history.ids # Listed

\* _initModuleStatus, _resetModuleStatus.
HistoryReady ==
  /\ HistoryTurns
  /\ history' = [ready |-> HistoryMay, last |-> None, log |-> None, ids |-> None]
  /\ endedCalls' = IF HistoryMay THEN endedCalls ELSE {}
  /\ seen' = {}
  /\ UNCHANGED <<presence, records, readiness, monitor, matched, changes>>

Ended_Unlogged == IF history.last = None THEN {} ELSE (history.last \ Active) \cap Logged
\* _getEndedCalls.
Ended == IF history.last = None THEN {} ELSE history.last \ (Active \cup Logged)

\* _shouldRemoveEndedCalls, after those are added.
ShouldRemove(ended) == IF history.log = Logged THEN {} ELSE ended \cap Logged

\* _processCallHistory, and the listener again after what it dispatches.
ProcessCallHistory ==
  /\ HistoryChanged
  /\ endedCalls' = (endedCalls \cup Ended) \ ShouldRemove(endedCalls \cup Ended)
  /\ history' = [history EXCEPT !.last = Active, !.log = Logged,
                                !.ids = Logged \cup endedCalls']
  /\ matched' = IF history.ids = Logged \cup endedCalls' THEN matched
                ELSE Queries(endedCalls')
  /\ seen' = seen \cup Active
  /\ UNCHANGED <<presence, records, readiness, monitor, changes>>

Settled == ~(MonitorTurns \/ MonitorChanged \/ HistoryTurns \/ HistoryChanged)

-----------------------------------------------------------------------------
(* What the others say. *)

Counted == Settled /\ changes < MaxChanges /\ changes' = changes + 1

\* What is told of at once: a leg, both legs of one call, or all there are.
Told == {{leg} : leg \in Leg}
          \cup {{<<pair[1], "Outbound">>, <<pair[2], "Inbound">>} : pair \in RingOut}
          \cup {Leg}

\* A notification or a fetch.
Notify ==
  /\ Counted
  /\ \E legs \in Told, status \in Status \cup {None} :
       presence' = [leg \in Leg |-> IF leg \in legs THEN status ELSE presence[leg]]
  /\ UNCHANGED <<records, readiness, monitor, history, endedCalls, matched, seen>>

\* A sync of the log.
LogSync ==
  /\ Counted
  /\ \E legs \in Told : records' = records \cup legs /\ ~(legs \subseteq records)
  /\ UNCHANGED <<presence, readiness, monitor, history, endedCalls, matched, seen>>

\* Another module turns ready, which counts once something has happened, or it turns
\* unready: the presence and the log lose their data then.
Turn(part) ==
  /\ Counted \/ (Settled /\ changes = 0 /\ ~readiness[part] /\ UNCHANGED changes)
  /\ readiness' = [readiness EXCEPT ![part] = ~@]
  /\ presence' = IF part = "presence" /\ readiness[part]
                 THEN [leg \in Leg |-> None] ELSE presence
  /\ records' = IF part = "log" /\ readiness[part] THEN {} ELSE records
  /\ UNCHANGED <<monitor, history, endedCalls, matched, seen>>

Next ==
  \/ MonitorReady \/ MonitorCalls
  \/ HistoryReady \/ ProcessCallHistory
  \/ Notify \/ LogSync
  \/ \E part \in Part : Turn(part)

Spec == Init /\ [][Next]_vars

-----------------------------------------------------------------------------
(* Between turns no call gets lost: what the history saw active is active still, or     *)
(* listed as ended or as logged, by its other leg if it is a RingOut call; a call is    *)
(* listed as ended only as long as the log does not have it; and the matchers were      *)
(* asked about every call on the screen.                                                *)
CallsAccountedFor ==
  LET onScreen == Active \cup Listed IN
  Settled /\ history.ready =>
    /\ seen \subseteq onScreen \cup {pair[2] : pair \in {p \in RingOut : p[1] \in onScreen}}
    /\ endedCalls \cap Logged = {}
    /\ onScreen \subseteq matched
=============================================================================
