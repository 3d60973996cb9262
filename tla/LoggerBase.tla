------------------------------- MODULE LoggerBase -------------------------------
(***************************************************************************)
(* What lib/LoggerBase does with the things an application wants recorded  *)
(* in its own system: one record of a thing after another.  A log is a     *)
(* call of _log with the state, a version, of its thing; it waits for the  *)
(* log of the thing that is under way when it begins, and for no other.    *)
(***************************************************************************)
EXTENDS Integers, FiniteSets

CONSTANTS Thing

VARIABLES
  logs,        \* logs under way; after: the log one waits for, 0 if it is at logFunction
  logPromises, \* the log in _logPromises, 0 if there is none
  loggingList,
  recorded,    \* the version the application's system has of a thing, 0 if none
  disturbed    \* history: things one of whose logs failed, or overlapped another

logger == <<logs, logPromises, loggingList, recorded, disturbed>>

Log == [id : Nat \ {0}, of : Thing, version : Nat, after : Nat]

LoggerTypeOK ==
  /\ logs \subseteq Log
  /\ logPromises \in [Thing -> Nat]
  /\ loggingList \subseteq Thing /\ disturbed \subseteq Thing
  /\ recorded \in [Thing -> Nat]

LoggerInit ==
  /\ logs = {}
  /\ logPromises = [t \in Thing |-> 0]
  /\ loggingList = {} /\ disturbed = {}
  /\ recorded = [t \in Thing |-> 0]

Running(t) == {l \in logs : l.of = t /\ l.after = 0}
Waiting(l) == {w \in logs : w.after = l.id}

NewLog == CHOOSE i \in 1..(Cardinality(logs) + 1) : \A l \in logs : l.id # i

Awaited_None(t) == 0
\* The log of thing t that a new one waits for.
Awaited(t) == logPromises[t]

\* _log of a module that is ready, up to its await.
BeginLog(t, version) ==
  LET l == [id |-> NewLog, of |-> t, version |-> version, after |-> Awaited(t)] IN
  /\ logs' = logs \cup {l}
  /\ logPromises' = IF l.after = 0 THEN [logPromises EXCEPT ![t] = l.id] ELSE logPromises
  /\ loggingList' = IF l.after = 0 THEN loggingList \cup {t} ELSE loggingList
  /\ disturbed' = IF l.after = 0 /\ Running(t) # {} THEN disturbed \cup {t} ELSE disturbed
  /\ UNCHANGED recorded

\* logFunction has recorded it; all that waited for this log go on, in the same turn, and
\* the entry in _logPromises is that of the last of them.
LogDone(l) ==
  /\ l.after = 0
  /\ recorded' = [recorded EXCEPT ![l.of] = l.version]
  /\ logs' = (logs \ ({l} \cup Waiting(l))) \cup {[w EXCEPT !.after = 0] : w \in Waiting(l)}
  /\ \E last \in IF Waiting(l) = {} THEN {0} ELSE {w.id : w \in Waiting(l)} :
       logPromises' = [logPromises EXCEPT ![l.of] = last]
  /\ loggingList' = IF Waiting(l) = {} THEN loggingList \ {l.of} ELSE loggingList \cup {l.of}
  /\ disturbed' = IF Cardinality(Waiting(l)) > 1 \/ Running(l.of) # {l}
                  THEN disturbed \cup {l.of} ELSE disturbed

\* It fails, and with it all that waited for it, which never begin.
LogFails(l) ==
  /\ l.after = 0
  /\ logs' = logs \ ({l} \cup Waiting(l))
  /\ logPromises' = [logPromises EXCEPT ![l.of] = 0]
  /\ loggingList' = loggingList \ {l.of}
  /\ disturbed' = disturbed \cup {l.of}
  /\ UNCHANGED recorded

\* resetSuccess: the logs go on.
LoggerReset ==
  /\ loggingList' = {}
  /\ UNCHANGED <<logs, logPromises, recorded, disturbed>>

\* What is shown as being logged is being logged.
OnlyLogging == \A t \in loggingList : Running(t) # {}
=============================================================================
