--------------------------- MODULE ConversationLogger ---------------------------
(***************************************************************************)
(* The automatic recording of conversations (modules/ConversationLogger).  *)
(* A thing is the messages of a conversation on one day, its version the   *)
(* newest of them.  What changed is queued, with the version it has then;  *)
(* _processQueue takes some from the queue every now and then, asks the    *)
(* conversation matcher whether there is a record, and logs them: what has *)
(* a record, as far as the matcher knows, and of the rest what is SMS,     *)
(* after it has asked the contact matcher whose it is.                     *)
(*                                                                         *)
(* An action is one event loop turn or the part of it up to an await; the  *)
(* store listener runs before anything else happens (Settled).  One user   *)
(* logs out and in again.                                                  *)
(***************************************************************************)
EXTENDS LoggerBase, Sequences, Functions

CONSTANTS
  Sms,          \* the things that are of type SMS
  BatchSize,    \* how many _processQueue takes at a time
  MaxMessages,  \* bound: messages of a thing
  MaxEvents     \* bound: failures, options set, logins and logouts, tabs that change

VARIABLES
  latest,     \* messageStore, seen through conversationLogMap
  loggedIn,   \* and all that _shouldInit asks for
  status,
  active,     \* tabManager.active
  autoLog, lastAutoLog,
  last,       \* _lastProcessedConversations, 0 for what it does not have
  queue,      \* _autoLogQueue
  runs,       \* calls of _processQueue
  promise,    \* _autoLogPromise is set
  known,      \* external: things of which conversationMatcher.dataMapping has a record
  asked,      \* history: things the user has logged
  excused,    \* history: things that changed while nothing was to be recorded, or may be
              \* behind a failure of _processQueue or in one of an earlier login, or of
              \* which one batch had two versions
  events

conversations == <<latest, loggedIn, status, active, autoLog, lastAutoLog, last, queue, runs,
                   promise, known, asked, excused, events>>
vars == <<logger, conversations>>

Change == [of : Thing, version : Nat]
\* batch has what was taken and is not processed, by its place; contacts the places of what
\* waits for the contact matcher.
IsRun(r) ==
  /\ r = [asleep |-> r.asleep, batch |-> r.batch, contacts |-> r.contacts, failed |-> r.failed]
  /\ r.asleep \in BOOLEAN /\ r.failed \in BOOLEAN
  /\ DOMAIN r.batch \subseteq 1..BatchSize
  /\ r.batch \in [DOMAIN r.batch -> Change]
  /\ r.contacts \subseteq 1..BatchSize

TypeOK ==
  /\ LoggerTypeOK
  /\ latest \in [Thing -> Nat] /\ last \in [Thing -> Nat]
  /\ loggedIn \in BOOLEAN /\ active \in BOOLEAN
  /\ status \in {"pending", "ready"}
  /\ autoLog \in BOOLEAN /\ lastAutoLog \in BOOLEAN
  /\ queue \in Seq(Change)
  /\ \A r \in runs : IsRun(r)
  /\ promise \in BOOLEAN
  /\ known \subseteq Thing /\ asked \subseteq Thing /\ excused \subseteq Thing
  /\ events \in Nat

Init ==
  /\ LoggerInit
  /\ latest = [t \in Thing |-> 0] /\ last = [t \in Thing |-> 0]
  /\ loggedIn = FALSE /\ status = "pending" /\ active = TRUE
  /\ autoLog = TRUE /\ lastAutoLog = FALSE    \* as Storage has it; _lastAutoLog is null
  /\ queue = <<>> /\ runs = {} /\ promise = FALSE
  /\ known = {} /\ asked = {} /\ excused = {} /\ events = 0

Counted == events < MaxEvents /\ events' = events + 1

-----------------------------------------------------------------------------
(* The store listener. *)

ShouldInit    == loggedIn /\ status = "pending"
ShouldReset   == ~loggedIn /\ status = "ready"
ShouldProcess == loggedIn /\ status = "ready" /\ (last # latest \/ lastAutoLog # autoLog)
Settled       == ~(ShouldInit \/ ShouldReset \/ ShouldProcess)

Initialize ==
  /\ ShouldInit
  /\ status' = "ready"
  /\ UNCHANGED <<logger, latest, loggedIn, active, autoLog, lastAutoLog, last, queue, runs,
                 promise, known, asked, excused, events>>

\* _onReset.  A _processQueue that goes on will take part in the next login, besides the
\* one that is started there, and in any order.
Reset ==
  /\ ShouldReset
  /\ status' = "pending"
  /\ last' = [t \in Thing |-> 0]
  /\ lastAutoLog' = FALSE
  /\ queue' = <<>>
  /\ promise' = FALSE
  /\ LoggerReset
  /\ excused' = IF runs = {} THEN excused ELSE Thing
  /\ UNCHANGED <<latest, loggedIn, active, autoLog, runs, known, asked, events>>

Asleep       == [asleep |-> TRUE, batch |-> <<>>, contacts |-> {}, failed |-> FALSE]
Awake(batch) == [asleep |-> FALSE, batch |-> batch, contacts |-> {}, failed |-> FALSE]

\* Messages that are not in the map that was processed before; all after autoLog is on.
Changed ==
  {t \in Thing : /\ latest[t] # 0
                 /\ latest[t] # last[t] \/ (autoLog /\ ~lastAutoLog)}

\* _processConversationLogMap, of the main tab; _queueAutoLogConversation.
ProcessConversationLogMap ==
  /\ ShouldProcess
  /\ last' = latest
  /\ lastAutoLog' = autoLog
  /\ \E order \in [1..Cardinality(Changed) -> Changed] :
       /\ \A t \in Changed : \E i \in DOMAIN order : order[i] = t
       /\ queue' = IF active
                   THEN queue \o [i \in DOMAIN order |->
                                    [of |-> order[i], version |-> latest[order[i]]]]
                   ELSE queue
  /\ IF active /\ Changed # {} /\ ~promise
     THEN runs' = runs \cup {Asleep} /\ promise' = TRUE
     ELSE UNCHANGED <<runs, promise>>
  /\ excused' = IF active THEN excused ELSE excused \cup Changed
  /\ UNCHANGED <<logger, latest, loggedIn, status, active, autoLog, known, asked, events>>

-----------------------------------------------------------------------------
(* _processQueue. *)

Least(a, b) == IF a < b THEN a ELSE b

\* The things of which a batch has two versions.  They are processed in parallel, and the
\* match of the second may be over before that of the first, whose request it found.
Twice(batch) ==
  {t \in Thing : \E i, j \in DOMAIN batch :
                   /\ batch[i].of = t /\ batch[j].of = t
                   /\ batch[i].version # batch[j].version}

\* sleep is over; nobody is logged in, or it takes the first of the queue.
WakeUp(r) ==
  LET n     == Least(BatchSize, Len(queue))
      batch == SubSeq(queue, 1, n) IN
  /\ Settled /\ r.asleep
  /\ IF loggedIn
     THEN /\ runs' = (runs \ {r}) \cup {Awake(batch)}
          /\ queue' = SubSeq(queue, n + 1, Len(queue))
          /\ excused' = excused \cup Twice(batch)
     ELSE runs' = runs \ {r} /\ UNCHANGED <<queue, excused>>
  /\ UNCHANGED <<logger, latest, loggedIn, status, active, autoLog, lastAutoLog, last, promise,
                 known, asked, events>>

Processed(r, i) == [r EXCEPT !.batch = Restrict(@, DOMAIN @ \ {i}), !.contacts = @ \ {i}]

\* _autoLogConversation.  log throws if the module is not ready, and nobody awaits it.
AutoLog(r, i) ==
  /\ runs' = (runs \ {r}) \cup {Processed(r, i)}
  /\ IF status = "ready" THEN BeginLog(r.batch[i].of, r.batch[i].version) /\ UNCHANGED excused
     ELSE UNCHANGED logger /\ excused' = excused \cup {r.batch[i].of}

\* The matcher answers from what it has, which may be older than the record, or asks.
Found(t) == {recorded[t] # 0, t \in known}

IsNewEntry_AnyType(t) == autoLog
\* A thing without a record is logged if it is SMS; the others are left alone.
IsNewEntry(t) == autoLog /\ t \in Sms

\* _processConversationLog: the conversation matcher has answered.
ProcessConversationLog(r, i) ==
  LET t == r.batch[i].of IN
  /\ Settled /\ i \notin r.contacts
  /\ \E found \in Found(t) :
       /\ known' = IF found THEN known \cup {t} ELSE known
       /\ \/ found /\ AutoLog(r, i)
          \/ /\ ~found /\ IsNewEntry(t)
             /\ runs' = (runs \ {r}) \cup {[r EXCEPT !.contacts = @ \cup {i}]}
             /\ UNCHANGED <<logger, excused>>
          \/ /\ ~found /\ ~IsNewEntry(t)
             /\ runs' = (runs \ {r}) \cup {Processed(r, i)}
             /\ excused' = excused \cup {t}
             /\ UNCHANGED logger
  /\ UNCHANGED <<latest, loggedIn, status, active, autoLog, lastAutoLog, last, queue, promise,
                 asked, events>>

\* The contact matcher has answered: what was found out before is not looked at again.
ContactsMatched(r, i) ==
  /\ Settled /\ i \in r.contacts
  /\ AutoLog(r, i)
  /\ UNCHANGED <<latest, loggedIn, status, active, autoLog, lastAutoLog, last, queue, promise,
                 known, asked, events>>

\* A matcher fails; _processQueue throws, and _autoLogPromise stays.
MatchFails(r, i) ==
  /\ Settled /\ Counted
  /\ runs' = (runs \ {r}) \cup {[Processed(r, i) EXCEPT !.failed = TRUE]}
  /\ excused' = Thing
  /\ UNCHANGED <<logger, latest, loggedIn, status, active, autoLog, lastAutoLog, last, queue,
                 promise, known, asked>>

Continues_Never(r) == FALSE
Continues(r) == loggedIn /\ queue # <<>>

\* All of the batch are done.
EndRun(r) ==
  /\ Settled /\ ~r.asleep /\ DOMAIN r.batch = {}
  /\ runs' = (runs \ {r}) \cup (IF ~r.failed /\ Continues(r) THEN {Asleep} ELSE {})
  /\ promise' = IF r.failed THEN promise ELSE Continues(r)
  /\ UNCHANGED <<logger, latest, loggedIn, status, active, autoLog, lastAutoLog, last, queue,
                 known, asked, excused, events>>

-----------------------------------------------------------------------------
(* The rest. *)

\* logConversation: what waits in the queue for the same thing stays there.
LogConversation(t) ==
  /\ Settled /\ Counted /\ status = "ready" /\ latest[t] # 0
  /\ BeginLog(t, latest[t])
  /\ asked' = asked \cup {t}
  /\ UNCHANGED <<latest, loggedIn, status, active, autoLog, lastAutoLog, last, queue, runs,
                 promise, known, excused>>

Logs ==
  /\ Settled
  /\ \E l \in logs : \/ LogDone(l) /\ UNCHANGED events
                     \/ LogFails(l) /\ Counted
  /\ UNCHANGED <<latest, loggedIn, status, active, autoLog, lastAutoLog, last, queue, runs,
                 promise, known, asked, excused>>

Message(t) ==
  /\ Settled /\ latest[t] < MaxMessages
  /\ latest' = [latest EXCEPT ![t] = @ + 1]
  /\ UNCHANGED <<logger, loggedIn, status, active, autoLog, lastAutoLog, last, queue, runs,
                 promise, known, asked, excused, events>>

\* The user logs in or out, sets autoLog (setAutoLog), or goes to another tab.
Turn ==
  /\ Settled /\ Counted
  /\ \/ loggedIn' = ~loggedIn /\ UNCHANGED <<active, autoLog>>
     \/ active' = ~active /\ UNCHANGED <<loggedIn, autoLog>>
     \/ status = "ready" /\ autoLog' = ~autoLog /\ UNCHANGED <<loggedIn, active>>
  /\ UNCHANGED <<logger, latest, status, lastAutoLog, last, queue, runs, promise, known, asked,
                 excused>>

Next ==
  \/ Initialize \/ Reset \/ ProcessConversationLogMap
  \/ \E r \in runs : \/ WakeUp(r) \/ EndRun(r)
                     \/ \E i \in DOMAIN r.batch :
                          \/ ProcessConversationLog(r, i) \/ ContactsMatched(r, i)
                          \/ MatchFails(r, i)
  \/ \E t \in Thing : LogConversation(t) \/ Message(t)
  \/ Logs \/ Turn

Spec == Init /\ [][Next]_vars

-----------------------------------------------------------------------------
(* When nothing is on its way, the record of a thing is about its newest message: what  *)
(* changed waits in the queue, and somebody will take it from there; and what is not SMS *)
(* has a record only if the user asked for it.  Excused is what was not the business of  *)
(* this tab or of autoLog, as it was and as far as the matcher knew when it looked, was  *)
(* behind a failure of a matcher, came from an earlier login, or was in one batch with   *)
(* another version; disturbed is what a failed log, or one of three at a time, was for.  *)
LatestLogged ==
  /\ Settled /\ status = "ready" =>
       \A t \in Thing \ (excused \cup disturbed) :
         \/ recorded[t] = latest[t]
         \/ \E l \in logs : l.of = t /\ l.version = latest[t]
         \/ \E r \in runs : \E i \in DOMAIN r.batch :
              r.batch[i] = [of |-> t, version |-> latest[t]]
         \/ /\ runs # {}
            /\ \E i \in DOMAIN queue : queue[i] = [of |-> t, version |-> latest[t]]
  /\ \A t \in Thing \ (Sms \cup asked) : recorded[t] = 0
  /\ OnlyLogging
=============================================================================
