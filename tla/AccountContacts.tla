---------------------------- MODULE AccountContacts ----------------------------
(***************************************************************************)
(* How the presence of the company's contacts is asked for                 *)
(* (modules/AccountContacts): calls of getPresence that find nothing in    *)
(* the cache are collected until they are enough, or for a second, and     *)
(* asked in one request, which answers each of them.                       *)
(*                                                                         *)
(* An action is one event loop turn.  The server's answer may lack         *)
(* contacts.  A presence is told by the login it was read in.              *)
(***************************************************************************)
EXTENDS Integers, Sequences, FiniteSets

CONSTANTS
  Person,
  BatchSize,  \* MaximumBatchGetPresence
  MaxAsks,    \* bound: calls of getPresence
  MaxEvents   \* bound: failures, presences that expire, logins and logouts

VARIABLES
  status,     \* and so what accountExtension and accountPhoneNumber are
  logins,
  presences,  \* what is cached of a contact: the login it is of, negative if too old, 0 if none
  contexts,   \* _getPresenceContexts
  timeout,    \* enqueueTimeoutId is pending
  batches,    \* _processQueryPresences under way
  asked, answered,  \* history: calls, and those whose promise was resolved
  late,       \* history: contacts whose presence a batch of an earlier login brought
  events

vars == <<status, logins, presences, contexts, timeout, batches, asked, answered, late, events>>

Ask   == [id : 1..MaxAsks, of : Person]
Batch == [asks : Seq(Ask), login : Nat]

TypeOK ==
  /\ status \in {"pending", "ready"}
  /\ logins \in Nat
  /\ presences \in [Person -> Int]
  /\ contexts \in Seq(Ask)
  /\ timeout \in BOOLEAN
  /\ \A b \in batches : b \in Batch
  /\ asked \in 0..MaxAsks
  /\ answered \subseteq 1..asked
  /\ late \subseteq Person
  /\ events \in 0..MaxEvents

Init ==
  /\ status = "pending" /\ logins = 0
  /\ presences = [p \in Person |-> 0]
  /\ contexts = <<>> /\ timeout = FALSE /\ batches = {}
  /\ asked = 0 /\ answered = {} /\ late = {} /\ events = 0

Counted == events < MaxEvents /\ events' = events + 1

-----------------------------------------------------------------------------
Queried(asks) == batches' = batches \cup {[asks |-> asks, login |-> logins]}

IsFull_Later(asks) == Len(asks) > BatchSize
\* _getPresenceContexts.length === MaximumBatchGetPresence
IsFull(asks) == Len(asks) = BatchSize

\* getPresence, of the cache or not; whichever it is, the timeout starts anew.
GetPresence(p, useCache) ==
  /\ asked < MaxAsks
  /\ asked' = asked + 1
  /\ IF useCache /\ presences[p] > 0
     THEN /\ answered' = answered \cup {asked'}
          /\ UNCHANGED <<contexts, timeout, batches>>
     ELSE LET asks == Append(contexts, [id |-> asked', of |-> p]) IN
          /\ timeout' = ~IsFull(asks)
          /\ IF IsFull(asks) THEN contexts' = <<>> /\ Queried(asks)
             ELSE contexts' = asks /\ UNCHANGED batches
          /\ UNCHANGED answered
  /\ UNCHANGED <<status, logins, presences, late, events>>

\* The second is over.
Enqueue ==
  /\ timeout
  /\ timeout' = FALSE
  /\ contexts' = <<>> /\ Queried(contexts)
  /\ UNCHANGED <<status, logins, presences, asked, answered, late, events>>

Asks(b) == {b.asks[i] : i \in DOMAIN b.asks}

\* batchFetchPresenceSuccess: what is too old goes, what was found comes.
Fetched(b, found) ==
  [p \in Person |-> IF p \in found THEN b.login ELSE IF presences[p] < 0 THEN 0 ELSE presences[p]]

\* The answer, of some contacts or, if the request failed, of none; the others get null.
Answer(b) ==
  /\ \E found \in SUBSET {a.of : a \in Asks(b)} :
       /\ \/ found = {a.of : a \in Asks(b)} /\ UNCHANGED events
          \/ found # {a.of : a \in Asks(b)} /\ Counted
       /\ presences' = Fetched(b, found)
       /\ late' = IF b.login = logins /\ status = "ready" THEN late \ found ELSE late \cup found
  /\ batches' = batches \ {b}
  /\ answered' = answered \cup {a.id : a \in Asks(b)}
  /\ UNCHANGED <<status, logins, contexts, timeout, asked>>

\* presenceTtl is over.
Expire(p) ==
  /\ presences[p] > 0 /\ Counted
  /\ presences' = [presences EXCEPT ![p] = -@]
  /\ UNCHANGED <<status, logins, contexts, timeout, batches, asked, answered, late>>

\* initSuccess.
Initialize ==
  /\ status = "pending" /\ Counted
  /\ status' = "ready" /\ logins' = logins + 1
  /\ UNCHANGED <<presences, contexts, timeout, batches, asked, answered, late>>

\* resetSuccess drops what is cached; what is collected or under way goes on.
Reset ==
  /\ status = "ready" /\ Counted
  /\ status' = "pending"
  /\ presences' = [p \in Person |-> 0] /\ late' = {}
  /\ UNCHANGED <<logins, contexts, timeout, batches, asked, answered>>

Next ==
  \/ \E p \in Person, useCache \in BOOLEAN : GetPresence(p, useCache)
  \/ Enqueue
  \/ \E b \in batches : Answer(b)
  \/ \E p \in Person : Expire(p)
  \/ Initialize \/ Reset

Spec == Init /\ [][Next]_vars

-----------------------------------------------------------------------------
(* Every call of getPresence is answered, or is collected or asked for, once; what is   *)
(* collected has a timeout to wait for, which has something to ask; and a presence that *)
(* is cached is of this login, unless it came from a request of an earlier one.         *)
PresencesAnswered ==
  /\ \A n \in 1..asked :
       Cardinality({i \in DOMAIN contexts : contexts[i].id = n})
         + Cardinality({b \in batches : \E a \in Asks(b) : a.id = n})
         + (IF n \in answered THEN 1 ELSE 0) = 1
  /\ timeout <=> contexts # <<>>
  /\ Len(contexts) < BatchSize
  /\ \A p \in Person \ late : presences[p] # 0 =>
       status = "ready" /\ presences[p] \in {logins, -logins}
=============================================================================
