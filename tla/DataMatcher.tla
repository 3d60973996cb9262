------------------------------ MODULE DataMatcher ------------------------------
(***************************************************************************)
(* Matches of numbers, sessions and conversations with the contacts and    *)
(* records of an application (lib/DataMatcher, and so ContactMatcher,      *)
(* ActivityMatcher and ConversationMatcher), for one search provider.      *)
(* Queries that have no fresh result, and that no request under way or     *)
(* queued is for, are asked at once if there is no request, and else in a  *)
(* queue that follows the one under way.                                   *)
(*                                                                         *)
(* An action is one event loop turn, or the part of a turn before or after *)
(* an await.  The results themselves are left out.                         *)
(***************************************************************************)
EXTENDS Integers, FiniteSets

CONSTANTS
  Query, None,
  MaxAsks,     \* bound: calls of triggerMatch and match
  MaxEvents    \* bound: failures, results that expire, changes of what is ready or asked for

VARIABLES
  may,         \* storage and provider are ready
  sources,     \* what the query sources want
  status,
  data,        \* whether there is a result for a query, and it is fresh
  marked,      \* queries whose entry has _t
  fetches,     \* calls of _fetchMatchResult under way
  matching,    \* the entry of _matchPromises
  queue,       \* the entry of _matchQueues
  wanted,      \* history: queries that match was called with and that are not cleaned up
  failed,      \* history: those that a failed request was for, or waited behind one
  asks, events

vars == <<may, sources, status, data, marked, fetches, matching, queue, wanted, failed,
          asks, events>>

Fetch == [id : Nat \ {0}, queries : SUBSET Query]

TypeOK ==
  /\ may \in BOOLEAN /\ sources \subseteq Query
  /\ status \in {"pending", "ready"}
  /\ data \in [Query -> {"none", "fresh", "old"}]
  /\ marked \subseteq Query
  /\ fetches \subseteq Fetch
  /\ matching \in Fetch \cup {None}
  /\ queue \in [queries : SUBSET Query, after : Nat, due : BOOLEAN] \cup {None}
  /\ wanted \subseteq Query /\ failed \subseteq Query
  /\ asks \in Nat /\ events \in Nat

Init ==
  /\ may = FALSE /\ sources = {}
  /\ status = "pending"
  /\ data = [q \in Query |-> "none"]
  /\ marked = {}
  /\ fetches = {} /\ matching = None /\ queue = None
  /\ wanted = {} /\ failed = {}
  /\ asks = 0 /\ events = 0

Counted == events < MaxEvents /\ events' = events + 1

-----------------------------------------------------------------------------
(* Requests. *)

NewFetch(queries) ==
  [id |-> CHOOSE i \in 1..(Cardinality(fetches) + 1) : \A f \in fetches : f.id # i,
   queries |-> queries]

\* _fetchMatchResult up to its await.
FetchMatchResult(queries) ==
  /\ fetches' = fetches \cup {NewFetch(queries)}
  /\ matching' = NewFetch(queries)

QueuedItems ==
  (IF matching = None THEN {} ELSE matching.queries)
    \cup (IF queue = None THEN {} ELSE queue.queries)

Filtered_Cached(queries, state) == {q \in queries \ QueuedItems : state[q] = "none"}
Filtered(queries, state) == {q \in queries \ QueuedItems : state[q] # "fresh"}

Extended_Replaced(todo) == [queue EXCEPT !.queries = todo]
Extended(todo) == [queue EXCEPT !.queries = @ \cup todo]

\* The request before the queue failed: nothing will start it.
Dead == queue # None /\ queue.after = 0 /\ ~queue.due

\* _matchSource with data state.
MatchSource(queries, ignoreCache, state) ==
  LET todo == IF ignoreCache THEN queries ELSE Filtered(queries, state) IN
  IF todo = {} THEN UNCHANGED <<fetches, matching, queue, failed>>
  ELSE IF matching = None THEN FetchMatchResult(todo) /\ UNCHANGED <<queue, failed>>
  ELSE /\ queue' = IF queue = None
                   THEN [queries |-> todo, after |-> matching.id, due |-> FALSE]
                   ELSE Extended(todo)
       /\ failed' = IF Dead THEN failed \cup todo ELSE failed
       /\ UNCHANGED <<fetches, matching>>

\* _cleanUp, if it is not throttled: entries nobody asks for are marked, and a marked
\* one may be old enough to go.
CleanUp ==
  \/ UNCHANGED <<data, marked>>
  \/ \E gone \in SUBSET (marked \ sources) :
       /\ data' = [q \in Query |-> IF q \in gone THEN "none" ELSE data[q]]
       /\ marked' = {q \in Query \ (sources \cup gone) : data[q] # "none"}

\* What is wanted and was not cleaned up.
StillWanted == wanted \ {q \in Query : data[q] # "none" /\ data'[q] = "none"}

-----------------------------------------------------------------------------
(* The module. *)

ShouldInit  == status = "pending" /\ may
ShouldReset == status = "ready" /\ ~may
Settled     == ~(ShouldInit \/ ShouldReset)

Initialize ==
  /\ ShouldInit
  /\ status' = "ready"
  /\ CleanUp
  /\ wanted' = StillWanted
  /\ UNCHANGED <<may, sources, fetches, matching, queue, failed, asks, events>>

\* Requests and the queue go on.
Reset ==
  /\ ShouldReset
  /\ status' = "pending"
  /\ data' = [q \in Query |-> "none"]
  /\ marked' = {}
  /\ wanted' = {}
  /\ UNCHANGED <<may, sources, fetches, matching, queue, failed, asks, events>>

Ask == Settled /\ asks < MaxAsks /\ asks' = asks + 1

TriggerMatch ==
  /\ Ask /\ status = "ready"
  /\ CleanUp
  /\ wanted' = StillWanted \cup sources
  /\ MatchSource(sources, FALSE, data')
  /\ UNCHANGED <<may, sources, status, events>>

\* match, of the search for one conversation or contact.
Match(q, ignoreCache) ==
  /\ Ask
  /\ wanted' = wanted \cup {q}
  /\ MatchSource({q}, ignoreCache, data)
  /\ UNCHANGED <<may, sources, status, data, marked, events>>

Answer(f) ==
  /\ Settled
  /\ fetches' = fetches \ {f}
  /\ matching' = None
  /\ data' = [q \in Query |-> IF q \in f.queries THEN "fresh" ELSE data[q]]
  /\ queue' = IF queue # None /\ queue.after = f.id
              THEN [queue EXCEPT !.after = 0, !.due = TRUE] ELSE queue
  /\ UNCHANGED <<may, sources, status, marked, wanted, failed, asks, events>>

\* The continuation of the queue, after what the listeners of matchSuccess did.
StartQueue ==
  /\ queue # None /\ queue.due
  /\ FetchMatchResult(queue.queries)
  /\ queue' = None
  /\ UNCHANGED <<may, sources, status, data, marked, wanted, failed, asks, events>>

\* The queue behind a request that fails stays in _matchQueues and is never asked.
Fail(f) ==
  /\ Settled /\ Counted
  /\ fetches' = fetches \ {f}
  /\ matching' = None
  /\ queue' = IF queue # None /\ queue.after = f.id THEN [queue EXCEPT !.after = 0] ELSE queue
  /\ failed' = failed \cup f.queries
                 \cup (IF queue # None /\ queue.after = f.id THEN queue.queries ELSE {})
  /\ UNCHANGED <<may, sources, status, data, marked, wanted, asks>>

\* noMatchTtl is over for a result.
Expire(q) ==
  /\ Settled /\ Counted /\ data[q] = "fresh"
  /\ data' = [data EXCEPT ![q] = "old"]
  /\ UNCHANGED <<may, sources, status, marked, fetches, matching, queue, wanted, failed, asks>>

\* The query sources change, or what the module waits for.
Change ==
  /\ Settled /\ Counted
  /\ \/ may' = ~may /\ sources' = sources
     \/ sources' \in SUBSET Query /\ may' = may
  /\ UNCHANGED <<status, data, marked, fetches, matching, queue, wanted, failed, asks>>

Next ==
  \/ Initialize \/ Reset \/ TriggerMatch \/ StartQueue \/ Change
  \/ \E q \in Query : Expire(q) \/ \E ignoreCache \in BOOLEAN : Match(q, ignoreCache)
  \/ \E f \in fetches : Answer(f) \/ Fail(f)

Spec == Init /\ [][Next]_vars

-----------------------------------------------------------------------------
(* No query is forgotten: what match was called with has a result, or is asked, or      *)
(* waits in a queue that a request under way will start, unless a request for it, or    *)
(* one before it, failed.                                                               *)
NoneForgotten ==
  LET asked == UNION {f.queries : f \in fetches}
      next  == IF queue # None /\ (queue.due \/ \E f \in fetches : f.id = queue.after)
               THEN queue.queries ELSE {}
  IN  wanted \subseteq {q \in Query : data[q] # "none"} \cup asked \cup next \cup failed
=============================================================================
