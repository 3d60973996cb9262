-------------------------------- MODULE CallLog --------------------------------
(***************************************************************************)
(* The copy of the user's call log (modules/CallLog).  A sync asks for what*)
(* changed since a sync token (iSync), and when there is no token, or that *)
(* fails, for everything (fSync): the newest records, and in a second      *)
(* request the others.  There is one sync at a time, _promise, and at most *)
(* one more queued behind it.  Notifications of ended calls, polling,      *)
(* retries and other modules start syncs.                                  *)
(*                                                                         *)
(* An action is one event loop turn; a store listener that has something   *)
(* to do runs before anything else happens (Settled).  The server numbers  *)
(* the changes of all records; a token is the number of the first change   *)
(* it does not cover, 0 if there is none.                                  *)
(***************************************************************************)
EXTENDS Integers, FiniteSets

CONSTANTS
  Owner, NoOne, Call,
  Old,         \* calls that have a record to begin with
  None,
  RecordCount, \* RECORD_COUNT
  Polling,     \* an option
  MaxLogins,   \* bound: logins
  MaxChanges,  \* bound: changes of the records
  MaxEvents    \* bound: requests that fail, syncs other modules ask for, reloads

VARIABLES
  cached,     \* the options disableCache and Storage: the data survive a reload
  mayRead,    \* permissions.ReadCallLog; like cached, it never changes
  clock,      \* number of changes
  log,        \* the last change of a record of a user, 0 if there is none yet
  owner,      \* auth.ownerId; storage and subscription are ready with it
  logins, events,
  status,
  data,       \* data, token, and whose they are
  kept,       \* what Storage has for a user
  runs,       \* runs of _sync
  promise,    \* the run _promise stands for, or 0
  queue,      \* _queueSync
  timer,      \* _timeoutId is set
  unheard,    \* subscription.message is one of an ended call, and not _lastMessage
  naps,       \* handlers in sleep(SYNC_DELAY), by the user they remember
  crossed     \* history: a run of an earlier login ended, or began to ask, in this one

world == <<cached, mayRead, clock, log>>
vars == <<world, owner, logins, events, status, data, kept, runs, promise, queue, timer,
          unheard, naps, crossed>>

Records == [Call -> Nat]
Nothing == [c \in Call |-> 0]
Data    == [of : Owner \cup {NoOne}, known : Records, token : Nat]
Blank   == [of |-> NoOne, known |-> Nothing, token |-> 0]
\* first: _init awaits it; left: the records the second request of an fSync is for.
Run     == [id : Nat \ {0}, of : Owner \cup {NoOne}, login : Nat, first : BOOLEAN,
            type : {"iSync", "fSync"},
            phase : {"delay", "sent", "served", "more", "complete"},
            token : Nat, got : Records, left : SUBSET Call, till : Nat]

TypeOK ==
  /\ cached \in BOOLEAN /\ mayRead \in BOOLEAN
  /\ clock \in Nat /\ log \in [Owner -> Records]
  /\ owner \in Owner \cup {NoOne}
  /\ logins \in Nat /\ events \in Nat
  /\ status \in {"pending", "initializing", "ready"}
  /\ data \in Data /\ kept \in [Owner -> Data]
  /\ runs \subseteq Run
  /\ promise \in Nat
  /\ queue \in [after : Nat, type : {"iSync", "fSync"}, first : BOOLEAN] \cup {None}
  /\ timer \in BOOLEAN /\ unheard \in BOOLEAN
  /\ naps \subseteq Owner
  /\ crossed \in BOOLEAN

Init ==
  /\ cached \in BOOLEAN /\ mayRead \in BOOLEAN
  /\ clock = 1 /\ log = [o \in Owner |-> [c \in Call |-> IF c \in Old THEN 1 ELSE 0]]
  /\ owner = NoOne /\ logins = 0 /\ events = 0
  /\ status = "pending"
  /\ data = Blank /\ kept = [o \in Owner |-> Blank]
  /\ runs = {} /\ promise = 0 /\ queue = None
  /\ timer = FALSE /\ unheard = FALSE /\ naps = {}
  /\ crossed = FALSE

Counted == events < MaxEvents /\ events' = events + 1

-----------------------------------------------------------------------------
(* Syncs. *)

NewId == CHOOSE i \in 1..(Cardinality(runs) + 1) : \A r \in runs : r.id # i

\* A run that has sent its first request; _sync remembers ownerId then.
Sent(id, type, first) ==
  [id |-> id, of |-> owner, login |-> logins, first |-> first, type |-> type,
   phase |-> "sent", token |-> IF type = "iSync" THEN data.token ELSE 0,
   got |-> Nothing, left |-> {}, till |-> 0]

SyncType == IF data.token # 0 THEN "iSync" ELSE "fSync"

Free_Always == TRUE
Free == promise = 0

\* sync.
Sync(first) ==
  IF Free
  THEN /\ runs' = runs \cup {Sent(NewId, SyncType, first)}
       /\ promise' = NewId
       /\ queue' = queue
  ELSE /\ queue' = IF queue = None
                   THEN [after |-> promise, type |-> SyncType, first |-> first]
                   ELSE [queue EXCEPT !.first = @ \/ first]
       /\ UNCHANGED <<runs, promise>>

\* The run r is over.  The sync queued behind it begins, after a delay.
Over(r, ready) ==
  LET follows == queue # None /\ queue.after = r.id IN
  /\ runs' = (runs \ {r}) \cup
       IF follows
       THEN {[Sent(r.id, queue.type, queue.first) EXCEPT !.phase = "delay"]} ELSE {}
  /\ promise' = IF follows THEN r.id ELSE 0
  /\ queue' = IF follows THEN None ELSE queue
  /\ timer' = (timer \/ ready)
  /\ status' = IF r.first THEN "ready" ELSE status
  /\ crossed' = (crossed \/ r.login # logins)

Becomes(r, s) ==
  /\ runs' = (runs \ {r}) \cup {s}
  /\ UNCHANGED <<promise, queue, timer, status>>

-----------------------------------------------------------------------------
(* The store listener. *)

ShouldInit  == owner # NoOne /\ status = "pending"
ShouldReset == owner = NoOne /\ status = "ready"
ShouldHear  == owner # NoOne /\ status = "ready" /\ unheard
Settled     == ~(ShouldInit \/ ShouldReset \/ ShouldHear)

\* The reducers of data, token and timestamp; Storage saves what they return.
Holds(d) ==
  /\ data' = d
  /\ kept' = IF cached /\ owner # NoOne THEN [kept EXCEPT ![owner] = d] ELSE kept

\* The token may be too old.
Initialize ==
  /\ ShouldInit
  /\ \/ Holds(data)
     \/ data.token # 0 /\ Holds([data EXCEPT !.token = 0])
  /\ IF mayRead
     THEN /\ status' = "initializing"
          /\ IF Free
             THEN LET type == IF data'.token # 0 THEN "iSync" ELSE "fSync" IN
                  /\ runs' = runs \cup {[Sent(NewId, type, TRUE) EXCEPT !.token = data'.token]}
                  /\ promise' = NewId
                  /\ queue' = queue
             ELSE Sync(TRUE)
     ELSE /\ status' = "ready"
          /\ UNCHANGED <<runs, promise, queue>>
  /\ UNCHANGED <<world, owner, logins, events, timer, unheard, naps, crossed>>

\* _queueSync stays.
Reset ==
  /\ ShouldReset
  /\ status' = "pending"
  /\ Holds(Blank)
  /\ timer' = FALSE
  /\ promise' = 0
  /\ UNCHANGED <<world, owner, logins, events, runs, queue, unheard, naps, crossed>>

\* _subscriptionHandler, up to its sleep and after it.
Hear ==
  /\ ShouldHear
  /\ unheard' = FALSE
  /\ naps' = naps \cup {owner}
  /\ UNCHANGED <<world, owner, logins, events, status, data, kept, runs, promise, queue,
                 timer, crossed>>

Wake(o) ==
  /\ Settled /\ o \in naps
  /\ naps' = naps \ {o}
  /\ IF o = owner THEN Sync(FALSE) ELSE UNCHANGED <<runs, promise, queue>>
  /\ UNCHANGED <<world, owner, logins, events, status, data, kept, timer, unheard, crossed>>

-----------------------------------------------------------------------------
(* The server. *)

\* A call of user o ends, or its record changes; a notification may say so.
Change(o, c) ==
  /\ Settled /\ clock < MaxChanges
  /\ clock' = clock + 1
  /\ log' = [log EXCEPT ![o][c] = clock + 1]
  /\ unheard' \in {unheard, unheard \/ o = owner}
  /\ UNCHANGED <<cached, mayRead, owner, logins, events, status, data, kept, runs, promise,
                 queue, timer, naps, crossed>>

Exists(o) == {c \in Call : log[o][c] # 0}

Since_Next(c, r) == log[r.of][c] > r.token
\* The changes an iSync with the token of run r is answered.
Since(c, r) == log[r.of][c] >= r.token

\* Nobody is logged in, or the queued iSync has no token left.
Refused(r) == r.of = NoOne \/ (r.type = "iSync" /\ r.token = 0)

\* The answer of callLogSync: of an fSync no more than RecordCount records.
Serve(r) ==
  /\ Settled /\ r.phase = "sent" /\ ~Refused(r)
  /\ \E page \in SUBSET Exists(r.of) :
       /\ IF r.type = "iSync" THEN page = {c \in Exists(r.of) : Since(c, r)}
          ELSE \/ page = Exists(r.of) /\ Cardinality(page) <= RecordCount
               \/ page # Exists(r.of) /\ Cardinality(page) = RecordCount
       /\ Becomes(r, [r EXCEPT !.phase = "served", !.till = clock + 1,
            !.got = [c \in Call |-> IF c \in page THEN log[r.of][c] ELSE 0],
            !.left = IF r.type = "fSync" THEN Exists(r.of) \ page ELSE {}])
  /\ UNCHANGED <<world, owner, logins, events, data, kept, unheard, naps, crossed>>

\* The answer of callLog, for what came before the records of the first answer.
ServeMore(r) ==
  /\ Settled /\ r.phase = "more"
  /\ Becomes(r, [r EXCEPT !.phase = "complete",
       !.got = [c \in Call |-> IF c \in r.left THEN log[r.of][c] ELSE @[c]]])
  /\ UNCHANGED <<world, owner, logins, events, data, kept, unheard, naps, crossed>>

-----------------------------------------------------------------------------
(* Answers. *)

\* The first answer of an fSync is full.
Supplement(r) ==
  /\ Settled /\ r.phase = "served" /\ r.type = "fSync" /\ r.of = owner
  /\ Cardinality({c \in Call : r.got[c] # 0}) >= RecordCount
  /\ Becomes(r, [r EXCEPT !.phase = "more"])
  /\ UNCHANGED <<world, owner, logins, events, data, kept, unheard, naps, crossed>>

Answered(r) ==
  \/ r.phase = "complete"
  \/ r.phase = "served" /\ ~(/\ r.type = "fSync" /\ r.of = owner
                             /\ Cardinality({c \in Call : r.got[c] # 0}) >= RecordCount)

\* getDataReducer and getTokenReducer at iSyncSuccess and fSyncSuccess.
Merged(r) ==
  [of |-> owner, token |-> r.till,
   known |-> [c \in Call |-> IF r.got[c] # 0 THEN r.got[c] ELSE data.known[c]]]

SameOwner_Unchecked(r) == owner # NoOne
SameOwner(r) == r.of = owner

Answer(r) ==
  /\ Settled /\ Answered(r)
  /\ IF SameOwner(r) THEN Holds(Merged(r)) ELSE UNCHANGED <<data, kept>>
  /\ Over(r, Polling)
  /\ UNCHANGED <<world, owner, logins, events, unheard, naps>>

\* A request fails.  An fSync follows an iSync; after an fSync there is a retry.
Fail(r) ==
  /\ Settled /\ r.phase # "delay"
  /\ IF Refused(r) THEN events' = events ELSE Counted
  /\ IF r.type = "iSync" /\ r.of = owner
     THEN /\ Becomes(r, [Sent(r.id, "fSync", r.first) EXCEPT !.login = r.login])
          /\ crossed' = crossed
     ELSE Over(r, Polling \/ r.of = owner)
  /\ UNCHANGED <<world, owner, logins, data, kept, unheard, naps>>

\* sleep(300) of a queued sync is over.
Begin(r) ==
  /\ Settled /\ r.phase = "delay"
  /\ Becomes(r, Sent(r.id, r.type, r.first))
  /\ crossed' = (crossed \/ r.login # logins)
  /\ UNCHANGED <<world, owner, logins, events, data, kept, unheard, naps>>

-----------------------------------------------------------------------------
(* What else starts a sync, and logins. *)

\* The timeout of _startPolling or _retry.  (Without a login the sync fails at once and
\* sets the timeout again.)
TimerFires ==
  /\ Settled /\ timer /\ owner # NoOne
  /\ timer' = FALSE
  /\ Sync(FALSE)
  /\ UNCHANGED <<world, owner, logins, events, status, data, kept, unheard, naps, crossed>>

\* Another module calls sync or fetchData.
Ask ==
  /\ Settled /\ status = "ready" /\ Counted
  /\ Sync(FALSE)
  /\ UNCHANGED <<world, owner, logins, status, data, kept, timer, unheard, naps, crossed>>

\* Storage reads what it has of the user.
Login(o) ==
  /\ Settled /\ owner = NoOne /\ logins < MaxLogins
  /\ owner' = o
  /\ logins' = logins + 1
  /\ data' = IF cached THEN kept[o] ELSE data
  /\ UNCHANGED <<world, events, status, kept, runs, promise, queue, timer, unheard, naps,
                 crossed>>

\* Storage drops its data, and the subscription its message.
Logout ==
  /\ Settled /\ owner # NoOne
  /\ owner' = NoOne
  /\ unheard' = FALSE
  /\ data' = IF cached THEN Blank ELSE data
  /\ UNCHANGED <<world, logins, events, status, kept, runs, promise, queue, timer,
                 naps, crossed>>

\* The page is loaded anew.
Reload ==
  /\ Settled /\ owner # NoOne /\ Counted
  /\ status' = "pending"
  /\ data' = kept[owner]
  /\ runs' = {} /\ promise' = 0 /\ queue' = None /\ timer' = FALSE
  /\ unheard' = FALSE /\ naps' = {}
  /\ UNCHANGED <<world, owner, logins, kept, crossed>>

Next ==
  \/ Initialize \/ Reset \/ Hear
  \/ \E o \in Owner : Wake(o) \/ Login(o) \/ \E c \in Call : Change(o, c)
  \/ \E r \in runs : \/ Serve(r) \/ ServeMore(r) \/ Supplement(r)
                     \/ Answer(r) \/ Fail(r) \/ Begin(r)
  \/ TimerFires \/ Ask \/ Logout \/ Reload

Spec == Init /\ [][Next]_vars

-----------------------------------------------------------------------------
(* The log is that of the user, it has every change its token covers, and a login has   *)
(* one sync at a time, unless a sync of an earlier login got into this one: it may store *)
(* what changed since a token whose data are gone, and clears the _promise of another.  *)
LogComplete ==
  \/ crossed \/ ~Settled
  \/ /\ data.of \in {owner, NoOne}
     /\ owner # NoOne => \A c \in Call : log[owner][c] < data.token => data.known[c] = log[owner][c]
     /\ \A r, s \in runs : r.login = logins /\ s.login = logins => r = s
=============================================================================
