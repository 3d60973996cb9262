------------------------------ MODULE Fetcher ------------------------------
(***************************************************************************)
(* A data fetcher module (lib/DataFetcher over lib/Pollable) in the tabs   *)
(* of one browser.  The data and its timestamp live in the Storage of the  *)
(* user, which the tabs share; only an active tab fetches, the others wait *)
(* for what it stores.  What a fetch returned is named by the user whose   *)
(* session made the request.                                               *)
(*                                                                         *)
(* One action is one event loop turn of one tab.  The store listener runs  *)
(* in the same turn as the change it reacts to: no other action of a tab   *)
(* happens before its listener has nothing left to do (Settled).           *)
(***************************************************************************)
EXTENDS Integers, FiniteSets

CONSTANTS
  Tab, User, Nobody, Null,
  CleanOnReset, \* an option of the fetcher
  MaxLogins,    \* bound: logins, all tabs together
  MaxEvents     \* bound: all other bounded events, see Kind

ASSUME FetcherAssumption ==
  /\ CleanOnReset \in BOOLEAN
  /\ Nobody \notin User /\ Null \notin User

VARIABLES
  polling,    \* another option; it never changes
  cell,       \* storage: data and timestamp of each user
  copy,       \* what the Storage of a tab holds of them
  owner,      \* auth.ownerId of a tab, Nobody when not logged in
  freshLogin, \* auth.isFreshLogin
  deps,       \* subscription, tabManager and readyCheckFn are ready
  active,     \* tabs whose tabManager.active holds
  status,     \* state.status
  promise,    \* the fetch _promise stands for, 0 if null
  flights,    \* requests under way
  timer,      \* what _timeoutId waits for
  count       \* how often the bounded events happened

envVars == <<owner, freshLogin, deps, active>>
vars == <<polling, cell, copy, owner, freshLogin, deps, active, status, promise,
          flights, timer, count>>

\* What happens a bounded number of times: logins; logouts and page reloads;
\* resets of the modules the fetcher depends on; requests that fail while their
\* user is logged in; the ttl running out; changes of the active tab; calls of
\* fetchData by other modules.
Kind   == {"login", "logout", "flip", "error", "expiry", "switch", "refresh"}
Stamp  == {"none", "fresh", "stale"}     \* timestamp: null, within ttl, older
Item   == [data : User \cup {Null}, stamp : Stamp]
\* init: _init awaits the request and retries when it fails.
Flight == [id : Nat, owner : User \cup {Nobody}, init : BOOLEAN]
Empty  == [data |-> Null, stamp |-> "none"]

TypeOK ==
  /\ polling \in BOOLEAN
  /\ cell \in [User -> Item]
  /\ copy \in [Tab -> Item]
  /\ owner \in [Tab -> User \cup {Nobody}]
  /\ freshLogin \in [Tab -> BOOLEAN]
  /\ deps \in [Tab -> BOOLEAN]
  /\ active \subseteq Tab
  /\ status \in [Tab -> {"pending", "initializing", "ready"}]
  /\ promise \in [Tab -> Nat]
  /\ flights \in [Tab -> SUBSET Flight]
  /\ timer \in [Tab -> {"off", "poll", "retry"}]
  /\ count \in [Kind -> Nat]

Init ==
  /\ polling \in BOOLEAN
  /\ cell = [u \in User |-> Empty]
  /\ copy = [t \in Tab |-> Empty]
  /\ owner = [t \in Tab |-> Nobody]
  /\ freshLogin = [t \in Tab |-> FALSE]
  /\ deps = [t \in Tab |-> FALSE]
  /\ active \in {{t} : t \in Tab}
  /\ status = [t \in Tab |-> "pending"]
  /\ promise = [t \in Tab |-> 0]
  /\ flights = [t \in Tab |-> {}]
  /\ timer = [t \in Tab |-> "off"]
  /\ count = [k \in Kind |-> 0]

Counted(k) ==
  /\ IF k = "login"
     THEN count[k] < MaxLogins
     ELSE count["logout"] + count["flip"] + count["error"] + count["expiry"]
            + count["switch"] + count["refresh"] < MaxEvents
  /\ count' = [count EXCEPT ![k] = @ + 1]

-----------------------------------------------------------------------------
(* The store listener. *)

CanRun(t)      == owner[t] # Nobody /\ deps[t]
ShouldInit(t)  == CanRun(t) /\ status[t] = "pending"
IsDataReady_Stamp(t) == status[t] = "initializing" /\ copy[t].stamp # "none"
IsDataReady(t) == status[t] = "initializing" /\ copy[t].data # Null
ShouldReset(t) == ~CanRun(t) /\ status[t] = "ready"
Settled(t)     == ~ShouldInit(t) /\ ~IsDataReady(t) /\ ~ShouldReset(t)

ShouldFetch(t) == t \in active /\ (freshLogin[t] \/ copy[t].stamp # "fresh")

\* fetchData: share the request _promise stands for, or start one.
IdsInUse(t) == {promise[t]} \cup {f.id : f \in flights[t]}
FreeId(t) == CHOOSE i \in 1..(Cardinality(flights[t]) + 2) : i \notin IdsInUse(t)

FetchData(t, init) ==
  IF promise[t] # 0
  THEN /\ flights' = [flights EXCEPT ![t] =
            {IF f.id = promise[t] THEN [f EXCEPT !.init = @ \/ init] ELSE f : f \in @}]
       /\ UNCHANGED promise
  ELSE /\ promise' = [promise EXCEPT ![t] = FreeId(t)]
       /\ flights' = [flights EXCEPT ![t] =
            @ \cup {[id |-> FreeId(t), owner |-> owner[t], init |-> init]}]

\* init, then _init.
Initialize(t) ==
  /\ ShouldInit(t)
  /\ status' = [status EXCEPT ![t] = "initializing"]
  /\ IF ShouldFetch(t)
     THEN FetchData(t, TRUE) /\ UNCHANGED timer
     ELSE /\ timer' = [timer EXCEPT ![t] = IF polling THEN "poll" ELSE "retry"]
          /\ UNCHANGED <<promise, flights>>
  /\ UNCHANGED <<cell, copy, envVars, count>>

\* The data is there, wherever it comes from.
TurnReady(t) ==
  /\ IsDataReady(t)
  /\ status' = [status EXCEPT ![t] = "ready"]
  /\ UNCHANGED <<cell, copy, envVars, promise, flights, timer, count>>

\* resetSuccess: the data reducer drops the data if cleanOnReset says so, and
\* Storage saves that while it is ready.  The timestamp reducer keeps the stamp.
Forget_Resetting(t) ==
  /\ timer' = [timer EXCEPT ![t] = "off"]
  /\ promise' = [promise EXCEPT ![t] = 0]
  /\ status' = [status EXCEPT ![t] = "resetting"]
Forget(t) ==
  /\ timer' = [timer EXCEPT ![t] = "off"]
  /\ promise' = [promise EXCEPT ![t] = 0]
  /\ status' = [status EXCEPT ![t] = "pending"]

Cleaned(u) == IF CleanOnReset THEN [cell EXCEPT ![u].data = Null] ELSE cell

Reset(t) ==
  /\ ShouldReset(t) /\ owner[t] # Nobody
  /\ Forget(t)
  /\ cell' = Cleaned(owner[t])
  /\ copy' = IF CleanOnReset THEN [copy EXCEPT ![t].data = Null] ELSE copy
  /\ UNCHANGED <<envVars, flights, count>>

-----------------------------------------------------------------------------
(* Requests. *)

\* Does the result still belong to the user who is logged in?
SameOwner_Unchecked(t, f) == owner[t] # Nobody
SameOwner(t, f) == owner[t] = f.owner

\* A request cannot succeed without a user.
Succeed(t) == Settled(t) /\ \E f \in flights[t] :
  /\ f.owner # Nobody
  /\ flights' = [flights EXCEPT ![t] = @ \ {f}]
  /\ IF SameOwner(t, f)
     THEN /\ copy' = [copy EXCEPT ![t] = [data |-> f.owner, stamp |-> "fresh"]]
          /\ cell' = [cell EXCEPT ![owner[t]] = [data |-> f.owner, stamp |-> "fresh"]]
          /\ timer' = IF polling THEN [timer EXCEPT ![t] = "poll"] ELSE timer
          /\ promise' = [promise EXCEPT ![t] = 0]
     ELSE UNCHANGED <<copy, cell, timer, promise>>
  /\ UNCHANGED <<envVars, status, count>>

\* _fetchData polls or retries; if _init awaited the request it then retries.
AfterError(f) == IF polling /\ ~f.init THEN "poll" ELSE "retry"

Fail(t) == Settled(t) /\ \E f \in flights[t] :
  /\ IF f.owner = owner[t] /\ f.owner # Nobody
     THEN Counted("error")
     ELSE UNCHANGED count
  /\ flights' = [flights EXCEPT ![t] = @ \ {f}]
  /\ IF SameOwner(t, f)
     THEN /\ promise' = [promise EXCEPT ![t] = 0]
          /\ timer' = [timer EXCEPT ![t] = AfterError(f)]
     ELSE UNCHANGED <<promise, timer>>
  /\ UNCHANGED <<cell, copy, envVars, status>>

\* Another module asks for new data.
Refresh(t) ==
  /\ Settled(t) /\ status[t] = "ready"
  /\ Counted("refresh")
  /\ FetchData(t, FALSE)
  /\ UNCHANGED <<cell, copy, envVars, status, timer>>

-----------------------------------------------------------------------------
(* Pollable: the timeouts of _startPolling and _retry. *)

\* Not this tab's turn: wait on.
PollsOn(t) == t \notin active \/ copy[t].stamp = "fresh"

Poll(t) ==
  /\ Settled(t) /\ timer[t] = "poll"
  /\ timer' = [timer EXCEPT ![t] = IF PollsOn(t) THEN "poll" ELSE "off"]
  /\ IF t \in active /\ copy[t].stamp # "fresh"
     THEN FetchData(t, FALSE)
     ELSE UNCHANGED <<promise, flights>>
  /\ UNCHANGED <<cell, copy, envVars, status, count>>

KeepsTrying_Never(t) == FALSE
KeepsTrying(t) == t \notin active

Retry(t) ==
  /\ Settled(t) /\ timer[t] = "retry"
  /\ IF copy[t].stamp # "fresh" /\ KeepsTrying(t)
     THEN UNCHANGED timer
     ELSE timer' = [timer EXCEPT ![t] = "off"]
  /\ IF copy[t].stamp # "fresh" /\ t \in active
     THEN FetchData(t, FALSE)
     ELSE UNCHANGED <<promise, flights>>
  /\ UNCHANGED <<cell, copy, envVars, status, count>>

-----------------------------------------------------------------------------
(* The modules around it. *)

\* Auth and Storage: a user logs in, here (fresh) or in another tab.
Login(t, u) ==
  /\ Settled(t) /\ owner[t] = Nobody
  /\ Counted("login")
  /\ owner' = [owner EXCEPT ![t] = u]
  /\ \E b \in BOOLEAN : freshLogin' = [freshLogin EXCEPT ![t] = b]
  /\ copy' = [copy EXCEPT ![t] = cell[u]]
  /\ UNCHANGED <<cell, deps, active, status, promise, flights, timer>>

\* Logged out: the listener resets a ready fetcher while Storage is resetting
\* and still saves; a fetcher that is not ready keeps all it has.
Logout(t) ==
  /\ Settled(t) /\ owner[t] # Nobody
  /\ Counted("logout")
  /\ owner' = [owner EXCEPT ![t] = Nobody]
  /\ deps' = [deps EXCEPT ![t] = FALSE]
  /\ copy' = [copy EXCEPT ![t] = Empty]
  /\ IF status[t] = "ready"
     THEN Forget(t) /\ cell' = Cleaned(owner[t])
     ELSE UNCHANGED <<timer, promise, status, cell>>
  /\ UNCHANGED <<freshLogin, active, flights>>

Reload(t) ==
  /\ Counted("logout")
  /\ owner' = [owner EXCEPT ![t] = Nobody]
  /\ deps' = [deps EXCEPT ![t] = FALSE]
  /\ copy' = [copy EXCEPT ![t] = Empty]
  /\ flights' = [flights EXCEPT ![t] = {}]
  /\ Forget(t)
  /\ UNCHANGED <<cell, freshLogin, active>>

DepsReady(t) ==
  /\ Settled(t) /\ owner[t] # Nobody /\ ~deps[t]
  /\ deps' = [deps EXCEPT ![t] = TRUE]
  /\ UNCHANGED <<cell, copy, owner, freshLogin, active, status, promise, flights,
                 timer, count>>

DepsReset(t) ==
  /\ Settled(t) /\ deps[t]
  /\ Counted("flip")
  /\ deps' = [deps EXCEPT ![t] = FALSE]
  /\ UNCHANGED <<cell, copy, owner, freshLogin, active, status, promise, flights, timer>>

\* Storage follows the writes of another tab (SyncStorage), one key at a time.
SyncData(t) ==
  /\ Settled(t) /\ owner[t] # Nobody
  /\ copy' = [copy EXCEPT ![t].data = cell[owner[t]].data]
  /\ UNCHANGED <<cell, envVars, status, promise, flights, timer, count>>

SyncStamp(t) ==
  /\ Settled(t) /\ owner[t] # Nobody
  /\ copy' = [copy EXCEPT ![t].stamp = cell[owner[t]].stamp]
  /\ UNCHANGED <<cell, envVars, status, promise, flights, timer, count>>

\* The active tab changes; for a moment several may take themselves for it.
Switch ==
  /\ Counted("switch")
  /\ active' \in (SUBSET Tab) \ {{}, active}
  /\ UNCHANGED <<cell, copy, owner, freshLogin, deps, status, promise, flights, timer>>

Aged(item) == IF item.stamp = "fresh" THEN [item EXCEPT !.stamp = "stale"] ELSE item

Expire ==
  /\ Counted("expiry")
  /\ cell' = [u \in User |-> Aged(cell[u])]
  /\ copy' = [t \in Tab |-> Aged(copy[t])]
  /\ UNCHANGED <<envVars, status, promise, flights, timer>>

Internal(t) ==
  \/ Initialize(t) \/ TurnReady(t) \/ Reset(t) \/ Succeed(t) \/ Fail(t)
  \/ Poll(t) \/ Retry(t) \/ SyncData(t) \/ SyncStamp(t) \/ DepsReady(t)

Next ==
  /\ UNCHANGED polling
  /\ \/ \E t \in Tab :
          \/ Internal(t) \/ (\E u \in User : Login(t, u)) \/ Logout(t) \/ Reload(t)
          \/ DepsReset(t) \/ Refresh(t)
     \/ Switch \/ Expire

Spec == Init /\ [][Next]_vars

\* Listeners run, requests end, timeouts fire and storage events arrive.
FairSpec ==
  /\ Spec
  /\ \A t \in Tab :
       /\ WF_vars(UNCHANGED polling /\ (Initialize(t) \/ TurnReady(t) \/ Reset(t)))
       /\ WF_vars(UNCHANGED polling /\ (Succeed(t) \/ Fail(t)))
       /\ WF_vars(UNCHANGED polling /\ (Poll(t) \/ Retry(t)))
       /\ WF_vars(UNCHANGED polling /\ SyncData(t))
       /\ WF_vars(UNCHANGED polling /\ SyncStamp(t))
       /\ WF_vars(UNCHANGED polling /\ DepsReady(t))

-----------------------------------------------------------------------------
(* Properties. *)

\* What a user's request returned is stored and shown for that user only,
\* though it may return after others logged in (DataFetcher:246 compares the
\* ownerId of before the request with the current one).
RightOwner ==
  /\ \A u \in User : cell[u].data \in {u, Null}
  /\ \A t \in Tab : owner[t] # Nobody => copy[t].data \in {owner[t], Null}

\* "only turns ready when data has been fetched (could be from other tabs)"
\* (DataFetcher:176-177): and a ready fetcher keeps its data, whatever other tabs
\* do.  (Not with cleanOnReset: another tab that resets drops the shared data.)
ReadyHasData ==
  \A t \in Tab : status[t] = "ready" /\ CanRun(t) => copy[t].data # Null

\* One user stays logged in, in all tabs, the other modules stay ready and no
\* session ended before: then every tab's fetcher turns ready, though requests
\* fail and the tab that should fetch stops being the active one (Pollable:62
\* "continue retry checks in case tab becomes main tab").
OneSession ==
  /\ count["logout"] = 0
  /\ \E u \in User : \A t \in Tab : CanRun(t) /\ owner[t] = u

EventuallyReady == (<>[]OneSession) => <>[]\A t \in Tab : status[t] = "ready"

\* A fetcher with the polling option polls: once it is ready there is always a
\* timeout or a request that leads to the next fetch.  The test "_startPolling
\* should be called once when throws error" (DataFetcher/index.test.js:224) asserts that
\* an error starts the polling and no retry.
PollingGoesOn ==
  \A t \in Tab : polling /\ CanRun(t) /\ status[t] = "ready" /\ Settled(t)
                 => timer[t] # "off" \/ promise[t] # 0
=============================================================================
