---------------------------- MODULE Subscription ----------------------------
(***************************************************************************)
(* The Subscription module: one SDK subscription object at a time, the     *)
(* event filters the other modules ask for, and the timeouts, requests and *)
(* promises that keep them registered through errors, sleep and logout.    *)
(* Auth is modelled as far as Subscription sees it.                        *)
(*                                                                         *)
(* One action is one event loop turn.  The store listener runs in the turn *)
(* of the change it reacts to: other actions wait until it is Settled.     *)
(***************************************************************************)
EXTENDS Naturals, FiniteSets

CONSTANTS
  User, Nobody, Filter,
  MaxLogins,    \* bound: logins
  MaxEvents     \* bound: all other bounded events, see Kind

ASSUME SubscriptionAssumption == Nobody \notin User

VARIABLES
  auth,           \* auth.loginStatus
  user,           \* the user it stands for
  logoutStep,     \* where Auth.logout is with the beforeLogout handlers
  status,         \* state.status
  filters,        \* state.filters
  message,        \* state.message: whose event it is
  sub,            \* the object _subscription holds, 0 if null
  objects,        \* how many objects were created
  listening,      \* the objects that get notifications, as registered
  flights,        \* registrations under way
  removing,       \* the object that _removePromise removes, 0 if none
  waiters,        \* who awaits that removal
  resetPromise,   \* _resetPromise
  registerTimer, retryTimer, sleepTimer,
  count           \* how often the bounded events happened

authVars  == <<auth, user, logoutStep>>
timers    == <<registerTimer, retryTimer, sleepTimer>>
stateVars == <<status, filters, message>>
subVars   == <<sub, objects, listening>>
waitVars  == <<removing, waiters, resetPromise>>
vars == <<authVars, stateVars, subVars, flights, waitVars, timers, count>>

\* An object and what the server registered for it.
Registration == [id : Nat, user : User \cup {Nobody}, filters : SUBSET Filter]
\* What happens a bounded number of times: logins; sessions that expire and logouts
\* that begin; registrations and renewals that fail for the user of the session;
\* sleep; logouts that another handler cancels; registrations sent while another
\* is under way.  And of the logins, how often the module was still ready: its reset had
\* been lost, and the session before left its filters and registration.
Kind == {"login", "end", "error", "sleep", "cancel", "overlap", "kept"}

TypeOK ==
  /\ auth \in {"notLoggedIn", "loggedIn", "beforeLogout", "loggingOut"}
  /\ user \in User \cup {Nobody}
  /\ logoutStep \in {"none", "handlers", "awaiting", "handled"}
  /\ status \in {"pending", "ready", "resetting"}
  /\ filters \subseteq Filter
  /\ message \in User \cup {Nobody}
  /\ sub \in Nat /\ objects \in Nat /\ removing \in Nat
  /\ listening \subseteq Registration
  /\ flights \subseteq Registration
  /\ waiters \subseteq {"sleep", "reset"}
  /\ resetPromise \in {"null", "running", "resolved"}
  /\ registerTimer \in BOOLEAN /\ retryTimer \in BOOLEAN /\ sleepTimer \in BOOLEAN
  /\ count \in [Kind -> Nat]

Init ==
  /\ auth = "notLoggedIn" /\ user = Nobody /\ logoutStep = "none"
  /\ status = "pending" /\ filters = {} /\ message = Nobody
  /\ sub = 0 /\ objects = 0 /\ removing = 0
  /\ listening = {} /\ flights = {} /\ waiters = {}
  /\ resetPromise = "null"
  /\ registerTimer = FALSE /\ retryTimer = FALSE /\ sleepTimer = FALSE
  /\ count = [k \in Kind |-> 0]

Counted(k) ==
  /\ count["end"] + count["error"] + count["sleep"] + count["cancel"] + count["overlap"] < MaxEvents
  /\ count' = [count EXCEPT ![k] = @ + 1]

StorageReady == auth # "notLoggedIn"
LoggedIn     == auth \in {"loggedIn", "beforeLogout"}    \* auth.loggedIn
Ready        == status = "ready"
Deaf(id)     == {r \in listening : r.id # id}             \* reset() of an object

-----------------------------------------------------------------------------
(* Subscribing. *)

\* _subscribe: the current object or a new one, and the timeout of _register.
Subscribe ==
  /\ registerTimer' = TRUE
  /\ IF sub = 0
     THEN objects' = objects + 1 /\ sub' = objects + 1
     ELSE UNCHANGED <<sub, objects>>

NeedsInit  == auth = "loggedIn" /\ StorageReady /\ status = "pending"
NeedsReset == (auth = "notLoggedIn" \/ ~StorageReady) /\ Ready /\ resetPromise = "null"
Settled    == ~NeedsInit /\ ~NeedsReset

Start ==
  /\ NeedsInit
  /\ status' = "ready" /\ sleepTimer' = TRUE
  /\ UNCHANGED <<authVars, filters, message, subVars, flights, waitVars,
                 registerTimer, retryTimer, count>>

\* The reducer of addFilters; unsubscribe misspells the key it reads.
WithFilter_Misspelled(f) == filters \cup {Nobody}
WithFilter(f)            == filters \cup {f}

\* subscribe: a module asks for events.
Ask(f) ==
  /\ Settled /\ Ready
  /\ f \notin filters /\ filters' = WithFilter(f)
  /\ Subscribe
  /\ UNCHANGED <<authVars, status, message, listening, flights, waitVars,
                 retryTimer, sleepTimer, count>>

\* The timeout of _register.
Register ==
  /\ Settled /\ registerTimer
  /\ registerTimer' = FALSE
  /\ IF sub # 0
     THEN /\ flights' = flights \cup {[id |-> sub, user |-> user, filters |-> filters]}
          /\ IF flights # {} THEN Counted("overlap") ELSE UNCHANGED count
     ELSE UNCHANGED <<flights, count>>
  /\ UNCHANGED <<authVars, stateVars, subVars, waitVars, retryTimer, sleepTimer>>

\* The request of a register call ends.  An object that was reset stays silent: so we take it
\* of the SDK, which src/ does not hold; the listener of subscribeSuccess does not check it.
Registered ==
  /\ Settled
  /\ \E r \in flights :
       /\ r.user # Nobody
       /\ flights' = flights \ {r}
       /\ listening' = IF r.id = sub THEN Deaf(sub) \cup {r} ELSE listening
  /\ UNCHANGED <<authVars, stateVars, sub, objects, waitVars, timers, count>>

\* An error of the session's user is counted, others come on their own.
CountedFor(u) ==
  IF u = user /\ u # Nobody THEN Counted("error") ELSE UNCHANGED count

RetryLater == retryTimer' = (retryTimer \/ (auth = "loggedIn" /\ StorageReady))

SubscribeError ==
  /\ Settled
  /\ \E r \in flights :
       /\ CountedFor(r.user)
       /\ flights' = flights \ {r}
       /\ listening' = Deaf(r.id)
  /\ RetryLater
  /\ UNCHANGED <<authVars, stateVars, sub, objects, waitVars, registerTimer, sleepTimer>>

Dropped_NotReset == sub' = 0 /\ UNCHANGED listening
Dropped          == sub' = 0 /\ listening' = Deaf(sub)

\* The answer to a register call or the object's own renewal: whichever object
\* it is for, the current one is dropped.
RenewError ==
  /\ Settled
  /\ \/ \E r \in flights : CountedFor(r.user) /\ flights' = flights \ {r}
     \/ \E r \in listening : CountedFor(r.user) /\ UNCHANGED flights
  /\ IF sub # 0 THEN Dropped ELSE UNCHANGED <<sub, listening>>
  /\ RetryLater
  /\ UNCHANGED <<authVars, stateVars, objects, waitVars, registerTimer, sleepTimer>>

Retry ==
  /\ Settled /\ retryTimer
  /\ retryTimer' = FALSE
  /\ IF Ready THEN Subscribe ELSE UNCHANGED <<registerTimer, sub, objects>>
  /\ UNCHANGED <<authVars, stateVars, listening, flights, waitVars, sleepTimer, count>>

Notification ==
  /\ Settled
  /\ \E r \in listening : message' = r.user
  /\ UNCHANGED <<authVars, status, filters, subVars, flights, waitVars, timers, count>>

-----------------------------------------------------------------------------
(* Removing and resetting. *)

\* remove: share the removal under way or start one.
Remove(who) ==
  /\ waiters' = waiters \cup {who}
  /\ removing' = IF removing = 0 THEN sub ELSE removing

\* _detectSleep finds that its timeout came late.
Wake ==
  /\ Settled /\ sleepTimer /\ Ready /\ sub # 0
  /\ Counted("sleep")
  /\ sleepTimer' = FALSE
  /\ Remove("sleep")
  /\ UNCHANGED <<authVars, stateVars, subVars, flights, resetPromise, registerTimer,
                 retryTimer>>

\* The end of _reset: resetSuccess.
Cleared_MessageKept == status' = "pending" /\ filters' = {} /\ UNCHANGED message
Cleared             == status' = "pending" /\ filters' = {} /\ message' = Nobody

\* After the await of _detectSleep.
Resubscribe_Omitted == UNCHANGED <<registerTimer, sub, objects>>
Resubscribe         == sub' = objects + 1 /\ objects' = objects + 1 /\ registerTimer' = TRUE

\* The removal ends and everyone who awaits it goes on, in one turn: the object
\* is reset and forgotten, _detectSleep subscribes again, _reset is done.
Removed ==
  /\ Settled /\ removing # 0
  /\ removing' = 0 /\ waiters' = {}
  /\ listening' = Deaf(sub)
  /\ IF "sleep" \in waiters
     THEN Resubscribe /\ sleepTimer' = TRUE
     ELSE sub' = 0 /\ UNCHANGED <<objects, registerTimer, sleepTimer>>
  /\ IF "reset" \in waiters
     THEN Cleared /\ resetPromise' = "null"
     ELSE UNCHANGED <<stateVars, resetPromise>>
  /\ logoutStep' = IF "reset" \in waiters /\ logoutStep = "awaiting" THEN "handled" ELSE logoutStep
  /\ UNCHANGED <<auth, user, flights, retryTimer, count>>

\* reset, when no reset is under way.  Without an await _reset is over before
\* the assignment of _resetPromise, which keeps the resolved promise for ever.
Reset ==
  /\ sleepTimer' = FALSE /\ retryTimer' = FALSE
  /\ IF sub # 0 /\ LoggedIn
     THEN /\ Remove("reset") /\ resetPromise' = "running"
          /\ status' = "resetting"
          /\ UNCHANGED <<filters, message, sub, listening>>
     ELSE /\ Cleared /\ resetPromise' = "resolved"
          /\ IF sub # 0 THEN Dropped ELSE UNCHANGED <<sub, listening>>
          /\ UNCHANGED <<removing, waiters>>
  /\ UNCHANGED <<objects, registerTimer>>

\* The listener, once auth is not logged in.
Stop ==
  /\ NeedsReset
  /\ Reset
  /\ UNCHANGED <<authVars, flights, count>>

-----------------------------------------------------------------------------
(* Auth. *)

Login(u) ==
  /\ Settled /\ auth = "notLoggedIn"
  /\ count["login"] < MaxLogins
  /\ count' = [count EXCEPT !["login"] = @ + 1, !["kept"] = IF Ready THEN @ + 1 ELSE @]
  /\ auth' = "loggedIn" /\ user' = u
  /\ UNCHANGED <<logoutStep, stateVars, subVars, flights, waitVars, timers>>

\* refreshError without a valid refresh token.
Expire ==
  /\ Settled /\ LoggedIn
  /\ Counted("end")
  /\ auth' = "notLoggedIn" /\ user' = Nobody
  /\ UNCHANGED <<logoutStep, stateVars, subVars, flights, waitVars, timers>>

\* One logout at a time.
BeginLogout ==
  /\ Settled /\ auth = "loggedIn" /\ logoutStep = "none"
  /\ Counted("end")
  /\ auth' = "beforeLogout" /\ logoutStep' = "handlers"
  /\ UNCHANGED <<user, stateVars, subVars, flights, waitVars, timers>>

\* The turn of the handler Subscription added: reset, and await its promise.
Handler ==
  /\ Settled /\ logoutStep = "handlers"
  /\ IF Ready /\ resetPromise = "null"
     THEN /\ Reset
          /\ logoutStep' = IF sub # 0 /\ LoggedIn THEN "awaiting" ELSE "handled"
     ELSE /\ logoutStep' = IF Ready /\ resetPromise = "running" THEN "awaiting" ELSE "handled"
          /\ UNCHANGED <<stateVars, sub, objects, listening, waitVars, timers>>
  /\ UNCHANGED <<auth, user, flights, count>>

\* Another handler cancels the logout.
CancelLogout ==
  /\ Settled /\ logoutStep \in {"handlers", "handled"} /\ auth = "beforeLogout"
  /\ Counted("cancel")
  /\ auth' = "loggedIn" /\ logoutStep' = "none"
  /\ UNCHANGED <<user, stateVars, subVars, flights, waitVars, timers>>

Logout ==
  /\ Settled /\ logoutStep = "handled" /\ auth # "loggingOut"
  /\ auth' = "loggingOut"
  /\ UNCHANGED <<user, logoutStep, stateVars, subVars, flights, waitVars, timers, count>>

LoggedOut ==
  /\ Settled /\ auth = "loggingOut"
  /\ auth' = "notLoggedIn" /\ user' = Nobody /\ logoutStep' = "none"
  /\ UNCHANGED <<stateVars, subVars, flights, waitVars, timers, count>>

-----------------------------------------------------------------------------
Next ==
  \/ Start \/ Stop \/ Register \/ Registered \/ SubscribeError \/ RenewError
  \/ Retry \/ Notification \/ Wake \/ Removed
  \/ (\E f \in Filter : Ask(f)) \/ (\E u \in User : Login(u))
  \/ Expire \/ BeginLogout \/ Handler \/ CancelLogout \/ Logout \/ LoggedOut

Spec == Init /\ [][Next]_vars

\* Timeouts fire, requests end, the handlers of a logout run.
FairSpec ==
  /\ Spec
  /\ WF_vars(Start \/ Stop) /\ WF_vars(Register) /\ WF_vars(Retry)
  /\ WF_vars(Registered \/ SubscribeError) /\ WF_vars(Removed)
  /\ WF_vars(Handler) /\ WF_vars(Logout) /\ WF_vars(LoggedOut)

-----------------------------------------------------------------------------
(* Properties. *)

\* Only the object that _subscription holds gets notifications: whoever drops
\* an object (renewError, remove, reset) silences it first, or two objects would
\* dispatch every message twice.
OneListener == \A r \in listening : r.id = sub

\* A ready module does not show a user a message that came for the user before,
\* whichever way that session ended and whatever was under way then; unless a
\* resolved _resetPromise was left over (StopsWhenLoggedOut), and as long as the
\* machine did not sleep.
OwnMessages ==
  count["sleep"] = 0 /\ resetPromise # "resolved" /\ user # Nobody /\ Ready
    => message \in {user, Nobody}

\* "update status on state change" (docs/creating-modules.md:140, where a ready
\* module with a dependency that is not ready dispatches resetSuccess): once
\* nobody is logged in, Subscription is not ready.
StopsWhenLoggedOut == auth = "notLoggedIn" /\ Settled => ~Ready

\* No logout was cancelled, no two registrations were under way at a time and no session
\* found the module as another had left it (StopsWhenLoggedOut).
Undisturbed == count["cancel"] = 0 /\ count["overlap"] = 0 /\ count["kept"] = 0

\* In a session that stays and is undisturbed, what the modules asked for is registered in
\* the end for the user, on the object in use, though registrations and renewals fail, the
\* machine sleeps and the session before was reset in the middle of all that.
FiltersRegistered ==
  (<>[](auth = "loggedIn" /\ filters # {} /\ Undisturbed)) =>
    <>[](\E r \in listening : r.id = sub /\ r.user = user /\ r.filters = filters)
=============================================================================
