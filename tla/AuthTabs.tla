------------------------------ MODULE AuthTabs ------------------------------
(***************************************************************************)
(* Who is logged in: the Auth modules (modules/Auth) of the tabs of one    *)
(* browser.  The tabs share the cache of the RingCentral SDK, which holds  *)
(* the auth data; each keeps a login status and a copy of the token, and   *)
(* tells the others with the event loginStatusChange (TabManager.send)     *)
(* when it has logged in or out.  An event is seen only in the turn it is  *)
(* dispatched in: TabManager's event reducer drops it with the next action.*)
(*                                                                         *)
(* One action is one event loop turn of one tab; the store listener runs   *)
(* in the same turn as the change it reacts to.                            *)
(***************************************************************************)
EXTENDS Integers, Sequences

CONSTANTS
  Tab, User,
  None,       \* no auth data, no token
  MaxLogins,  \* bound: calls of login, all tabs together
  MaxEvents   \* bound: all other bounded events, see Kind

VARIABLES
  isImplicit,  \* the SDK has no app secret; it never changes
  cache,       \* the SDK's auth data, by their user
  status,      \* state.status
  loginStatus, \* state.loginStatus
  token,       \* state.token, by its user
  fresh,       \* state.freshLogin is true
  loggedIn,    \* the variable loggedIn of the store listener
  inbox,       \* loginStatusChange events the tab has not handled yet
  logins,      \* calls of login that have not ended, by their user
  waiting,     \* calls of logout whose handlers have not ended
  leaving,     \* calls of the SDK's logout that have not ended
  refreshing,  \* the user whose token is being refreshed
  raced,       \* history: two changes of the session overlapped, see Overlap
  count        \* how often the bounded events happened

local == <<status, loginStatus, token, fresh, loggedIn, inbox>>
calls == <<logins, waiting, leaving, refreshing>>
vars  == <<isImplicit, cache, local, calls, raced, count>>

\* What happens a bounded number of times: logins; logouts; logouts that a
\* handler cancels; refreshes of the token; pages loaded anew; page loads in
\* which the SDK cannot reach the server; implicit logins whose request for the
\* owner fails.
Kind == {"login", "logout", "cancel", "refresh", "reload", "offline", "ownerError"}

LoginStatus == {"null", "notLoggedIn", "loggingIn", "loggedIn", "beforeLogout", "loggingOut"}

TypeOK ==
  /\ isImplicit \in BOOLEAN
  /\ cache \in User \cup {None}
  /\ status \in [Tab -> {"pending", "initializing", "ready"}]
  /\ loginStatus \in [Tab -> LoginStatus]
  /\ token \in [Tab -> User \cup {None}]
  /\ fresh \in [Tab -> BOOLEAN]
  /\ loggedIn \in [Tab -> BOOLEAN]
  /\ inbox \in [Tab -> Seq(BOOLEAN)]
  /\ logins \in [Tab -> SUBSET User]
  /\ waiting \in [Tab -> Nat]
  /\ leaving \in [Tab -> Nat]
  /\ refreshing \in [Tab -> User \cup {None}]
  /\ raced \in BOOLEAN
  /\ count \in [Kind -> Nat]

Init ==
  /\ isImplicit \in BOOLEAN
  /\ cache = None
  /\ status = [t \in Tab |-> "pending"]
  /\ loginStatus = [t \in Tab |-> "null"]
  /\ token = [t \in Tab |-> None]
  /\ fresh = [t \in Tab |-> FALSE]
  /\ loggedIn = [t \in Tab |-> FALSE]
  /\ inbox = [t \in Tab |-> <<>>]
  /\ logins = [t \in Tab |-> {}]
  /\ waiting = [t \in Tab |-> 0]
  /\ leaving = [t \in Tab |-> 0]
  /\ refreshing = [t \in Tab |-> None]
  /\ raced = FALSE
  /\ count = [k \in Kind |-> 0]

Counted(k) ==
  /\ IF k = "login"
     THEN count[k] < MaxLogins
     ELSE count["logout"] + count["cancel"] + count["refresh"] + count["reload"]
            + count["offline"] + count["ownerError"] < MaxEvents
  /\ count' = [count EXCEPT ![k] = @ + 1]

-----------------------------------------------------------------------------
(* The store listener. *)

\* Tell the other tabs (Tabbie.send); a page that is still loading does not listen.
Listening(t) == {s \in Tab \ {t} : status[s] # "pending"}
Tell(t, b) ==
  [s \in Tab |-> IF s \in Listening(t) THEN Append(inbox[s], b) ELSE inbox[s]]

Follow_Silent(t, ls) ==
  /\ loggedIn' = [loggedIn EXCEPT ![t] = IF ls = "loggedIn" THEN TRUE
                                         ELSE @ /\ ls # "notLoggedIn"]
  /\ UNCHANGED inbox

\* After an action that leaves tab t with login status ls.
Follow(t, ls) ==
  IF \/ loggedIn[t] /\ ls = "notLoggedIn"
     \/ ~loggedIn[t] /\ ls = "loggedIn"
  THEN /\ loggedIn' = [loggedIn EXCEPT ![t] = ~@]
       /\ inbox' = Tell(t, ~loggedIn[t])
  ELSE UNCHANGED <<loggedIn, inbox>>

\* The reducers: an action of type login, logout ... that sets only the status;
\* one that makes the user known; one that forgets him.
Set(t, ls) ==
  /\ loginStatus' = [loginStatus EXCEPT ![t] = ls]
  /\ Follow(t, ls)
  /\ UNCHANGED <<status, token>>

Enter(t, u) ==
  /\ loginStatus' = [loginStatus EXCEPT ![t] = "loggedIn"]
  /\ token' = [token EXCEPT ![t] = u]
  /\ Follow(t, "loggedIn")
  /\ UNCHANGED <<status, fresh>>

Leave(t) ==
  /\ loginStatus' = [loginStatus EXCEPT ![t] = "notLoggedIn"]
  /\ token' = [token EXCEPT ![t] = None]
  /\ fresh' = [fresh EXCEPT ![t] = FALSE]
  /\ Follow(t, "notLoggedIn")
  /\ UNCHANGED status

\* Something changes the session in tab t while t has an event to read or another
\* login is under way.
Overlap(t, own) ==
  inbox[t] # <<>> \/ \E s \in Tab : (IF s = t THEN logins[s] \ own ELSE logins[s]) # {}

-----------------------------------------------------------------------------
(* A page opens. *)

StartInit(t) ==
  /\ status[t] = "pending"
  /\ status' = [status EXCEPT ![t] = "initializing"]
  /\ UNCHANGED <<cache, loginStatus, token, fresh, loggedIn, inbox, calls, raced, count>>

\* platform.loggedIn() has answered: initSuccess.
EndInit(t, b) ==
  /\ status[t] = "initializing"
  /\ status' = [status EXCEPT ![t] = "ready"]
  /\ loginStatus' = [loginStatus EXCEPT ![t] = IF b THEN "loggedIn" ELSE "notLoggedIn"]
  /\ token' = [token EXCEPT ![t] = IF b THEN cache ELSE None]
  /\ fresh' = [fresh EXCEPT ![t] = FALSE]
  /\ loggedIn' = [loggedIn EXCEPT ![t] = b]
  /\ raced' = (raced \/ Overlap(t, {}))
  /\ UNCHANGED <<cache, inbox, calls>>

Opened(t) == EndInit(t, cache # None) /\ UNCHANGED count

\* There are auth data, but they cannot be renewed.
OpenedOffline(t) == cache # None /\ Counted("offline") /\ EndInit(t, FALSE)

Reload(t) ==
  /\ status[t] # "pending"
  /\ Counted("reload")
  /\ status' = [status EXCEPT ![t] = "pending"]
  /\ loginStatus' = [loginStatus EXCEPT ![t] = "null"]
  /\ token' = [token EXCEPT ![t] = None]
  /\ fresh' = [fresh EXCEPT ![t] = FALSE]
  /\ loggedIn' = [loggedIn EXCEPT ![t] = FALSE]
  /\ inbox' = [inbox EXCEPT ![t] = <<>>]
  /\ logins' = [logins EXCEPT ![t] = {}]
  /\ waiting' = [waiting EXCEPT ![t] = 0]
  /\ leaving' = [leaving EXCEPT ![t] = 0]
  /\ refreshing' = [refreshing EXCEPT ![t] = None]
  /\ raced' = (raced \/ (isImplicit /\ logins[t] # {}))
  /\ UNCHANGED cache

-----------------------------------------------------------------------------
(* login. *)

\* With a code or a password: the SDK asks the server.  With an access token: the
\* auth data are there at once, and the extension is asked for its id.
Login(t, u) ==
  /\ loginStatus[t] = "notLoggedIn" /\ u \notin logins[t]
  /\ Counted("login")
  /\ Set(t, "loggingIn")
  /\ fresh' = [fresh EXCEPT ![t] = TRUE]
  /\ cache' = IF isImplicit THEN u ELSE cache
  /\ logins' = [logins EXCEPT ![t] = @ \cup {u}]
  /\ raced' = (raced \/ Overlap(t, {}))
  /\ UNCHANGED <<waiting, leaving, refreshing>>

LoginSuccess(t, u) ==
  /\ u \in logins[t]
  /\ logins' = [logins EXCEPT ![t] = @ \ {u}]
  /\ cache' = u
  /\ Enter(t, u)
  /\ raced' = (raced \/ Overlap(t, {u}))
  /\ UNCHANGED <<waiting, leaving, refreshing, count>>

\* The SDK cleans its cache.
LoginError(t, u) ==
  /\ u \in logins[t]
  /\ logins' = [logins EXCEPT ![t] = @ \ {u}]
  /\ cache' = None
  /\ Leave(t)
  /\ UNCHANGED <<waiting, leaving, refreshing, raced, count>>

\* Nobody catches the error of the request for the extension.
OwnerError(t, u) ==
  /\ isImplicit /\ u \in logins[t]
  /\ Counted("ownerError")
  /\ logins' = [logins EXCEPT ![t] = @ \ {u}]
  /\ raced' = TRUE
  /\ UNCHANGED <<cache, local, waiting, leaving, refreshing>>

-----------------------------------------------------------------------------
(* logout. *)

\* By the user, or because the server said the token is revoked (onRequestError).
Logout(t) ==
  /\ loginStatus[t] \in {"loggedIn", "beforeLogout", "loggingOut"}
  /\ Counted("logout")
  /\ Set(t, "beforeLogout")
  /\ waiting' = [waiting EXCEPT ![t] = @ + 1]
  /\ UNCHANGED <<cache, fresh, logins, leaving, refreshing, raced>>

\* A handler returns a reason not to log out: cancelLogout, even if something else
\* has logged the user out in the meantime.
CancelLogout(t) ==
  /\ waiting[t] > 0
  /\ Counted("cancel")
  /\ waiting' = [waiting EXCEPT ![t] = @ - 1]
  /\ Set(t, "loggedIn")
  /\ raced' = (raced \/ ~loggedIn[t])
  /\ UNCHANGED <<cache, fresh, logins, leaving, refreshing>>

HandlersDone_Twice(t) ==
  /\ loginStatus[t] = "beforeLogout"
  /\ waiting' = [waiting EXCEPT ![t] = @ - 1]
  /\ leaving' = [leaving EXCEPT ![t] = @ + 1]
  /\ UNCHANGED <<cache, local, logins, refreshing, raced, count>>

\* The handlers are done, or one has thrown an exception.
HandlersDone(t) ==
  /\ waiting[t] > 0
  /\ waiting' = [waiting EXCEPT ![t] = @ - 1]
  /\ IF isImplicit
     THEN cache' = None /\ Leave(t) /\ UNCHANGED leaving
     ELSE /\ Set(t, "loggingOut")
          /\ leaving' = [leaving EXCEPT ![t] = @ + 1]
          /\ UNCHANGED <<cache, fresh>>
  /\ raced' = (raced \/ (isImplicit /\ Overlap(t, {})))
  /\ UNCHANGED <<logins, refreshing, count>>

\* logoutSuccess or logoutError: the cache is clean either way.
LoggedOut(t) ==
  /\ leaving[t] > 0
  /\ leaving' = [leaving EXCEPT ![t] = @ - 1]
  /\ cache' = None
  /\ Leave(t)
  /\ raced' = (raced \/ Overlap(t, {}))
  /\ UNCHANGED <<logins, waiting, refreshing, count>>

-----------------------------------------------------------------------------
(* The SDK renews the token; refreshImplicitToken is given a new one and asks *)
(* whose it is.                                                               *)

Refresh(t) ==
  /\ status[t] = "ready" /\ refreshing[t] = None /\ cache # None
  /\ Counted("refresh")
  /\ refreshing' = [refreshing EXCEPT ![t] = cache]
  /\ UNCHANGED <<cache, local, logins, waiting, leaving, raced>>

\* refreshSuccess; an implicit token of someone else is dropped.
Refreshed(t) ==
  /\ refreshing[t] # None
  /\ refreshing' = [refreshing EXCEPT ![t] = None]
  /\ IF isImplicit /\ token[t] # refreshing[t]
     THEN UNCHANGED <<cache, local, raced>>
     ELSE /\ cache' = refreshing[t]
          /\ Enter(t, refreshing[t])
          /\ raced' = (raced \/ Overlap(t, {}) \/ cache # refreshing[t])
  /\ UNCHANGED <<logins, waiting, leaving, count>>

\* refreshError: the server was not reached and the refresh token is still valid.
RefreshFailed(t) ==
  /\ refreshing[t] # None
  /\ refreshing' = [refreshing EXCEPT ![t] = None]
  /\ fresh' = [fresh EXCEPT ![t] = FALSE]
  /\ UNCHANGED <<cache, status, loginStatus, token, loggedIn, inbox, logins, waiting,
                 leaving, raced, count>>

\* refreshError: the token is refused.
RefreshRefused(t) ==
  /\ refreshing[t] # None
  /\ refreshing' = [refreshing EXCEPT ![t] = None]
  /\ cache' = None
  /\ Leave(t)
  /\ raced' = (raced \/ Overlap(t, {}) \/ cache # refreshing[t])
  /\ UNCHANGED <<logins, waiting, leaving, count>>

\* refreshError: a request finds no auth data.
NoToken(t) ==
  /\ loginStatus[t] \in {"loggedIn", "beforeLogout"} /\ cache = None
  /\ Leave(t)
  /\ UNCHANGED <<cache, calls, raced, count>>

-----------------------------------------------------------------------------
(* An event of another tab. *)

\* A tab that is not ready, or knows it, does nothing.
Heeds(t) == status[t] = "ready" /\ Head(inbox[t]) # loggedIn[t]

Sync_OldToken(t, b) ==
  /\ loggedIn' = [loggedIn EXCEPT ![t] = b]
  /\ loginStatus' = [loginStatus EXCEPT ![t] = IF b THEN "loggedIn" ELSE "notLoggedIn"]
  /\ fresh' = [fresh EXCEPT ![t] = FALSE]
  /\ UNCHANGED token

\* tabSync: the token is what the SDK has now.
Sync(t, b) ==
  /\ loggedIn' = [loggedIn EXCEPT ![t] = b]
  /\ loginStatus' = [loginStatus EXCEPT ![t] = IF b THEN "loggedIn" ELSE "notLoggedIn"]
  /\ token' = [token EXCEPT ![t] = IF b THEN cache ELSE None]
  /\ fresh' = [fresh EXCEPT ![t] = FALSE]

Hear(t) ==
  /\ inbox[t] # <<>>
  /\ inbox' = [inbox EXCEPT ![t] = Tail(@)]
  /\ IF Heeds(t) THEN Sync(t, Head(inbox[t]))
     ELSE UNCHANGED <<loggedIn, loginStatus, token, fresh>>
  /\ UNCHANGED <<cache, status, calls, raced, count>>

Step(t) ==
  \/ StartInit(t) \/ Opened(t) \/ OpenedOffline(t) \/ Reload(t)
  \/ \E u \in User : Login(t, u) \/ LoginSuccess(t, u) \/ LoginError(t, u) \/ OwnerError(t, u)
  \/ Logout(t) \/ CancelLogout(t) \/ HandlersDone(t) \/ LoggedOut(t)
  \/ Refresh(t) \/ Refreshed(t) \/ RefreshFailed(t) \/ RefreshRefused(t) \/ NoToken(t)
  \/ Hear(t)

Next == UNCHANGED isImplicit /\ \E t \in Tab : Step(t)

Spec == Init /\ [][Next]_vars

-----------------------------------------------------------------------------
(* Properties. *)

\* A tab whose Auth is ready and that has handled all it was told.
Known(t) == status[t] = "ready" /\ inbox[t] = <<>>

\* The changes of the session came one after the other, and no page was loaded
\* while the SDK could not reach the server.  (Auth has no order between tabs: when
\* two of them log in or out before the event of the other is there, or a refresh
\* ends after its session, they may go apart for good.)
Calm == ~raced /\ count["offline"] = 0

\* After any series of logins, logouts, cancelled logouts, refused refreshes and
\* page loads, in whatever tab, the tabs agree whether the user is logged in (the
\* listener at Auth:186-212 tells the others and heeds what they tell).
TabsAgree ==
  Calm => \A s, t \in Tab : Known(s) /\ Known(t) => loggedIn[s] = loggedIn[t]

\* A tab that takes itself for logged in has the token of the user whose auth data
\* the SDK sends: ownerId, by which Storage and DataFetcher keep users apart, is
\* the user the server answers for.
TokenIsTheSdks ==
  Calm => \A t \in Tab :
    Known(t) /\ loginStatus[t] = "loggedIn" => token[t] = cache /\ cache # None

\* Only one tab takes a login for its own: freshLogin makes DataFetcher fetch
\* though the data of the others are new.
OneFreshLogin ==
  Calm => \A s, t \in Tab :
    /\ Known(s) /\ Known(t)
    /\ fresh[s] /\ fresh[t]
    /\ loginStatus[s] = "loggedIn" /\ loginStatus[t] = "loggedIn"
    => s = t

\* No tab is left in a status between: whatever calls of login and logout cross in
\* a tab, a call is under way that will end loggingIn, beforeLogout or loggingOut.
\* (Not after an implicit login that could not ask for the owner: nothing ends
\* loggingIn then.)
StatusHasCall ==
  count["ownerError"] = 0 => \A t \in Tab :
    /\ loginStatus[t] = "loggingIn" => logins[t] # {}
    /\ loginStatus[t] = "beforeLogout" => waiting[t] > 0
    /\ loginStatus[t] = "loggingOut" => leaving[t] > 0
=============================================================================
