# Formal verification of ringcentral-js-integration-commons

This directory holds TLA+ models of the library in `src/`, the TLC
configurations that check them on small instances and TLAPS proofs for any size
of instance. `PROJECT.json` lists the components, the runs, the theorems, the
known hazards and, for every definition, the lines it models. Paths below are
relative to the repository (`lib/Tabbie.js` is `src/lib/Tabbie.js`).

## 1. The system

The library is a set of modules (subclasses of `lib/RcModule`) around one Redux
store per browser tab. A module reads the state of the modules it was given in
its constructor, reacts to every change of the store in a store listener (the
`_onStateChange` pattern), and changes state by dispatching actions. Tabs of one
browser profile share `localStorage` and hear of each other's writes by storage
events. A Chrome extension may keep the store in its background page and show
it in other pages through a proxy. Everything else is the server: REST requests
through the SDK, a subscription that pushes events, SIP over WebRTC.

| Component | State | Operations | Interacts by |
|---|---|---|---|
| `lib/Tabbie`, `modules/TabManager` | main tab id, heart beats (localStorage); `active`, `ready` | claim, fight, beat, gc, unload | storage events of other tabs; visibility; timers |
| `lib/StorageBase`, `lib/SynchronizedStorage`, `modules/Storage`, `modules/GlobalStorage` | cells per user (localStorage), `data`, `storedData` | load, save on change, follow other tabs, reset on logout | store listener, storage events, `setTimeout(0)` |
| `lib/proxy`, `lib/ChromeTransport` | `actionNumber`, copy of the target state, requests under way | push, sync, execute | ports of the extension, request ids, timeouts |
| `lib/DataFetcher`, `lib/Pollable` and 12 subclasses | `data`, `timestamp` in Storage; `status`, `_promise`, one timeout | init, fetch, poll, retry, reset | Auth, Storage, TabManager, Subscription; REST |
| `modules/Subscription` | `filters`, `message`, SDK object, three timers, two promises | subscribe, register, renew, remove, reset, sleep detection | Auth's logout handlers; SDK events |
| `modules/Auth` | `loginStatus`, `token`, `ownerId`, handlers | login, logout, refresh errors, follow other tabs | SDK platform events, TabManager events |
| `modules/Environment`, `modules/ConnectivityMonitor`, `modules/RateLimiter`, `modules/Alert` | the SDK's client, `changeCounter`, connectivity, throttling, alerts | choose a server, watch requests, check, throttle | SDK client events, store listeners, timers |
| `modules/MessageStore` | conversations, sync token | full and incremental sync, read status | Subscription, REST, promise chain |
| `modules/Conversation`, `modules/RecentMessages`, `modules/ComposeText`, `modules/MessageSender`, `modules/NumberValidate` | the open conversation, recent messages of contacts, the form, the status of sending | load, reload, mark as read, validate, send | MessageStore's `updatedTimestamp`, REST |
| `modules/Presence`, `modules/DetailedPresence` | status, active calls, last sequence | fetch, notifications, set a status | Subscription, ConnectivityMonitor, REST |
| `modules/CallLog`, `modules/CallMonitor`, `modules/CallHistory` | records and token in Storage; calls on the screen; ended calls | syncs, timers, matching | Subscription, DetailedPresence, matchers |
| `modules/Webphone` | connection and retries; SIP sessions, active and ringing session | connect, disconnect, invite, answer, hold, hang up | SIP user agent, timers, TabManager |
| `modules/CallingSettings`, `modules/Call`, `modules/Ringout`, `modules/Softphone` | what the user calls with; the call being made | validate settings and numbers, call, poll | Webphone, RolesAndPermissions, REST |
| `lib/DataMatcher`, `lib/LoggerBase`, `modules/CallLogger`, `modules/ConversationLogger` | matches in Storage, requests and queues; logs under way, the queue of conversations | match, expire, log, process the queue | CallMonitor, MessageStore, TabManager, the application |
| `modules/GlipGroups`, `modules/GlipPosts`, `modules/GlipPersons` | groups, posts, persons, what is being fetched | loads, posts, batches, notifications | Subscription, Storage, REST |
| `modules/AddressBook`, `modules/AccountContacts`, `modules/ContactSearch` | contacts and token in Storage; presences, calls collected for a batch; searches, their cache | syncs by pages; batches; search, expire | Storage, TabManager, timers, search sources |
| `lib/di` | providers, instances, what is pending | resolve, inherit, detect circles | start-up; `Injector.pending` is of the class |

The rest (settings, number formatting, analytics, regions) is sequential
and either a value kept in Storage or a pure function.

**What is hard here.** Everything runs in single-threaded turns, so there are
no data races; what goes wrong goes wrong between turns: state read before an
`await` is used after it; a module is reset while its request is under way and
the answer arrives in the session of the next user; tabs write the same cell;
events cross; a tab dies without saying so; a timeout fires for an object that
was replaced; one timer variable serves two purposes. Section 6 lists these
hazards by component; `PROJECT.json` gives each one its line.

**What makes a component correct**, in a sentence each: one live main tab, and
every tab knows which; tabs converge on what was written and users stay apart;
a proxied page shows a state the background page had and never goes back; a
fetcher's data is its own user's and turns up in the end; the filters the
modules ask for are registered for the user in session and nobody sees
another's messages; the tabs agree whether somebody is logged in, and one that is
holds the token of the user the server answers for; the messages shown are all
that the sync token claims, and a notified change is shown in the end; a log
or an address book is complete up to its token and its user's; every call is
on the screen until the log has it; what the status of a phone, a sending text or a
module claims to be under way is under way; what was asked for is fetched, once;
what was logged or shown last is the latest there was; somebody always watches
the connection; and a module is made after those it depends on, or the circle is told.

## 2. Modules and how they correspond to the code

In every module one action is one event loop turn (of one tab or page),
including the promise jobs it leaves behind and the store listeners it
triggers. Where a listener needs more than one dispatch to settle, the model has
a predicate `Settled` and lets no other action of that tab happen before.
Bounds are CONSTANTS named `Max...`; they appear as guards on what the
environment does (users, faults, errors), never on what the code does.

**Tabbie** (`lib/Tabbie.js`, `modules/TabManager`). `mainTab` and `heartBeat` are
the localStorage entries; `inbox` the undelivered storage events of a tab;
`fights` its sleeping `_fightForMainTab` calls, each with the id it saw before
the sleep; `waiting` its handlers suspended in `getMainTabId`. A heart beat is
fresh, stale or absent: time is reduced to whether `heartBeatExpire` has passed.
A beat of a live tab can only grow stale when the browser throttles its timers.

**Replica**, **Proxy** (`lib/proxy`, `lib/ChromeTransport`). `Replica` is the
promise: each client holds the state the server had after some number of
actions, and moves forward only. `Proxy` is the code: numbered pushes to ports
of active tabs, `sync` when a push does not follow, calls of proxified
functions, timeouts. A state is the sequence of actions that led to it, so the
refinement mapping is the client's `target`.

**SyncStorage** (`lib/StorageBase`, `lib/SynchronizedStorage`, `modules/Storage`;
`GlobalStorage` is the case of one user and no logouts). Tabs may run two versions
of the app, with reducers for different keys (`Registered`). `data` is the redux
state, `stored` the closure variable `storedData`; a storage event arrives as a
`notice` and is handled in a timeout that re-reads the item.

**Fetcher** (`lib/DataFetcher`, `lib/Pollable`). `cell` is the shared storage,
`copy` what a tab's Storage holds of it; data is named by the user whose request
returned it. `promise` and `flights` separate the request `_promise` stands for
from those that are still under way after a reset. The option `polling` is chosen
at the start and covers both kinds of fetchers; `cleanOnReset` is a CONSTANT.

**Subscription** (`modules/Subscription`). SDK objects are numbered; `listening`
holds what each object registered and for whom. `resetPromise` distinguishes
"null", "running" and "resolved", because the code keeps a resolved promise in some cases (see Findings). Auth is modelled as far as Subscription sees it. Of the SDK,
which is not in the repository, the module assumes that an object that was reset or
replaced fires no event any more (`Registered`): the listeners of
`modules/Subscription/index.js:139-196` do not compare the object they were put on with
the current one, so that without this a registration that was under way when its object was reset
could be taken for one of the object that came after.

**AuthTabs** (`modules/Auth`, a component of `Telephony`). `cache` is the auth data of the SDK, which all tabs
share; `status`, `loginStatus`, `token` and `fresh` are each tab's redux state,
`loggedIn` the variable of that name in the closure of its store listener, and
`inbox` the events `loginStatusChange` on their way to it. `logins`, `waiting` (for
the logout handlers), `leaving` and `refreshing` are the calls under way. An
access token comes with an implicit login (no app secret); a call of `login` is
made only by a tab that is logged out, as the login page does. Of the SDK the
module takes that it cleans its cache when a login or a logout ends without
success, and that it keeps the cache when the server cannot be reached
(`clearCacheOnRefreshError: false`, `modules/RcPhone/index.js:138`). Auth has no
order between tabs: when two of them change the session before either has heard of
the other (`Overlap`), they may stay apart. The history variable `raced`
remembers this, and `Calm` excludes it; without `Calm` TLC finds runs in
which `TabsAgree` and `TokenIsTheSdks` do not hold.

**MessageStore** (`modules/MessageStore`, with `lib/Pollable`). The server numbers the
changes of its messages; a sync token is the number of the first change it does
not cover, and `server` holds the last change of every message. `sync` is the
request behind `_promise` with what it has been answered so far (an `fSync` page
by page, the token being that of the first page; `_recursiveFSync` stops when it has more
than 500 records, so that `AnswerPage` may stop at any page, the user having more
messages than those modelled, and what the server still had below the token is then in `cut`); `call` is a call that reads, marks,
deletes or sends, with the server's answers so far; `unheard` is a notification that
`_subscriptionHandler` has not compared with `_lastSubscriptionMessage` yet. `cached`
chooses whether the data are in Storage (`cell`), where only the main tab
syncs, or each tab's own. A conversation is a set of messages and the data a
version of each: how `conversationMap`, its indices and unread counts
are derived is left out. The getter `timestamp` reads
`cache.data.syncTimestamp`, which no reducer writes, so that a timeout of Pollable
always syncs. Two history variables name what the code leaves unordered. `raced`
is set when an answer is stored too late: a call's answer older than what a
sync has brought, or during the first sync, or a sync whose data another tab or a
session's end replaced. `missed` holds the changes the code gives up:
made before the subscription is there, or whose notification came while a sync that
does not cover them was under way (`_sync` starts no second one), or forgotten
with data another tab overwrote, or left to the main tab before (`Deserted`: a tab that
becomes the main one starts no sync, and goes on with what the last one had; if that one was
still to sync, to be told or to read the data, nobody does it now).

**Connection** (`modules/Environment`, `ConnectivityMonitor`, `RateLimiter`, the
alerts of both). Clients are numbered; `monitor` and `limiter` hold the client a
listener is on and the `changeCounter` it has seen. A request belongs to the client it
was made with. `slipped` and `missed` are histories of what got past a listener.

**Presence** (`modules/Presence`, `DetailedPresence`). `variant` chooses the class.
`shown` says whose presence is in the state and what it is; `requests` are fetches
and updates with the server's answer. The server numbers its versions, so `Newer`
compares what `_subscriptionHandler` compares.

**CallLog** (`modules/CallLog`, with `lib/Pollable`). `runs` are the calls of `_sync` under way
with what they have been answered; `promise` and `queue` are `_promise` and
`_queueSync`. **CallHistory** (`modules/CallHistory`, what it reads of `CallMonitor` and of
`lib/callLogHelpers`). The two legs of a RingOut call are sessions of their own until
`removeInboundRingOutLegs` merges them. The variables `_last...` decide in the code, by
identity, whether to act; here they hold the values.

**WebphoneConnection**, **WebphoneSessions** (`modules/Webphone`). In the first, `underWay`
counts the calls that wait at each `await` of `connect`, `_connect` and their sleeps;
`webphone` is the user agent and `heard` what the code has heard of it. In the second
the sessions of the SIP library are external objects with a life of their own
(`phone`, `held`, `pending`), beside what the code keeps of them.
`lastEnded` gives each ended session its place in `lastEndedSessions`, which has five
(`MaxEnded`). What `getLastEndedSessionsReducer` asks of a session is modelled as it is
computed: `IsReplied` is what `normalizeSession` makes of it (see Findings).
`disconnect` ends the sessions one after the other, in one turn (`stopping`).

**Calling** (`modules/CallingSettings`, `Call`, `Ringout`). Numbers are direct, numbers to flip to or caller
ids; a call under way remembers the settings at each of its steps. A caller id that is
`undefined` does not stay so: the default parameter of `getFromNumberReducer` makes it `null`
with the next action, and `Call` then ends a call with `connectError`.

**DataMatcher** (`lib/DataMatcher`, one provider; the matchers that CallHistory and the loggers
ask, a component of `Telephony`). `matching` and `queue` are the request and
the queue behind it. **LoggerBase** holds the chain of logs of a thing; the modules
**ConversationLogger** and **CallLogger** extend it with what becomes a log and when.
The queue of ConversationLogger is taken in batches (`splice(0, 10)`; `CvBatchSize` is 2 in
the runs), in the order of the queue, so that two versions of one conversation may be in one batch; they are then processed in
parallel and either may be logged last (such a thing is `excused`). Both awaits of
`_processConversationLog` are steps: the conversation matcher answers from what it has
(`known`), which may be older than the record, and what has no record is logged only if it is
of type SMS (`Sms`) and after the contact matcher has answered, when `autoLog` is not
looked at again. A second caller of a matcher is not kept from what the
first one's provider rejects (`lib/DataMatcher/index.js:312`).

**MessageViews** (`modules/Conversation`, `RecentMessages`) over a store that may change in
any way; a copy is compared by the time the store was updated at. `_getRecentMessages` asks
the server and nobody catches its failure (`LoadFails`), although the time of the copy has moved on
already: what is shown of the contact stays as it was until another load succeeds. **TextSending**
(`modules/ComposeText`, `MessageSender`, `NumberValidate`): numbers with what the
parser makes of them, and several sends at once.

**GlipPosts**, **GlipGroups**, **GlipPersons** (the modules of those names). Posts are told by id,
and before they have one by creator, text and `sendStatus`, as in the reducer. `loadPosts`
takes the latest `RecordCount` posts (20 in the code), and `older` are those its list was too
short for; posts are removed on the server, and the notification of that is ignored. Groups
are told by the number of their last change, which is 0 where the user is not a
member. A notification, the answer of a list and that of `startChat` each carry the
version there was when they were made, and put it in whenever they arrive; notifications come in any
order (`Push`). `missed` names the groups of which an older version came in last.

**AddressBook** (`modules/AddressBook`, with `lib/Pollable`): an answer holds the contacts
that changed since its token, page by page. The token that is kept is that of the last page, as
`_sync` returns `{...lastResponse, records}` (`modules/AddressBook/index.js:302-306`; in MessageStore
it is that of the first). A contact that changes after its page was read and before the last
one is answered is therefore below the token and not in the list: `overtaken` names the
contacts this has happened to, until they change or are read again.
**ContactSearch** (`modules/ContactSearch`): a search walks through its sources, each
with a `searchId`; what is cached, the timeout and the debounce are state.
**AccountContacts** (`modules/AccountContacts`, the presences): `contexts` is
`_getPresenceContexts`, `batches` the requests under way with the login they were made in; a
cached presence is that login, negative when it is too old. After a logout what is collected
or under way goes on, and what it brings is cached for the next user (`late`).

**Injector** (`lib/di`). The code is recursive and runs in one turn; `stack` holds the calls of
`resolveModuleProvider` that are not over, so that every order of dependencies and every
circle is a behaviour. A token has no provider, a class with a dependency on each other
token (none, optional or required, merged with those of its base class) or an alias.
`Again` is another bootstrap after one that threw: `Injector.pending` belongs to the class
and keeps what was left there (`left`). Value and factory providers are like classes.

Where the code loses track of something for good, a history variable says of
what: `crossed`, `excused`, `disturbed`, `raced`, `missed`, `cut`, `older`, `overtaken`, `lost`,
`unheld`, `changed`, `failed`, `late`, `left`. Each is set in the action in which it happens, and each is named
in the note of a hazard.

**Telephony** and **Workspace** put the components together that need no module of their
own below them: Telephony those of the session, of calls (with CallLogger and the matchers) and of the
connection, and the injector that makes the modules when a session starts; Workspace those of
messages, Glip and contacts, and ConversationLogger. Each holds one instance of every component: `which` is
chosen at the beginning and says which of them runs, the variables of the others are idle
(variables of one name are shared, as only one component uses them at a time; those of
both are in **Stage**). A constant has the prefix of the instance it belongs to (`ClCall` is
`Call` of CallLog). A property is the conjunction of those of the components it is about.

A `.cfg` gives a run its constants. `MCTelephony`, `MCWorkspace`, `MCMessageStore` and
`MCSyncStorage` define the values a `.cfg` cannot write and what is symmetric; the other runs
check the module itself. `*_proofs` modules hold the theorems.

## 3. What the runs check

| Run | Instance | What it shows |
|---|---|---|
| `tabbie` | 2 tabs, 2 faults | `ActiveAgrees`: a ready tab without an unhandled event of the main tab id believes it is main exactly when localStorage says so. `OnlyVisibleDeposes`: with no throttled timer a live main tab loses the role only to a visible tab. `DeadMainReplaced`, `AllTabsLearn`: after one crash the role passes on, and every tab learns its role. |
| `tabbie_close` | 3 tabs, 1 fault | finding, see below |
| `proxy` | 1 page, 2 actions, a call, two tab switches, a timeout | `ImplementsReplica`: the page's state is always one the server had, and moves forward. `ReadsOwnWrites`: a foreground page whose call returned sees its effect or is syncing. `PushCatchesUp`. |
| `storage` | 2 tabs of 2 versions, 2 users, 2 keys, 4 writes and logins | `Converged`, `UserIsolation`, `NeverGoesBack`, `Settles`: tabs that have handled their events agree with storage, users stay apart, no key returns to an earlier value, and the events die out. |
| `fetcher` | 2 tabs, 2 users, 3 logins, 2 other events | `RightOwner`, `ReadyHasData`, `EventuallyReady`. |
| `fetcher_polling` | 2 tabs, 1 user, 3 other events | finding |
| `subscription` | 2 users, 2 filters, 3 logins, 4 other events | `OneListener`, `OwnMessages`, `FiltersRegistered`. |
| `subscription_reset` | 2 users, 2 filters, 2 logins, 3 other events | finding |
| `messages` | 2 tabs with and without shared data, 2 messages of a conversation, 2 logins, one change, one call, one other event | `NothingLostForGood`: what a tab shows is complete up to its sync token, so nothing but what is `cut` stays lost after an incremental sync. `NothingMissed`: a responsible tab with nothing to wait for shows what the server has, except what is in `missed` or `cut`. |
| `telephony` | each of AuthTabs (2 tabs, 2 users, 2 logins, 3 other events), Presence (2 users), CallLog (2 users, 2 calls), CallHistory (2 sessions, one RingOut call), CallLogger (one call, 3 events), DataMatcher (3 queries, 3 events), WebphoneConnection (9 events), WebphoneSessions (3 calls, room for 2 that ended), Calling and Connection (5 events), and Injector (3 tokens, 2 bootstraps) | `TabsAgree`, `TokenIsTheSdks`, `StatusHasCall`, `OwnPresence`, `CallsRecorded`, `NoneForgotten`, `PhoneServes`, `ConnectionWatched`, `ModulesInjected`, see the next table |
| `replied` | 2 calls, 1 event | finding |
| `workspace` | each of ConversationLogger (2 things, batches of 2), MessageViews (2 conversations), TextSending (2 sends), GlipPosts (2 posts, lists of 1), GlipGroups (3 changes, 1 failure or loss), GlipPersons, AddressBook (2 users), ContactSearch (2 sources, 3 searches) and AccountContacts (2 contacts, 4 calls) | `ThingsLogged`, `MessagesServed`, `GlipShown`, `ContactsServed` |

| Property | of | says |
|---|---|---|
| `TabsAgree`, `TokenIsTheSdks` | `AuthTabs` | after any series of logins, logouts, cancelled logouts, refreshes and page loads that do not overlap the tabs agree who is logged in, and hold the token of the SDK |
| `StatusHasCall` | `AuthTabs` | no tab is between two login states without a call that ends it |
| `OwnPresence` | `Presence!OwnPresence` | nobody sees another user's presence or calls; a module that is ready shows its own user; leaving Do Not Disturb never restores it |
| `CallsRecorded` | `CallLog!LogComplete` | the log is the user's, has every change its token covers, and one sync at a time |
| | `CallHistory!CallsAccountedFor` | a call that was active is active, ended or logged; ended calls are not in the log; the matchers were asked for all |
| | `CallLogger!CallsLogged` | the record of a call is about its newest state, or that waits to be logged |
| `PhoneServes` | `WebphoneConnection!ConnectionServed` | connecting, connected and failed mean what they say, and after a disconnect it stays disconnected |
| | `WebphoneSessions!CallsShown` | a ringing call is shown, one call talks at a time and is the active one, and the ended ones are known, as far as there is room |
| | `Calling!CallsAsSet` | settings are offered ones, the web phone is connected exactly when they ask for it, one call at a time, from a number of its mode |
| `ConnectionWatched` | `Connection!ConnectionWatched` | a check is always to come, every answer of the client in use is heard, none of its requests passes the throttle, and it is for the server chosen |
| `ModulesInjected` | `Injector!ModulesInjected` | bootstrap ends well exactly when there is no circle and no gap; an instance is made once, after what it depends on; an alias is the instance it stands for |
| `NoneForgotten` | `DataMatcher!NoneForgotten` | what was asked for has a result or will be asked |
| `ThingsLogged` | `ConversationLogger!LatestLogged` | the record of a conversation is about its newest state, or that waits to be logged; one that is not SMS has none unless the user asked for it |
| `MessagesServed` | `MessageViews!ViewsShowStore` | the open conversation and the recent messages are as the store has them, unless their load failed, and what is unread is being marked |
| | `TextSending!SendTells` | who sends a text is told what became of it |
| `GlipShown` | `GlipPosts!PostsShown` | each post a list has room for is shown once, and "sending" or "failed" only if it is so; what was never posted is not shown |
| | `GlipGroups!GroupsServed` | the groups are the user's and as the server has them or a message on its way says, but for those of which an older version came in; who waits has something to wait for |
| | `GlipPersons!PersonsKnown` | who was asked for is known or being asked for, once |
| `ContactsServed` | `AddressBook!BookComplete` | the contacts are exactly those of the token, but for those a sync had passed when they changed, and syncing goes on |
| | `ContactSearch!SearchShown` | what is shown in the end is what was typed last |
| | `AccountContacts!PresencesAnswered` | a call is answered, collected or asked for, once; what is collected has a timeout; presences are of this login |

**Why the bounds are enough.** The safety properties of the passing runs
are also proved for all instances (section 4), so the runs only
have to be rich enough for every action to happen and every seeded mistake to be
found. Pages of the proxy do not interact except through the server's
log, which `Dispatch` drives as another page's calls would; two pushes and a
call are enough for two handlers to wait for one sync, the first of which starts
another. Two tabs suffice for every storage and fetcher conflict (a writer and a
follower, a fetching tab and a waiting one). Two sessions are enough for
everything that leaks from one to the next, and in `subscription` three, as a reset that
was lost at the end of one session (the finding below) is felt in the third: with two, `FiltersRegistered`
would seem to hold of sessions that begin with the module as the one before left it.
Four events let a registration fail
while the machine sleeps and a logout is cancelled, and three let a cancelled logout cross another
or a refresh in another tab. For the messages, one change beside a call lets the
pages of a first sync straddle it, and one failure, reload, reconnection or move of
the main tab meets each of them; `Polling` is off, so that `_retry` is what repairs a
failed sync (with it `_startPolling` sets the same timeout).

In `telephony` and `workspace` every component has two of what may be confused: users
and logins, versions, requests under way, calls (three sessions, as holding the others
needs two others), posts with one text, conversations, sources. Three tokens hold every circle of one, two or three providers
with an alias in any place, a diamond's order and a gap behind an optional dependency; four
calls fill one batch of two while another is under way. Counts of events allow a
failure, a logout and one more thing between the steps of one operation; the web phone
has nine, so that a connection can fail, be retried, given up and asked for again. In the log of calls and the
address book a change may fall between two pages; two posts and lists of one, or three calls and
room for two that ended, meet the limits. What does not belong to a component
(the store below MessageViews, the presence and the log below CallHistory) may change
in any way its own module allows, so that nothing depends on it being settled.
The components of these runs do not meet in one instance: each takes what it reads
of another as an environment that is freer than that component.

**What the liveness properties except.** Each exception is something the code
does not recover from, listed as a hazard. `DeadMainReplaced`: a second fault while
the role passes on, or a live tab whose beat was collected. `PushCatchesUp`:
the push handler ends when its sync times out. `EventuallyReady`: a logout with
the first request under way leaves the fetcher initializing with a dead promise,
and `cleanOnReset` (used by three subclasses) drops data while keeping the
timestamp. `FiltersRegistered`: registrations that overlap are answered in any
order; a registration that fails while a cancelled logout is being handled is
not retried; a session that begins with the module as a lost reset left it, ready with the
old user's object, may register nothing (`kept`).

**What `TabsAgree` and `TokenIsTheSdks` except.** Changes of the session that
overlap, and a page opened while the SDK cannot reach the server (it starts logged
out, the others stay logged in and nothing brings them together).

**What the safety properties of `messages` except.** `raced`, `missed` and `cut`, above. A run
that has `raced` stays so and the properties say nothing of it any more; the constraint
`Orderly` of the run leaves out what would follow. `cut` is what a first sync does not fetch when
it stops at 500 records and stores the token of its first page all the same
(`modules/MessageStore/index.js:340`, `352`): later syncs do not bring it either. What is
older than the days a first sync asks for (`dateFrom`, seven of them by default) is not in the
model at all. Nothing in the repository promises more, and the properties do not hold
without these; each is a hazard.

**What the properties of `telephony` and `workspace` except.** What the history variables of
section 2 hold. Behind them are things the code does not do, found while the
properties were checked and listed with the hazards: a first fetch of the presence that
fails leaves the module initializing (`modules/Presence/index.js:93`); a sync of the
call log that ends after its login clears the `_promise` of another
(`modules/CallLog/index.js:413`); of two logs of one call or conversation the older may come last
(`modules/CallLogger/index.js:166`); a load of recent messages that fails is not repeated before the
next change (`modules/RecentMessages/index.js:75`, `122`); a removed post stays on the screen
(`modules/GlipPosts/index.js:109`); an answer overwrites a newer version of a group
(`modules/GlipGroups/index.js:340`, `382`); a contact changed between two pages is lost
(`modules/AddressBook/index.js:302`); an answer of `sipProvision` after a disconnect connects the
web phone again (`modules/Webphone/index.js:453`), and one that says the feature is not
available leaves it connecting (476); the server chosen in another tab arrives without a
new client (`modules/Environment/index.js:104`); queries queued behind a request that fails
are never asked, nor are those that come later (`lib/DataMatcher/index.js:344`); a failed match
leaves `_autoLogPromise` rejected, and the queue of conversations is not processed
again (`modules/ConversationLogger/index.js:233`); an address book whose
sync failed keeps the rejected promise and never syncs again until the next login
(`modules/AddressBook/index.js:256`); a search that was overtaken in one source takes over in
the next (`modules/ContactSearch/index.js:187`); a presence asked for before a logout is cached
after it (`modules/AccountContacts/index.js:252`); a bootstrap that throws leaves its tokens in
`Injector.pending`, and the next may call them circular (`lib/di/injector.js:24`). No document or test of the repository
was found to promise the contrary, so none of these is a finding.

**Fairness** is weak and only on what the browser, the network layer or the code's
own timers do by themselves: storage events and messages are delivered, timeouts
fire, requests end (with either result), store listeners run, dead beats age.
Users, faults and other modules are never obliged to act.

Deadlock checking is off: users may stop for ever in any state.

**Findings** (runs that show a property violated by the code):

* `tabbie_close`: the unload handler removes the main tab id before the heart
  beat, so the other tabs' handlers find no main tab when the beat goes and wait
  instead of fighting; if all are hidden there is no main tab. The comment at
  `lib/Tabbie.js:61` says that this branch is for a main tab that closed itself.
* `fetcher_polling`: a failed initial fetch of a polling fetcher starts the
  polling and then replaces its timeout by a retry, which stops for good if
  another tab refreshed the timestamp meanwhile. The tests at
  `lib/DataFetcher/index.test.js:224` assert polling and no retry.
* `subscription_reset`: `_reset` without an `await` clears `_resetPromise` before
  `reset` assigns it; the resolved promise stays and the next end of a session
  does not reset the module (`docs/creating-modules.md:140`).
* `replied`: `normalizeSession` computes `isReplied` from `isForwarded`
  (`modules/Webphone/webphoneHelper.js:35`), so that an incoming call the user answered with
  a message is dropped from the ended ones as if another app had answered it. The test at
  `modules/Webphone/getWebphoneReducer.test.js:325` says that such a session is included.

## 4. What is proved

All theorems are of the form `Spec => ...` for any tabs, users, keys, filters, calls and
bounds (for `Telephony` and `Workspace`, bounds that are natural numbers), from the named assumptions of the modules (constants are distinct,
`Tab` is finite, ...). Each proof has one step per action.

* **Tabbie_proofs.** `TypeCorrect`; `ActiveCorrect`. `ActiveAgrees` is not
  inductive: a step could make a tab main that never opened. The invariant
  `IInv` adds `ClosedTabs` (a tab that is not open has no ready TabManager; one
  that never opened is nowhere main). `LiveMainKeepsRole`: while no live beat
  grew stale everything that deposes (stale beats, removal events, suspended
  handlers, sleeping fights) is about tabs that are gone (`OnlyTheDead`), so a
  fight cannot take the role from a live tab. `TabsAreTold`: once there is a main tab, a tab whose
  TabManager is not ready has an event to handle that makes it so. `DeadMainIsFoughtFor`: after
  one crash the role is taken, or the beat of the dead main tab is still to be collected, or
  an open tab sleeps in a fight for the role as it is; the invariant `RoleKept` adds that
  before the crash every open tab fights for a role nobody has held, so that the crash
  does not take the only one that does.
* **Proxy_proofs.** `TypeCorrect`, `NumbersCorrect` (the number a page
  holds is that of its state), `ProxyImplementsReplica`: the invariant says that every message on its way carries a prefix of the log with
  its number, that pushes waiting for a sync are older than what the sync may
  bring, and that a response is applied only while its request is the one
  awaited; so each step either leaves a page's copy or extends it.
  `OwnWritesRead` (`ReadsOwnWrites`) speaks of a page that shows nobody syncing; its
  invariant `WriteInv` says of every call whose effect the page does not have yet how the
  effect gets there (`Assured`): behind its push on the same port, so that the answer comes
  after it; by a push handler that waits for a sync; or by the sync under way, whose answer is
  still to be made or made late enough (`Covered`). That needs `Requests` (a sync asks for more
  than any state the client had), `UpToDate` (the server says "nothing new" only to a client
  that has everything or has a newer push in its hands) and `Waiters` (who waits for a sync has
  one to wait for). `SyncsAreAnswered`: the request or the answer of a sync under way is on a
  port. `PushesAreNotLost` follows an action from its push on: the same assurances that calls
  have hold of it (`Pledged`), and every step keeps them unless a request times out.
* **SyncStorage_proofs.** `TypeCorrect`, `TabsConverge`, `UsersIsolated`,
  `ValuesMoveForward`, `FollowersAreSilent` (following a write never writes). The
  invariant adds that `stored` is
  `data` between turns, that timers belong to the instance and user that started
  them, that a tab without a pending event of a key has its cell's value, and
  that what is pending is not older than what a tab shows (`NotBehind`).
* **Fetcher_proofs.** `TypeCorrect`, `OwnersKeepTheirData`,
  `ReadyFetchersHaveData` (the last assumes `CleanOnReset = FALSE`; with it another
  tab's reset drops the shared data by design). The invariant adds that flights are
  finite, so that the next request has an id, and `DataKept`: data once stored
  for a user is never dropped. `FetchersGetTheirData`: until a session ends, a fetcher that
  initializes has data, a request or a timeout, or there is data another tab has stored (a timestamp comes
  with data, `Stamped`, and `_promise` stands for a request, `FirstSession`).
* **Subscription_proofs.** `TypeCorrect`, `OneObjectListens`,
  `MessagesStayWithTheirUser`. `RealObjects`: no registration is one of "null".
  `Phases` ties status, removal and reset promise together, and `Owned` says
  that in a session without a lost reset everything that listens or may come to
  listen was registered for its user. `RegistrationsCome`: in an undisturbed session what was
  asked for is registered, or a request, a timeout or a removal that leads to it is under way;
  it rests on `Clearing` (only a module that is about to clear its filters has some without
  being ready) and `InTurn` (no answer to an older request comes in between).
* **MessageStore_proofs.** `TypeCorrect`; `SyncsLoseNothing` (`NothingLostForGood`);
  `NoChangeIsMissed` (`NothingMissed`). The first invariant speaks of what is on its way: an answer holds versions the server
  has or had (`RealIn`), the answer of a sync so far holds every change between
  the token it was asked with and its own (`CoversIn`; this is where the token of
  the first page matters), and while nothing has raced a first sync finds the data
  empty and no sync outlives its session (`Intact`). Storing a sync or some messages
  then keeps the data whole (`SyncedWhole`, `PushedWhole`, facts about the data alone).
  `NothingMissed` speaks of an idle tab, its invariant of any: a change above the token of the main
  tab that is not given up is brought by its sync, or it has been told of it, or it has a timeout
  or is still to start (`MainAwaits`). A sync already answered does not bring what came after; of
  that its tab is told, whichever tab it is (`SyncsTold`), for the token may even go back when the
  sync ends. Tabs that have read the last write have the same data (`CellShared`), so that what the
  main tab did not lack another one does not lack when it becomes the main one.
* **Telephony_proofs.** For every component of Telephony an inductive invariant (named as
  the instance: `AuIInv`, `PrIInv`, `ClIInv`, ...), and the type invariant and the nine
  properties of the run from `TelephonyConstants` (which says of the constants what their names do: bounds are natural
  numbers, what stands for nobody is nobody, sets of calls are finite, a class that others inherit
  from has dependencies): `TelephonyTypeCorrect`,
  `TabsWillAgree`, `TokensAreTheSdks`, `NoStatusWithoutCall`, `PresenceIsOwn`,
  `CallsAreRecorded`, `NoQueryIsForgotten` (`NoneForgotten`), `PhoneIsServed`, `ConnectionIsAlwaysWatched`, `ModulesAreInjected`; and
  `FreshLoginIsOnce`.
  - *AuthTabs*: `StatusHasCall` is inductive as it stands. The other properties speak of tabs
    that have handled their events; the invariant speaks of all: the last thing
    a tab was told, or what it believes if there is no event, is whether somebody
    is logged in (`Views`). `OneLogin` (at most one login under way) and
    `LoginCache` tie the cache to the logins, `Tokens` the tokens to the cache,
    and `NoTwice` says that no tab is told of a login it already believes in, which
    is why only the tab of the login keeps `fresh`.
  - *Presence*: a request of this login belongs to its user and no answer is newer than
    what the server has (`PrRequestsFit`), the first request's promise is pending only while
    the module initializes (`PrPromiseFits`), and what is shown is the user's or about to be
    reset (`PrOwn`).
  - *CallLog*: completeness is about what is on its way. `ClTold`: what a sync has been told
    holds every call that changed before its second answer, but for what its token covers
    and what is still to come; `ClCovers`: data have all that their token covers, those
    shown and those kept in Storage. `ClOneRun`, `ClTokenKept`, `ClAwaited`: a login has one
    sync, the one `_promise` stands for, the token it asks with is still that of the data when it
    ends, and `_init` waits for one that comes. These hold until a sync of an earlier login
    gets into this one (`crossed`).
  - *CallHistory*: the two listeners run after the change, one after the other. What was seen
    active was active when the history last looked, has ended or is logged (`ChSeenFound`);
    before the listeners have run only one thing has changed (`ChOneChange`); what a module
    has looked at, the matchers were asked about (`ChMonitorMatched`, `ChHistoryMatched`).
  - *DataMatcher*: what is asked for is in one place, whose owner is alive: a request under way
    (`DmMatched` ties `matching` to it), or the queue behind one (`DmQueued`); all that no place
    has is known or excused (`DmAllKnown`).
  - *WebphoneConnection*: each status names what stands behind it, a call under way or the
    user agent (`WcConnecting`, `WcConnected`, `WcRetried`), and after a disconnect nothing is left
    that could go on, but for retries (`WcEnded`).
  - *WebphoneSessions*: of the calls that talk and those that will (`WsComing`: answered,
    dialled or about to be resumed) all but one were not held or talk over it (`WsOneTalks`); this
    needs to know what a call may be in the middle of (`WsLife`). The active session is
    the one that talks, the ring session rings, the ended ones are remembered, each in a place
    of its own, as long as there is room.
  - *Calling*: settings are offered for what was seen last (`CaSettingsOffered`), the web phone
    follows the mode from when Call is initialized on (`CaFollower`), and the call under way is
    made from a number that fits the mode unless settings changed meanwhile (`CaCallFits`).
  - *Connection*: a listener that has seen the last `changeCounter` is on the client
    in use (`CoOnClient`), the client is for the server that was chosen unless another
    tab chose it (`CoRightClient`), and what `missed` and `slipped` record never happens
    because requests are made between turns only, when both listeners have caught up.
  - *CallLogger*: the logs of a call form a chain, in which the last one to write has no log after
    it (`CgLogsFit`), so that the record will be that of `CgLastLogged`; a version on its way is
    behind those that come, and what is not logged yet is going to be.
  - *Injector*: each call on the stack is there for the one below (`InChained`), what is pending is on
    the stack or was left (`InPendingKnown`), and what has an instance has no circle (`InAcyclic`), so
    that a circle is found when there is one. A token is on the stack twice only by way of an
    alias (`InRepeats`), which bounds the stack.
* **Workspace_proofs.** In the same way, from `WorkspaceConstants` and `SearchedText` (bounds are
  natural numbers, nobody is nobody and no time, sets are finite, a phone number is no extension,
  what is searched for is not empty): `WorkspaceTypeCorrect`, `ThingsAreLogged` (`ThingsLogged`), `MessagesAreServed` (`MessagesServed`),
  `GlipIsShown` (`GlipShown`), `ContactsAreServed` (`ContactsServed`).
  - *ConversationLogger*: as CallLogger; besides, what is not logged yet is in the
    queue or in a batch that will be processed (`CvAllServed`), and of a thing two versions are
    never processed at once unless one batch had both (`CvApart`).
  - *MessageViews*: `ViewsShowStore` speaks of the moment between turns only. A view that knows the
    time of the store is as the store has it (`MvViewFits`); an answer that comes in time has what
    the store has, or another load of the conversation has it (`MvLoadFits`, `MvRecentFit`: the
    newest of several loads is not the last to be answered); no copy knows a time that is still
    to come (`MvTimed`).
  - *TextSending*: the requests of a send, those made and those that are left, are an order of its
    recipients (`TsAlong`), and in an order each one is as often as it was asked for, the
    extensions first (`TsOrder`; `TsOrderFits` counts, from the bijections of which an order is made). So
    a part of it is what an error leaves, and all of it what a result means.
  - *GlipPosts*: of a post that has not `raced` there is one record, or a notification or a call
    under way that will make it; a call that failed is not the server's (`GpNotRaced`,
    `GpRecordsFit`). *GlipGroups*: whose the data are and those in Storage (`GgOwned`), one fetch of
    this login, the one `_promise` stands for (`GgOneFetch`), and what was not missed is as the
    server has it, or its last version is on its way (`GgHeard`). *GlipPersons*: `fetchingIds` is what the
    requests ask for, each something else (`GeFetching`), and who is wanted is known, asked for or
    next (`GeWantedKnown`).
  - *AddressBook*: what is held of a user is what the server had at its token (`AbGood`), and of a
    sync under way, what it has got is what the server has, unless it changed after the last page
    (`AbRunFits`, `AbGot`), but for what was `overtaken`; what it has yet to get comes with the
    token of its page.
  - *ContactSearch*: every source whose entities are not shown will be asked by a search for the
    latest text, or the one that has asked it last will show what it found (`CsComing`); one that
    shows another text first is still at the first source (`CsStarting`).
  - *AccountContacts*: a call is collected, in one batch, or answered, and there once (`AcOnce`); a
    presence that is not `late` is of this login (`AcPresencesFit`).

Only model-checked: the liveness properties, as fairness and ENABLED are outside the
prover's reach. Of each, what it rests on is proved: that what is to happen is always on its way
(`DeadMainIsFoughtFor`, `TabsAreTold`, `PushesAreNotLost`, `FetchersGetTheirData`,
`RegistrationsCome`; of `Settles`, `FollowersAreSilent`: following a write causes no other). That
it arrives is what TLC checks. Only model-checked is also everything about what recursive functions
compute (induction over data). `RemoveToNumber` of TextSending picks the places that stay by an
increasing function, where the code filters, for that reason.

## 5. Not modelled, and the plan

`PROJECT.json` says for every component why it is not modelled, or what is left
out of it. Formatting, wording and selectors are left out throughout; so are REST
payloads, of which only whose they are matters. What could still be added, in this
order:

1. **CallMonitor's callbacks** and the entity that was dialled (`modules/CallMonitor/index.js:335`):
   a call that ends before a second one is on the screen takes the second one's entity with
   it, and an older call to the same number takes it over. **RecentCalls**, which is
   never reset: the calls of a contact are loaded once, an answer for the last user
   is stored for the next, and a request that fails leaves `callStatus` loading
   (`modules/RecentCalls/getRecentCallsReducer.js:7`); no model tells its users apart, so
   that a property would only repeat this.
2. **MessageStore**: the token of a conversation, the derivation of conversations
   and unread counts as operators against a reference definition.
3. **Compositions**: CallLog below CallHistory, MessageStore below MessageViews, and
   Connection with AuthTabs, whose listeners are rebound when the client changes.
4. **Child injectors** and inherited factories of `lib/di`; **pure operators**: call log and message helpers, number
   helpers, scheduling helpers, against reference definitions over bounded inputs.
5. **Proofs** of what the compositions (3) promise. Of the modules there are, no safety property
   and no action property is left to prove.

Left out for good: the selectors, settings, guides, analytics and language helpers,
which keep a value or compute one; the requests of Meeting and the subclasses of
DataFetcher, which add no state of their own to what Fetcher has; EventTransport,
NamedStorage and MemoryStorage, which nothing in `src/` uses or which are maps; the
demo, the development server and the tests.

## 6. Hazards by component

* Tabs: fights crossing with a claim, crossed change events, death without
  unload, unload order, hidden start without a main tab, a second death during a
  fight, throttled timers.
* Storage: writes crossing events, echo between tabs, timeouts of an earlier
  session, versions without a key's reducer, two first writes to one key.
* Proxy: skipped pushes, pushes older than a sync, answers after their timeout,
  several handlers on one sync, answers before pushes, activation without sync.
* Fetcher: results after the session's end, loss of the main role while others
  wait, two handlers for one error, data and timestamp arriving apart, dead
  promises, `cleanOnReset`.
* Subscription: a lost reset, sleep detection crossing a logout, reordered
  answers, failures during a cancelled logout, renewal errors dropping the
  current object, ends of sessions with everything under way.
* Auth: a page opening while another logs in or out, the token read only when the
  event is handled, logouts and cancellations that cross; excluded from the
  properties: changes of two tabs that overlap, refreshes that end after their
  session, a page opened offline, a failed request for the extension.
* Messages: changes between the pages of a first sync, notifications spent on a
  failed sync; excluded: the messages beyond the limit of a first sync, answers older than the data they are put into (or of an
  earlier session), notifications spent on a sync already answered.
* Connection: a client replaced under its listeners, checks that end late, requests
  that slip through the throttle.
* Calls: notifications and answers in any order over two logins, two syncs of the log,
  a call between presence and log, connections that survive a disconnect, holds that
  fail, settings that change under a call.
* Matching and logging: queues behind failing requests, logs that overlap, versions
  that come while an earlier one is logged, tabs that take over.
* Messages on the screen: changes within one millisecond, answers that come late, loads that
  fail, texts sent to some.
* Glip: a post told three ways, removals and lists that are too short, answers older than what
  was notified, double retries, batches that overlap, logouts under
  all of them.
* Contacts: changes between pages, syncs that fail, searches overtaken, expiry, batches that
  outlive a login.
* Injection: circles through aliases and optional dependencies, a bootstrap after one that
  threw.
