-------------------------------- MODULE GlipGroups --------------------------------
(***************************************************************************)
(* The Glip groups of the user (modules/GlipGroups): a list that is        *)
(* fetched at login, polled or retried (lib/Pollable), kept in Storage,    *)
(* and changed one group at a time by the subscription and by startChat.   *)
(*                                                                         *)
(* An action is one event loop turn; a store listener that has something   *)
(* to do runs before anything else happens (Settled).  The server numbers  *)
(* the changes of all groups; a group is told by the number of its last    *)
(* change, and is 0 for a user who is not in it.  Search, pages, the group *)
(* that is open, and what is asked of GlipPosts and GlipPersons are left   *)
(* out.                                                                    *)
(***************************************************************************)
EXTENDS Naturals, FiniteSets

CONSTANTS
  Owner, NoOne, Group, None,
  MaxLogins,   \* bound
  MaxChanges,  \* bound: changes of the groups
  MaxEvents    \* bound: what fails, is lost or not ready; chats, reloads, tabs that change

VARIABLES
  cached,       \* the options disableCache and Storage
  polling,      \* an option; neither changes
  clock,        \* number of changes
  member,       \* external: the last change of a group of a user
  owner,        \* auth.ownerId; storage is ready with it
  connected,    \* all else the module waits for; the subscription most of all
  active,       \* tabManager.active
  logins, events,
  status,
  data,         \* data with its timestamp, and whose they are
  kept,         \* what Storage has for a user
  fetches,      \* calls of _fetchData under way
  promise,      \* _promise is set
  timer,        \* what _timeoutId is for
  pushed,       \* external: messages of the subscription on their way
  message,      \* subscription.message, if it is not _lastMessage
  chats,        \* calls of startChat under way
  missed,       \* history: groups whose last change was not heard of, or heard of before
                \* something older
  crossed       \* history: something of an earlier login got into this one, or a retry
                \* ended the polling

world == <<cached, polling, clock, member, owner, connected, active, logins, events>>
store == <<data, kept>>
vars == <<world, status, store, fetches, promise, timer, pushed, message, chats, missed, crossed>>

Groups == [Group -> Nat]
Data   == [of : Owner \cup {NoOne}, groups : Groups, timestamp : BOOLEAN]
Blank  == [of |-> NoOne, groups |-> [g \in Group |-> 0], timestamp |-> FALSE]
\* init: an _init awaits it; late: the module has been reset since.
Fetch  == [of : Owner, init : BOOLEAN, late : BOOLEAN, served : BOOLEAN, groups : Groups]
\* A message has the group as it was when it was sent, and so has the answer to startChat.
Message == [group : Group, version : Nat]
Chat    == [of : Owner, group : Group, done : BOOLEAN, version : Nat]

TypeOK ==
  /\ cached \in BOOLEAN /\ polling \in BOOLEAN
  /\ clock \in 1..MaxChanges /\ member \in [Owner -> Groups]
  /\ owner \in Owner \cup {NoOne} /\ connected \in BOOLEAN /\ active \in BOOLEAN
  /\ logins \in 0..MaxLogins /\ events \in 0..MaxEvents
  /\ status \in {"pending", "initializing", "ready"}
  /\ data \in Data /\ kept \in [Owner -> Data]
  /\ fetches \subseteq Fetch /\ promise \in BOOLEAN
  /\ timer \in {"none", "poll", "retry"}
  /\ pushed \subseteq Message /\ message \in Message \cup {None}
  /\ chats \subseteq Chat
  /\ missed \subseteq Group /\ crossed \in BOOLEAN

Init ==
  /\ cached \in BOOLEAN /\ polling \in BOOLEAN
  /\ clock = 1
  /\ member \in [Owner -> [Group -> {0, 1}]]
  /\ owner = NoOne /\ connected = TRUE /\ active = TRUE
  /\ logins = 0 /\ events = 0
  /\ status = "pending"
  /\ data = Blank /\ kept = [o \in Owner |-> Blank]
  /\ fetches = {} /\ promise = FALSE /\ timer = "none"
  /\ pushed = {} /\ message = None
  /\ chats = {} /\ missed = {} /\ crossed = FALSE

Counted == events < MaxEvents /\ events' = events + 1

May == owner # NoOne /\ connected

\* Something of a group comes in: its last version, or an older one.
Missed(o, g, version) == IF version = member[o][g] THEN missed \ {g} ELSE missed \cup {g}

\* The last version is on its way.
Told(g) == [group |-> g, version |-> member[owner][g]] \in pushed \cup {message}

-----------------------------------------------------------------------------
(* Fetching. *)

NewFetch(init) ==
  [of |-> owner, init |-> init, late |-> FALSE, served |-> FALSE, groups |-> Blank.groups]

\* fetchData.
FetchData(init) ==
  IF promise
  THEN /\ fetches' = IF init THEN {[f EXCEPT !.init = @ \/ ~f.late] : f \in fetches} ELSE fetches
       /\ UNCHANGED promise
  ELSE fetches' = fetches \cup {NewFetch(init)} /\ promise' = TRUE

\* The reducers of data and timestamp; Storage saves what they return.
Holds(d) ==
  /\ data' = d
  /\ kept' = IF cached /\ owner # NoOne THEN [kept EXCEPT ![owner] = d] ELSE kept

WithGroup(g, version) == [data EXCEPT !.of = owner, !.groups[g] = version]

-----------------------------------------------------------------------------
(* The store listener. *)

ShouldInit  == May /\ status = "pending"
DataReady   == status = "initializing" /\ data.timestamp
ShouldReset == ~May /\ status = "ready"
ShouldHear  == status = "ready" /\ connected /\ message # None
Settled     == ~(ShouldInit \/ DataReady \/ ShouldReset \/ ShouldHear)

\* _init, up to the await of fetchData.
Initialize ==
  /\ ShouldInit
  /\ status' = "initializing"
  /\ IF active THEN FetchData(TRUE) /\ UNCHANGED timer
     ELSE timer' = (IF polling THEN "poll" ELSE "retry") /\ UNCHANGED <<fetches, promise>>
  /\ UNCHANGED <<world, store, pushed, message, chats, missed, crossed>>

InitSuccess ==
  /\ DataReady
  /\ status' = "ready"
  /\ UNCHANGED <<world, store, fetches, promise, timer, pushed, message, chats, missed, crossed>>

Late(F) == {[f EXCEPT !.late = TRUE] : f \in F}

Reset ==
  /\ ~DataReady /\ ShouldReset
  /\ status' = "pending"
  /\ timer' = "none" /\ promise' = FALSE
  /\ Holds(Blank)
  /\ fetches' = Late(fetches)
  /\ UNCHANGED <<world, pushed, message, chats, missed, crossed>>

\* _processSubscription: updateGroup, or removeGroup when the user has left it.
Hear ==
  /\ ~ShouldReset /\ ShouldHear
  /\ message' = None
  /\ Holds(WithGroup(message.group, message.version))
  /\ missed' = Missed(owner, message.group, message.version)
  /\ UNCHANGED <<world, status, fetches, promise, timer, pushed, chats, crossed>>

-----------------------------------------------------------------------------
(* The server. *)

\* A group changes, is joined or left; the subscription says so, or does not.
Change(o, g) ==
  /\ Settled /\ clock < MaxChanges
  /\ clock' = clock + 1
  /\ \E v \in {0, clock + 1} :
       /\ member' = [member EXCEPT ![o][g] = v]
       /\ IF o # owner THEN UNCHANGED <<pushed, missed, events>>
          ELSE \/ /\ connected
                  /\ pushed' = pushed \cup {[group |-> g, version |-> v]}
                  /\ UNCHANGED <<missed, events>>
               \/ missed' = missed \cup {g} /\ Counted /\ UNCHANGED pushed
  /\ UNCHANGED <<cached, polling, owner, connected, active, logins, status, store, fetches,
                 promise, timer, message, chats, crossed>>

\* In any order.  A message that comes before the last one was taken hides it.
Push(n) ==
  /\ Settled
  /\ pushed' = pushed \ {n}
  /\ message' = n
  /\ missed' = IF message = None THEN missed ELSE missed \cup {message.group}
  /\ UNCHANGED <<world, status, store, fetches, promise, timer, chats, crossed>>

Serve(f) ==
  /\ Settled /\ ~f.served
  /\ fetches' = (fetches \ {f}) \cup {[f EXCEPT !.served = TRUE, !.groups = member[f.of]]}
  /\ UNCHANGED <<world, status, store, promise, timer, pushed, message, chats, missed, crossed>>

-----------------------------------------------------------------------------
(* Answers. *)

SameOwner_Unchecked(f) == owner # NoOne
SameOwner(f) == f.of = owner

\* fetchSuccess.
Answer(f) ==
  /\ Settled /\ f.served
  /\ fetches' = fetches \ {f}
  /\ IF SameOwner(f)
     THEN /\ Holds([of |-> f.of, groups |-> f.groups, timestamp |-> TRUE])
          /\ promise' = FALSE
          /\ timer' = IF polling THEN "poll" ELSE timer
          /\ missed' = {g \in Group : f.groups[g] # member[owner][g] /\ ~Told(g)}
     ELSE UNCHANGED <<data, kept, promise, timer, missed>>
  /\ crossed' = (crossed \/ (f.late /\ f.of = owner))
  /\ UNCHANGED <<world, status, pushed, message, chats>>

AfterFailure_None(f) == timer
\* _fetchData sets a timeout, and so does _init.
AfterFailure(f) == IF f.init \/ ~polling THEN "retry" ELSE "poll"

Fail(f) ==
  /\ Settled /\ Counted
  /\ fetches' = fetches \ {f}
  /\ IF SameOwner(f) THEN promise' = FALSE /\ timer' = AfterFailure(f)
     ELSE UNCHANGED <<promise, timer>>
  /\ crossed' = (crossed \/ (f.late /\ f.of = owner))
  /\ UNCHANGED <<cached, polling, clock, member, owner, connected, active, logins, status, store,
                 pushed, message, chats, missed>>

\* The timeout of _startPolling or _retry.  The data may be older than ttl or not; if not,
\* a retry ends, and with it the polling it took the timeout of (see AfterFailure).
TimerFires ==
  /\ Settled /\ timer # "none" /\ owner # NoOne
  /\ \/ /\ active
        /\ timer' = "none"
        /\ FetchData(FALSE)
        /\ UNCHANGED crossed
     \/ /\ timer = "retry" /\ data.timestamp
        /\ timer' = "none"
        /\ crossed' = (crossed \/ polling)
        /\ UNCHANGED <<fetches, promise>>
  /\ UNCHANGED <<world, status, store, pushed, message, chats, missed>>

-----------------------------------------------------------------------------
(* The user. *)

StartChat(g) ==
  /\ Settled /\ status = "ready" /\ Counted
  /\ chats' = chats \cup {[of |-> owner, group |-> g, done |-> FALSE, version |-> 0]}
  /\ UNCHANGED <<cached, polling, clock, member, owner, connected, active, logins, status, store,
                 fetches, promise, timer, pushed, message, missed, crossed>>

\* The server makes the group, or has it.
ServeChat(c) ==
  /\ Settled /\ ~c.done
  /\ IF member[c.of][c.group] # 0 THEN UNCHANGED <<clock, member, missed>>
     ELSE /\ clock < MaxChanges
          /\ clock' = clock + 1
          /\ member' = [member EXCEPT ![c.of][c.group] = clock + 1]
          /\ missed' = IF c.of = owner THEN missed \cup {c.group} ELSE missed
  /\ chats' = (chats \ {c}) \cup {[of |-> c.of, group |-> c.group, done |-> TRUE,
                                   version |-> member'[c.of][c.group]]}
  /\ UNCHANGED <<cached, polling, owner, connected, active, logins, events, status, store,
                 fetches, promise, timer, pushed, message, crossed>>

\* Its answer is put in the list, whoever is there now.
ChatStarted(c) ==
  /\ Settled /\ c.done
  /\ chats' = chats \ {c}
  /\ Holds([WithGroup(c.group, c.version) EXCEPT !.of = c.of])
  /\ missed' = Missed(c.of, c.group, c.version)
  /\ crossed' = (crossed \/ c.of # owner \/ status # "ready")
  /\ UNCHANGED <<world, status, fetches, promise, timer, pushed, message>>

-----------------------------------------------------------------------------
(* Logins, tabs, reloads. *)

Login(o) ==
  /\ Settled /\ owner = NoOne /\ logins < MaxLogins
  /\ owner' = o /\ logins' = logins + 1
  /\ data' = IF cached THEN kept[o] ELSE data
  /\ missed' = Group
  /\ UNCHANGED <<cached, polling, clock, member, connected, active, events, status, kept,
                 fetches, promise, timer, pushed, message, chats, crossed>>

\* A module that is initializing is not reset.
Logout ==
  /\ Settled /\ owner # NoOne
  /\ owner' = NoOne
  /\ pushed' = {} /\ message' = None
  /\ data' = IF cached THEN Blank ELSE data
  /\ fetches' = Late(fetches)
  /\ crossed' = (crossed \/ status = "initializing")
  /\ UNCHANGED <<cached, polling, clock, member, connected, active, logins, events, status, kept,
                 promise, timer, chats, missed>>

\* The subscription, or another tab.  The bound is for what is lost, not for its coming back.
Turn ==
  /\ Settled
  /\ \/ /\ IF connected THEN Counted ELSE UNCHANGED events
        /\ connected' = ~connected
        /\ pushed' = {} /\ message' = None
        /\ missed' = IF connected THEN Group ELSE missed
        /\ UNCHANGED active
     \/ /\ IF active THEN Counted ELSE UNCHANGED events
        /\ active' = ~active
        /\ UNCHANGED <<connected, pushed, message, missed>>
  /\ UNCHANGED <<cached, polling, clock, member, owner, logins, status, store, fetches, promise,
                 timer, chats, crossed>>

Reload ==
  /\ Settled /\ owner # NoOne /\ Counted
  /\ status' = "pending"
  /\ data' = kept[owner]
  /\ fetches' = {} /\ promise' = FALSE /\ timer' = "none" /\ pushed' = {} /\ message' = None
  /\ chats' = {}
  /\ missed' = Group
  /\ UNCHANGED <<cached, polling, clock, member, owner, connected, active, logins, kept, crossed>>

Next ==
  \/ Initialize \/ InitSuccess \/ Reset \/ Hear
  \/ \E o \in Owner : Login(o) \/ \E g \in Group : Change(o, g)
  \/ \E n \in pushed : Push(n)
  \/ \E f \in fetches : Serve(f) \/ Answer(f) \/ Fail(f)
  \/ TimerFires
  \/ \E g \in Group : StartChat(g)
  \/ \E c \in chats : ServeChat(c) \/ ChatStarted(c)
  \/ Logout \/ Turn \/ Reload

Spec == Init /\ [][Next]_vars

-----------------------------------------------------------------------------
(* The list is that of the user, and as the server has it but for what was missed and   *)
(* what is on its way; a module that waits for data has a request or a timeout to wait   *)
(* for, one that polls keeps at it; and no two requests of a login are under way.        *)
GroupsServed ==
  Settled /\ ~crossed =>
    /\ data.of \in {owner, NoOne}
    /\ status = "ready" =>
         \A g \in Group \ missed : data.groups[g] = member[owner][g] \/ Told(g)
    /\ owner # NoOne /\ (status = "initializing" \/ (status = "ready" /\ polling)) =>
         fetches # {} \/ timer # "none"
    /\ \A f, h \in fetches : ~f.late /\ ~h.late => f = h
=============================================================================
