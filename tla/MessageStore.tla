---------------------------- MODULE MessageStore ----------------------------
(***************************************************************************)
(* The copy of the user's messages that the tabs of one browser keep       *)
(* (modules/MessageStore).  A sync asks the server for everything (fSync,  *)
(* in pages) or for what changed since a sync token (iSync); notifications *)
(* of the server start one, and there is at most one at a time in a tab.   *)
(* Calls that mark, delete or send a message put the server's answer into  *)
(* the copy without a sync.  With Storage the tabs share the copy and only *)
(* the main tab syncs; without it each tab has its own.                    *)
(*                                                                         *)
(* One action is one event loop turn of one tab, or a step of the server.  *)
(* The server numbers the changes of its messages; a sync token is the     *)
(* number of the first change it does not cover, 0 if there is none.       *)
(***************************************************************************)
EXTENDS Integers, FiniteSets

CONSTANTS
  Tab, Message,
  Of,          \* the conversation of a message
  All, None,
  Polling,     \* an option
  BatchSize,   \* UPDATE_MESSAGE_ONCE_COUNT
  MaxChanges,  \* bound: changes the server makes by itself
  MaxSessions, \* bound: logins
  MaxCalls,    \* bound: calls of the user
  MaxEvents    \* bound: all other bounded events

Conversation == {Of[m] : m \in Message}

ASSUME MessageStoreAssumption ==
  /\ DOMAIN Of = Message /\ All \notin Conversation
  /\ Polling \in BOOLEAN
  /\ BatchSize \in Nat \ {0}

VARIABLES
  cached,     \* another option, to keep the data in Storage; it never changes
  server,     \* the last change of every message
  clock,      \* number of changes
  loggedIn,   \* auth.loggedIn
  main,       \* the tab whose tabManager.active holds
  cell,       \* the item messageStore of the user in Storage
  copy,       \* the data of a tab
  stale,      \* tabs that have not followed the last write to the cell
  status,     \* state.status
  sync,       \* the sync _promise stands for
  call,       \* a call of readMessages, unreadMessage, deleteMessage or a message sent
  timer,      \* tabs whose _timeoutId is set, by _startPolling or _retry
  registered, \* tabs that get the notifications
  news,       \* the last change a notification on its way to a tab is about, or 0
  unheard,    \* subscription.message if it is not _lastSubscriptionMessage, else 0
  missed,     \* history: changes no notification will bring, see NothingMissed
  raced,      \* history: an answer came too late, see Overtaken
  count       \* how often the bounded events happened

tabs  == <<copy, stale, status, sync, call, timer>>
heard == <<registered, news, unheard>>
vars  == <<cached, server, clock, loggedIn, main, cell, tabs, heard, missed,
           raced, count>>

\* What happens a bounded number of times: changes by others; logins; calls of the user;
\* and events: logouts, conversation syncs and reconnections, requests that fail, moves of
\* the main tab, pages loaded anew.
Kind == {"change", "login", "call", "event"}

State   == {"none", "read", "unread", "deleted"}
Version == [at : Nat, state : State]      \* a message after change number at
Nothing == [at |-> 0, state |-> "none"]
\* cut: history, the changes that the fSync of these data left out at its limit.
Data    == [known : [Message -> Version], token : Nat, cut : SUBSET Nat]
Blank   == [known |-> [m \in Message |-> Nothing], token |-> 0, cut |-> {}]
\* of: the conversation to sync, or All; left: messages of the pages still to come;
\* till: the token of the answer, 0 before the first page; cut: as in the data.
Sync    == [of : Conversation \cup {All}, from : Nat, left : SUBSET Message,
            got : [Message -> Version], till : Nat, cut : SUBSET Nat, done : BOOLEAN]
\* kept: results that are not dropped yet.
Call    == [op : {"read", "unread", "deleted"}, todo : SUBSET Message,
            got : [Message -> Version], kept : Nat]

ASSUME NoneAssumption == None \notin Sync

TypeOK ==
  /\ cached \in BOOLEAN
  /\ server \in [Message -> Version]
  /\ clock \in Nat
  /\ loggedIn \in BOOLEAN
  /\ main \in Tab
  /\ cell \in Data
  /\ copy \in [Tab -> Data]
  /\ stale \subseteq Tab
  /\ status \in [Tab -> {"pending", "initializing", "ready"}]
  /\ sync \in [Tab -> Sync \cup {None}]
  /\ call \in [Tab -> Call \cup {None}]
  /\ timer \subseteq Tab
  /\ registered \subseteq Tab
  /\ news \in [Tab -> Nat]
  /\ unheard \in [Tab -> Nat]
  /\ missed \subseteq Nat
  /\ raced \in BOOLEAN
  /\ count \in [Kind -> Nat]

Init ==
  /\ cached \in BOOLEAN
  /\ server = [m \in Message |-> Nothing]
  /\ clock = 0
  /\ loggedIn = FALSE
  /\ main \in Tab
  /\ cell = Blank
  /\ copy = [t \in Tab |-> Blank]
  /\ stale = {}
  /\ status = [t \in Tab |-> "pending"]
  /\ sync = [t \in Tab |-> None]
  /\ call = [t \in Tab |-> None]
  /\ timer = {}
  /\ registered = {}
  /\ news = [t \in Tab |-> 0]
  /\ unheard = [t \in Tab |-> 0]
  /\ missed = {}
  /\ raced = FALSE
  /\ count = [k \in Kind |-> 0]

Bound == [change |-> MaxChanges, login |-> MaxSessions,
          call |-> MaxCalls, event |-> MaxEvents]

Counted(k) == count[k] < Bound[k] /\ count' = [count EXCEPT ![k] = @ + 1]

\* Tabs that do not keep their data in Storage have nothing in common: one will do.
Open == IF cached THEN Tab ELSE {main}

-----------------------------------------------------------------------------
(* The server. *)

\* Message m becomes s: change number clock + 1, announced to the tabs whose
\* subscription is there.
Become(m, s) ==
  /\ clock' = clock + 1
  /\ server' = [server EXCEPT ![m] = [at |-> clock + 1, state |-> s]]
  /\ news' = [t \in Tab |-> IF t \in registered THEN clock + 1 ELSE news[t]]
  /\ missed' = (missed \ {server[m].at})
                 \cup (IF registered = Open THEN {} ELSE {clock + 1})

\* Somebody sends a message, or the user reads or deletes one elsewhere.
Change(m) ==
  /\ \E s \in State \ {"none", server[m].state} :
       /\ server[m].state = "none" => s = "unread"
       /\ server[m].state # "deleted"
       /\ Become(m, s)
  /\ Counted("change")
  /\ UNCHANGED <<loggedIn, main, cell, tabs, registered, unheard, raced>>

\* What a deleted message leaves in the data.
Shown(v) == IF v.state = "deleted" THEN Nothing ELSE v

Exists(m) == server[m].state \notin {"none", "deleted"}

-----------------------------------------------------------------------------
(* The data. *)

\* pushRecordsToMessageData.
Push(known, got) ==
  [m \in Message |-> IF got[m] = Nothing THEN known[m] ELSE Shown(got[m])]

\* syncSuccess and syncConversationSuccess; updateMessages and removeMessage.  (The token
\* of a conversation is left out: SyncConversation takes any.)
Synced(d, s) ==
  [known |-> Push(d.known, s.got),
   token |-> IF s.of = All THEN s.till ELSE d.token,
   cut   |-> IF s.of = All /\ s.from = 0 THEN s.cut ELSE d.cut]

Updated(d, got) == [d EXCEPT !.known = Push(@, got)]

\* The store of tab t has new data: Storage saves them while somebody is logged in,
\* and the other tabs will read them.
Write(t, d) ==
  /\ copy' = [copy EXCEPT ![t] = d]
  /\ IF cached /\ loggedIn
     THEN /\ cell' = d
          /\ stale' = stale \cup (Tab \ {t})
     ELSE UNCHANGED <<cell, stale>>

\* An fSync is under way; it removes nothing from what turns up meanwhile.
Filling(t) == sync[t] # None /\ sync[t].of = All /\ sync[t].from = 0

\* Some messages, the versions got, are put into the data of tab t, though the data
\* know something newer already or are not synced yet.
Late(t, got) ==
  \/ copy[t].token = 0 \/ Filling(t)
  \/ \E m \in Message : got[m] # Nothing /\ got[m].at < server[m].at
                           /\ server[m].at < copy[t].token

\* The answer of a sync comes for data that (an iSync) no longer hold what it builds on.
Overtaken(t) ==
  IF sync[t].of = All THEN copy[t].token < sync[t].from ELSE Late(t, sync[t].got)

-----------------------------------------------------------------------------
(* Syncs. *)

\* _sync: a sync of conversation c or of All, unless there is one.
Request(of, from) ==
  [of |-> of, from |-> from,
   left |-> IF from = 0 THEN Message ELSE {},
   got |-> [m \in Message |-> Nothing], till |-> 0, cut |-> {}, done |-> FALSE]

StartSync(t, of, from) ==
  sync' = IF sync[t] = None THEN [sync EXCEPT ![t] = Request(of, from)] ELSE sync

\* The server answers an iSync.
AnswerChanges(t) ==
  LET s == sync[t] IN
  /\ s # None /\ ~s.done /\ s.from > 0 /\ loggedIn
  /\ sync' = [sync EXCEPT ![t] = [s EXCEPT
       !.got = [m \in Message |-> IF server[m].at >= s.from THEN server[m] ELSE Nothing],
       !.till = clock + 1, !.done = TRUE]]
  /\ UNCHANGED <<server, clock, loggedIn, main, cell, copy, stale, status, call, timer,
                 heard, missed, raced, count>>

PageToken_Last(s) == clock + 1
\* syncInfo is that of the first page.
PageToken(s) == IF s.till = 0 THEN clock + 1 ELSE s.till

\* The changes below the token of sync s that the server has in messages ms.
Below(s, ms) == {server[m].at : m \in {x \in ms : Exists(x) /\ server[x].at < PageToken(s)}}

\* The server sends a page of an fSync; if it says that there are older records the
\* tab asks for the next one, unless it has got more than MAX_MSG_LENGTH by now: any page
\* may be that long, for the user has more messages than those modelled.
AnswerPage(t) ==
  LET s == sync[t] IN
  /\ s # None /\ ~s.done /\ s.from = 0 /\ loggedIn
  /\ \E page \in (SUBSET s.left) \ {{}} : \E next \in {{}, s.left \ page} :
       sync' = [sync EXCEPT ![t] = [s EXCEPT
         !.got = [m \in Message |-> IF m \in page /\ Exists(m) THEN server[m] ELSE @[m]],
         !.till = PageToken(s),
         !.left = next,
         !.cut = Below(s, (s.left \ page) \ next),
         !.done = next = {}]]
  /\ UNCHANGED <<server, clock, loggedIn, main, cell, copy, stale, status, call, timer,
                 heard, missed, raced, count>>

\* A tab that awaits the sync in _initMessageStore turns ready; if the user has left
\* it resets in the same turn.
Awaiting(t) == status[t] = "initializing"
EndInit(t) ==
  status' = IF Awaiting(t)
            THEN [status EXCEPT ![t] = IF loggedIn THEN "ready" ELSE "pending"]
            ELSE status

\* The data after a sync; those of a tab that resets are gone.
After(t, d) == IF Awaiting(t) /\ ~loggedIn THEN Blank ELSE d

SyncDone(t) ==
  LET s == sync[t] IN
  /\ s # None /\ s.done
  /\ Write(t, After(t, Synced(copy[t], s)))
  /\ sync' = [sync EXCEPT ![t] = None]
  /\ timer' = IF Polling /\ s.of = All THEN timer \cup {t} ELSE timer
  /\ EndInit(t)
  /\ raced' = (raced \/ Overtaken(t))
  /\ UNCHANGED <<server, clock, loggedIn, main, call, heard, missed, count>>

RetryAfter_Never(s, t) == timer
\* Pollable: the timeout set after an error.
RetryAfter(s, t) == IF s.of = All THEN timer \cup {t} ELSE timer

\* A request fails, of necessity when nobody is logged in.
SyncFails(t) ==
  LET s == sync[t] IN
  /\ s # None
  /\ IF loggedIn THEN Counted("event") ELSE UNCHANGED count
  /\ copy' = [copy EXCEPT ![t] = After(t, @)]
  /\ sync' = [sync EXCEPT ![t] = None]
  /\ timer' = RetryAfter(s, t)
  /\ EndInit(t)
  /\ UNCHANGED <<server, clock, loggedIn, main, cell, stale, call, heard, missed, raced>>

-----------------------------------------------------------------------------
(* What starts a sync. *)

\* _initMessageStore and the handlers of tabs that share the data leave syncs to the
\* main tab.
Attends(t) == ~cached \/ t = main

\* _subscriptionHandler: the store listener finds a message it has not heard.
MustHear(t) == unheard[t] # 0 /\ status[t] = "ready" /\ Attends(t)

\* The changes the running sync of t will not bring, though their notification is spent.
Swallowed(t) ==
  IF sync[t] = None THEN {}
  ELSE {i \in 1..unheard[t] :
          \/ sync[t].of # All
          \/ sync[t].till # 0 /\ i >= sync[t].till}

Hear(t) ==
  /\ MustHear(t)
  /\ unheard' = [unheard EXCEPT ![t] = 0]
  /\ missed' = missed \cup Swallowed(t)
  /\ StartSync(t, All, copy[t].token)
  /\ UNCHANGED <<server, clock, loggedIn, main, cell, copy, stale, status, call, timer,
                 registered, news, raced, count>>

\* The subscription brings a message.
Deliver(t) ==
  /\ news[t] # 0
  /\ news' = [news EXCEPT ![t] = 0]
  /\ unheard' = [unheard EXCEPT ![t] = news[t]]
  /\ UNCHANGED <<server, clock, loggedIn, main, cell, tabs, registered, missed, raced,
                 count>>

\* The timeout of _startPolling or _retry: getter timestamp is always undefined, so an
\* active tab syncs; the others set the timeout again, and so does a sync that fails
\* at once because nobody is logged in.
TimerFires(t) ==
  /\ t \in timer /\ t = main /\ loggedIn
  /\ timer' = timer \ {t}
  /\ StartSync(t, All, copy[t].token)
  /\ missed' = IF sync[t] # None /\ sync[t].of # All THEN missed \cup 1..clock ELSE missed
  /\ UNCHANGED <<server, clock, loggedIn, main, cell, copy, stale, status, call, heard,
                 raced, count>>

\* _checkConnectivity finds the connection restored, or fetchData is called.
Reconnect(t) ==
  /\ status[t] = "ready"
  /\ Counted("event")
  /\ StartSync(t, All, copy[t].token)
  /\ UNCHANGED <<server, clock, loggedIn, main, cell, copy, stale, status, call, timer,
                 heard, missed, raced>>

HasConversation(t, c) == \E m \in Message : Of[m] = c /\ copy[t].known[m] # Nothing

SyncConversation(t, c) == \E token \in {0, copy[t].token} :
  /\ status[t] = "ready" /\ HasConversation(t, c)
  /\ Counted("event")
  /\ StartSync(t, c, token)
  /\ UNCHANGED <<server, clock, loggedIn, main, cell, copy, stale, status, call, timer,
                 heard, missed, raced>>

-----------------------------------------------------------------------------
(* Calls of the user. *)

StartCall(t, op, todo) ==
  /\ call[t] = None /\ status[t] = "ready"
  /\ Counted("call")
  /\ call' = [call EXCEPT ![t] =
       [op |-> op, todo |-> todo,
        got |-> [m \in Message |-> Nothing], kept |-> 0]]
  /\ UNCHANGED <<server, clock, loggedIn, main, cell, copy, stale, status, sync, timer,
                 heard, missed, raced>>

Unread(t, c) == {m \in Message : Of[m] = c /\ copy[t].known[m].state = "unread"}

ReadMessages(t, c) == Unread(t, c) # {} /\ StartCall(t, "read", Unread(t, c))
UnreadMessage(t, m) == copy[t].known[m] # Nothing /\ StartCall(t, "unread", {m})
DeleteMessage(t, m) == copy[t].known[m] # Nothing /\ StartCall(t, "deleted", {m})

\* MessageSender has sent a message; Conversation pushes the answer.
Send(t, m) ==
  /\ server[m] = Nothing
  /\ StartCall(t, "read", {m})

\* The server handles one message of a call.  Of several batches of messages to update
\* only the answer to the first is kept (results.concat changes nothing).
Kept(c, m) == IF c.kept < BatchSize THEN [c.got EXCEPT ![m] = [at |-> clock + 1, state |-> c.op]]
              ELSE c.got

Perform(t) ==
  LET c == call[t] IN
  /\ c # None
  /\ \E m \in c.todo :
       IF server[m].state = "deleted"
       THEN /\ call' = [call EXCEPT ![t] = [c EXCEPT !.todo = @ \ {m}]]
            /\ UNCHANGED <<server, clock, news, missed>>
       ELSE /\ call' = [call EXCEPT ![t] =
                 [c EXCEPT !.todo = @ \ {m}, !.got = Kept(c, m), !.kept = @ + 1]]
            /\ Become(m, c.op)
  /\ UNCHANGED <<loggedIn, main, cell, copy, stale, status, sync, timer, registered,
                 unheard, raced, count>>

\* The answer, put into the data whatever they are by now.
CallDone(t) ==
  LET c == call[t] IN
  /\ c # None /\ c.todo = {}
  /\ call' = [call EXCEPT ![t] = None]
  /\ Write(t, Updated(copy[t], c.got))
  /\ raced' = (raced \/ Late(t, c.got))
  /\ UNCHANGED <<server, clock, loggedIn, main, status, sync, timer, heard, missed, count>>

\* A request of the call fails: the answers to those before are not used.
CallFails(t) ==
  /\ call[t] # None
  /\ Counted("event")
  /\ call' = [call EXCEPT ![t] = None]
  /\ UNCHANGED <<server, clock, loggedIn, main, cell, copy, stale, status, sync, timer,
                 heard, missed, raced>>

-----------------------------------------------------------------------------
(* The life of a tab. *)

\* The modules MessageStore depends on are ready.  The data are dropped after a login
\* in this tab or when they are old.
Initialize(t) == \E drop \in BOOLEAN :
  LET data == IF drop THEN Blank ELSE copy[t] IN
  /\ loggedIn /\ status[t] = "pending"
  /\ IF data # copy[t] THEN Write(t, Blank) ELSE UNCHANGED <<cell, copy, stale>>
  /\ IF Attends(t)
     THEN /\ status' = [status EXCEPT ![t] = "initializing"]
          /\ StartSync(t, All, data.token)
          /\ UNCHANGED timer
     ELSE /\ status' = [status EXCEPT ![t] = "ready"]
          /\ timer' = IF Polling THEN timer \cup {t} ELSE timer
          /\ UNCHANGED sync
  /\ UNCHANGED <<server, clock, loggedIn, main, call, heard, missed, raced, count>>

\* subscription.subscribe has reached the server.
Register(t) ==
  /\ status[t] = "ready" /\ t \notin registered
  /\ registered' = registered \cup {t}
  /\ UNCHANGED <<server, clock, loggedIn, main, cell, tabs, news, unheard, missed, raced,
                 count>>

\* Storage follows the write of another tab.  What that one did not know this tab does
\* not know any more.
Forgotten(t) ==
  {i \in 1..clock : cell.token <= i /\ i < copy[t].token}

Follow(t) ==
  /\ t \in stale
  /\ stale' = stale \ {t}
  /\ copy' = [copy EXCEPT ![t] = cell]
  /\ missed' = missed \cup Forgotten(t)
  /\ raced' = (raced \/ (Filling(t) /\ cell.known # Blank.known))
  /\ UNCHANGED <<server, clock, loggedIn, main, cell, status, sync, call, timer, heard,
                 count>>

\* A tab that has nothing to wait for.
Idle(t) == status[t] = "ready" /\ sync[t] = None /\ t \notin timer \cup stale
           /\ unheard[t] = 0 /\ news[t] = 0

\* The changes that tab t lacks when it becomes the main tab without a sync of its own:
\* those the main tab before still had to bring, or t to read.
Deserted(t) ==
  IF status[t] = "ready" /\ ~(Idle(main) /\ t \notin stale) THEN copy[t].token..clock ELSE {}

MainMoves(t) ==
  /\ cached /\ t # main
  /\ Counted("event")
  /\ main' = t
  /\ missed' = missed \cup Deserted(t)
  /\ UNCHANGED <<server, clock, loggedIn, cell, tabs, heard, raced>>

\* Storage reads the item of the user.
Login ==
  /\ ~loggedIn
  /\ Counted("login")
  /\ loggedIn' = TRUE
  /\ copy' = IF cached THEN [t \in Tab |-> cell] ELSE copy
  /\ UNCHANGED <<server, clock, main, cell, stale, status, sync, call, timer, heard, missed,
                 raced>>

\* resetSuccess in the tabs that are ready, saved before Storage resets; Subscription
\* forgets its message.
Leaving == {t \in Tab : status[t] = "ready"}

Dropped_Gone == [t \in Tab |-> IF cached \/ t \in Leaving THEN None ELSE copy[t]]
Dropped == [t \in Tab |-> IF cached \/ t \in Leaving THEN Blank ELSE copy[t]]

Logout ==
  /\ loggedIn
  /\ Counted("event")
  /\ loggedIn' = FALSE
  /\ status' = [t \in Tab |-> IF t \in Leaving THEN "pending" ELSE status[t]]
  /\ copy' = Dropped
  /\ cell' = IF cached /\ Leaving # {} THEN Blank ELSE cell
  /\ stale' = {}
  /\ registered' = {}
  /\ news' = [t \in Tab |-> 0]
  /\ unheard' = [t \in Tab |-> 0]
  /\ raced' = (raced \/ \E t \in Tab : sync[t] # None \/ call[t] # None)
  /\ UNCHANGED <<server, clock, main, sync, call, timer, missed>>

Reload(t) ==
  /\ status[t] # "pending"
  /\ Counted("event")
  /\ status' = [status EXCEPT ![t] = "pending"]
  /\ copy' = [copy EXCEPT ![t] = IF cached /\ loggedIn THEN cell ELSE Blank]
  /\ stale' = stale \ {t}
  /\ sync' = [sync EXCEPT ![t] = None]
  /\ call' = [call EXCEPT ![t] = None]
  /\ timer' = timer \ {t}
  /\ registered' = registered \ {t}
  /\ news' = [news EXCEPT ![t] = 0]
  /\ unheard' = [unheard EXCEPT ![t] = 0]
  /\ UNCHANGED <<server, clock, loggedIn, main, cell, missed, raced>>

Step(t) ==
  \/ AnswerChanges(t) \/ AnswerPage(t) \/ SyncDone(t) \/ SyncFails(t)
  \/ Deliver(t) \/ TimerFires(t) \/ Reconnect(t)
  \/ \E c \in Conversation : SyncConversation(t, c) \/ ReadMessages(t, c)
  \/ \E m \in Message : UnreadMessage(t, m) \/ DeleteMessage(t, m) \/ Send(t, m)
  \/ Perform(t) \/ CallDone(t) \/ CallFails(t)
  \/ Initialize(t) \/ Register(t) \/ Follow(t) \/ MainMoves(t) \/ Reload(t)

Next ==
  /\ UNCHANGED cached
  /\ \/ \E t \in Open : Hear(t) \/ (~MustHear(t) /\ Step(t))
     \/ \E m \in Message : Change(m)
     \/ Login \/ Logout

Spec == Init /\ [][Next]_vars

-----------------------------------------------------------------------------
(* Properties. *)

\* Data d hold every change that their token claims, but for those left out at the limit.
Sound(d) == \A m \in Message :
  server[m].at < d.token => d.known[m] = Shown(server[m]) \/ server[m].at \in d.cut

\* What a tab shows is complete up to its sync token: an iSync brings only later
\* changes, so one that is missing below the token would never turn up (the token and
\* the records of a sync, messages pushed, deletions and the data of the other tabs must
\* always go together).  An fSync that stops at MAX_MSG_LENGTH does lose the older messages
\* in that way: these changes, and no others, are in cut.
NothingLostForGood == ~raced => \A t \in Tab : Sound(copy[t])

\* A tab that is responsible for the data and waits for nothing shows what the server has,
\* but for the changes that its fSync left out at the limit, whose notification was spent
\* on a sync already answered, that were not announced to every tab, that another tab
\* overwrote, or that the main tab before had yet to bring.
NothingMissed ==
  ~raced => \A t \in Tab : Attends(t) /\ Idle(t) =>
    \A m \in Message :
      copy[t].known[m] # Shown(server[m]) => server[m].at \in missed \cup copy[t].cut
=============================================================================
