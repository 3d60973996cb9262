------------------------------ MODULE MessageViews ------------------------------
(***************************************************************************)
(* What the screen shows of the message store: the conversation that is    *)
(* open (modules/Conversation) and the recent messages of contacts         *)
(* (modules/RecentMessages).  Both keep a copy and take a new one when the *)
(* time the store says it was updated at is not the one they know.  The    *)
(* store (see MessageStore) is the environment's; the messages of a        *)
(* contact are those of one conversation, and are told by their version.   *)
(*                                                                         *)
(* An action is one event loop turn; the store listeners run before        *)
(* anything else happens (Settled).                                        *)
(***************************************************************************)
EXTENDS Integers, FiniteSets

CONSTANTS
  Conversation, None,
  MaxMessages,  \* bound: messages that come, replies, deletions
  MaxEvents     \* bound: what fails, what is opened, closed and asked for, logouts

VARIABLES
  ready,             \* messageStore, and all else both modules wait for
  version,           \* the messages of a conversation, 0 if there is none
  unread,            \* the version in which the last unread message came, 0 if all are read
  updatedTimestamp,  \* of the store, in milliseconds
  clock,
  view,              \* the state of Conversation
  reads,             \* calls of readMessages under way
  replies,           \* conversations replyToReceivers is under way in
  recent,            \* messages of RecentMessages, with its contacts
  loads,             \* calls of getMessages under way
  prevTimestamp,     \* _prevMessageStoreTimestamp
  missed,            \* history: changes a copy cannot know of
  messages, events

store == <<ready, version, unread, updatedTimestamp, clock>>
conversation == <<view, reads, replies>>
recents == <<recent, loads, prevTimestamp>>
vars == <<store, conversation, recents, missed, messages, events>>

Copy == [of : Conversation, version : Nat]
Load == [of : Conversation, version : Nat, late : BOOLEAN]

TypeOK ==
  /\ ready \in BOOLEAN
  /\ version \in [Conversation -> Nat] /\ unread \in [Conversation -> Nat]
  /\ updatedTimestamp \in Nat \cup {None} /\ clock \in Nat
  /\ view \in [ready : BOOLEAN, id : Conversation \cup {None}, version : Nat,
               at : Nat \cup {None}]
  /\ reads \subseteq Copy /\ replies \subseteq Conversation
  /\ recent \in [Conversation -> Nat \cup {None}] /\ loads \subseteq Load
  /\ prevTimestamp \in Nat \cup {None}
  /\ missed \subseteq {"view", "read", "recent"} \X Conversation
  /\ messages \in 0..MaxMessages /\ events \in 0..MaxEvents

Init ==
  /\ ready = FALSE
  /\ version = [c \in Conversation |-> 0] /\ unread = [c \in Conversation |-> 0]
  /\ updatedTimestamp = None /\ clock = 1
  /\ view = [ready |-> FALSE, id |-> None, version |-> 0, at |-> None]
  /\ reads = {} /\ replies = {}
  /\ recent = [c \in Conversation |-> None] /\ loads = {}
  /\ prevTimestamp = None
  /\ missed = {} /\ messages = 0 /\ events = 0

Counted == events < MaxEvents /\ events' = events + 1

-----------------------------------------------------------------------------
(* The listeners. *)

Contacts == {c \in Conversation : recent[c] # None}

ViewTurns == view.ready # ready
\* _shouldReloadConversation; with one the store does not have it comes to nothing.
ShouldReload ==
  /\ view.ready /\ ready /\ view.id # None /\ view.at # updatedTimestamp
  /\ version[view.id] # 0
ShouldLoad == Contacts # {} /\ updatedTimestamp # prevTimestamp

Settled == ~(ViewTurns \/ ShouldReload \/ ShouldLoad)

Unread_None(c) == {}
\* What readMessages asks the server to mark.
Unread(c) == IF version[c] = 0 \/ unread[c] = 0 THEN {} ELSE {[of |-> c, version |-> unread[c]]}

\* _loadConversation, and readMessages.
Loads(c) ==
  /\ view' = IF version[c] = 0 THEN view
             ELSE [view EXCEPT !.id = c, !.version = version[c], !.at = updatedTimestamp]
  /\ reads' = reads \cup Unread(c)
  /\ missed' = missed \ {<<"view", c>>, <<"read", c>>}

ViewReady ==
  /\ ViewTurns
  /\ view' = [view EXCEPT !.ready = ready]
  /\ UNCHANGED <<store, reads, replies, recents, missed, messages, events>>

ReloadConversation ==
  /\ ShouldReload
  /\ Loads(view.id)
  /\ UNCHANGED <<store, replies, recents, messages, events>>

Loading(c) == [of |-> c, version |-> version[c], late |-> FALSE]

\* A first load that is under way when the time moves on is not made again.
Overlooked == {<<"recent", l.of>> : l \in {k \in loads : k.of \notin Contacts}}

\* RecentMessages loads all that it shows again; fromLocale is not the parameter's name,
\* so that it asks the server, too.
ReloadRecent ==
  /\ ShouldLoad
  /\ prevTimestamp' = updatedTimestamp
  /\ loads' = loads \cup {Loading(c) : c \in Contacts}
  /\ missed' = missed \cup Overlooked
  /\ UNCHANGED <<store, conversation, recent, messages, events>>

-----------------------------------------------------------------------------
(* The store.  Two updates may be in one millisecond. *)

\* The copies of c that will not be renewed for what happens at this time.
Unnoticed(c, time) ==
  (IF view.id = c /\ view.at = time THEN {<<"view", c>>} ELSE {})
    \cup (IF prevTimestamp = time THEN {<<"recent", c>>} ELSE {})

Update(c) ==
  /\ version' = [version EXCEPT ![c] = @ + 1]
  /\ \E passed \in 0..1 :
       /\ clock' = clock + passed
       /\ updatedTimestamp' = clock'
       /\ missed' = missed \cup Unnoticed(c, clock')

\* A sync or a notification: a message, of a new conversation perhaps.
Arrive(c) ==
  /\ Settled /\ ready /\ messages < MaxMessages
  /\ messages' = messages + 1
  /\ unread' = [unread EXCEPT ![c] = version[c] + 1]
  /\ Update(c)
  /\ UNCHANGED <<ready, conversation, recents, events>>

\* deleteMessage: removeMessage does not change updatedTimestamp.
Delete(c) ==
  /\ Settled /\ ready /\ version[c] # 0 /\ messages < MaxMessages
  /\ messages' = messages + 1
  /\ version' = [version EXCEPT ![c] = @ + 1]
  /\ missed' = missed \cup Unnoticed(c, IF view.id = c THEN view.at ELSE None)
                      \cup {<<"recent", c>>}
  /\ UNCHANGED <<ready, unread, updatedTimestamp, clock, conversation, recents, events>>

\* Logout with cleanUp, and login, more than a millisecond later.
Turn ==
  /\ Settled /\ Counted
  /\ ready' = ~ready
  /\ IF ready THEN /\ version' = [c \in Conversation |-> 0]
                  /\ unread' = version'
                  /\ updatedTimestamp' = None
                  /\ clock' = clock + 1
     ELSE UNCHANGED <<version, unread, updatedTimestamp, clock>>
  /\ UNCHANGED <<conversation, recents, missed, messages>>

-----------------------------------------------------------------------------
(* Conversation: its methods. *)

LoadConversationById(c) ==
  /\ Settled /\ Counted /\ view.id # c
  /\ Loads(c)
  /\ UNCHANGED <<store, replies, recents, messages>>

UnloadConversation ==
  /\ Settled /\ Counted /\ view.id # None
  /\ view' = [view EXCEPT !.id = None, !.version = 0]
  /\ UNCHANGED <<store, reads, replies, recents, missed, messages>>

\* The server has marked them, if it was not a later message; or it fails and says so.
ReadMessages(r) ==
  /\ Settled
  /\ reads' = reads \ {r}
  /\ \/ /\ version[r.of] # 0
        /\ unread' = [unread EXCEPT ![r.of] = IF @ = r.version THEN 0 ELSE @]
        /\ Update(r.of)
        /\ UNCHANGED events
     \/ /\ Counted
        /\ missed' = missed \cup {<<"read", r.of>>}
        /\ UNCHANGED <<version, unread, updatedTimestamp, clock>>
  /\ UNCHANGED <<ready, view, replies, recents, messages>>

\* replyToReceivers, up to the await of send.
ReplyToReceivers ==
  /\ Settled /\ Counted /\ view.ready /\ view.id # None
  /\ replies' = replies \cup {view.id}
  /\ UNCHANGED <<store, view, reads, recents, missed, messages>>

\* pushMessage of the first of the responses; or there is none, or an error.
Replied(c) ==
  /\ Settled
  /\ replies' = replies \ {c}
  /\ \/ /\ ready /\ messages < MaxMessages
        /\ messages' = messages + 1
        /\ Update(c)
     \/ UNCHANGED <<version, updatedTimestamp, clock, missed, messages>>
  /\ UNCHANGED <<ready, unread, view, reads, recents, events>>

\* changeMatchedNames, changeDefaultRecipient: updateConversationRecipients of the store,
\* and updateRecipients here.
UpdateRecipients ==
  /\ Settled /\ Counted /\ ready /\ view.ready /\ view.id # None /\ version[view.id] # 0
  /\ Update(view.id)
  /\ view' = [view EXCEPT !.version = @ + 1]
  /\ UNCHANGED <<ready, unread, reads, replies, recents, messages>>

-----------------------------------------------------------------------------
(* RecentMessages: its methods. *)

\* getMessages of a contact that is not there yet.  It moves the time on for all.
GetMessages(c) ==
  /\ Settled /\ Counted /\ recent[c] = None
  /\ missed' = IF prevTimestamp = updatedTimestamp THEN missed ELSE missed \cup Overlooked
  /\ prevTimestamp' = updatedTimestamp
  /\ loads' = loads \cup {Loading(c)}
  /\ UNCHANGED <<store, conversation, recent, messages>>

Others(l) == {o \in loads \ {l} : o.of = l.of}

\* loadSuccess, in the order of the answers; what began earlier comes late.
GotMessages(l) ==
  /\ Settled
  /\ recent' = [recent EXCEPT ![l.of] = l.version]
  /\ loads' = (loads \ ({l} \cup Others(l))) \cup
       {[o EXCEPT !.late = o.late \/ (l.version = version[l.of] /\ o.version # l.version)] :
          o \in Others(l)}
  /\ missed' = IF l.late THEN missed \cup {<<"recent", l.of>>}
               ELSE IF l.version = version[l.of] THEN missed \ {<<"recent", l.of>>}
               ELSE missed
  /\ UNCHANGED <<store, conversation, prevTimestamp, messages, events>>

\* The server refuses, or is not reached.  Nobody catches it, and the time has moved on: the
\* messages there are stay until the store is updated again.
LoadFails(l) ==
  /\ Settled /\ Counted
  /\ loads' = loads \ {l}
  /\ missed' = missed \cup {<<"recent", l.of>>}
  /\ UNCHANGED <<store, conversation, recent, prevTimestamp, messages>>

\* cleanUpMessages; an answer that comes later brings the contact back.
CleanUpMessages(c) ==
  /\ Settled /\ Counted /\ recent[c] # None
  /\ recent' = [recent EXCEPT ![c] = None]
  /\ missed' = IF \E l \in loads : l.of = c THEN missed \cup {<<"recent", c>>} ELSE missed
  /\ UNCHANGED <<store, conversation, loads, prevTimestamp, messages>>

Next ==
  \/ ViewReady \/ ReloadConversation \/ ReloadRecent
  \/ \E c \in Conversation : \/ Arrive(c) \/ Delete(c) \/ LoadConversationById(c)
                             \/ GetMessages(c) \/ CleanUpMessages(c)
  \/ Turn \/ UnloadConversation \/ ReplyToReceivers \/ UpdateRecipients
  \/ \E r \in reads : ReadMessages(r)
  \/ \E c \in replies : Replied(c)
  \/ \E l \in loads : GotMessages(l) \/ LoadFails(l)

Spec == Init /\ [][Next]_vars

-----------------------------------------------------------------------------
(* Between turns the open conversation is as the store has it, and what is unread in it *)
(* is being marked; the recent messages of a contact are those of the store too, or are *)
(* being loaded.  Missed is what no comparison of times can tell, came too late, or is    *)
(* not there since a load failed: then the next one that succeeds makes up for it.       *)
ViewsShowStore ==
  Settled =>
    /\ \A c \in Conversation :
         view.ready /\ view.id = c /\ version[c] # 0 /\ <<"view", c>> \notin missed =>
           /\ view.version = version[c]
           /\ unread[c] # 0 /\ <<"read", c>> \notin missed =>
                [of |-> c, version |-> unread[c]] \in reads
    /\ \A c \in Contacts : <<"recent", c>> \notin missed =>
         recent[c] = version[c] \/ Loading(c) \in loads
=============================================================================
