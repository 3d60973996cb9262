------------------------ MODULE MessageStore_proofs ------------------------
(***************************************************************************)
(* Proofs about MessageStore, for any tabs, messages and bounds.           *)
(***************************************************************************)
EXTENDS MessageStore, TLAPS

-----------------------------------------------------------------------------
(* Types. *)

LEMMA CountedType ==
  ASSUME TypeOK, NEW k \in Kind, Counted(k)
  PROVE  count' \in [Kind -> Nat]
BY DEF TypeOK, Counted

LEMMA BlankType == Blank \in Data
BY DEF Blank, Data, Nothing, Version, State

LEMMA PushType ==
  ASSUME NEW known \in [Message -> Version], NEW got \in [Message -> Version]
  PROVE  Push(known, got) \in [Message -> Version]
BY DEF Push, Shown, Nothing, Version, State

LEMMA WriteType ==
  ASSUME TypeOK, NEW t \in Tab, NEW d \in Data, Write(t, d)
  PROVE  cell' \in Data /\ copy' \in [Tab -> Data] /\ stale' \subseteq Tab
BY DEF TypeOK, Write

LEMMA RequestType ==
  ASSUME NEW of \in Conversation \cup {All}, NEW from \in Nat
  PROVE  Request(of, from) \in Sync
<1>1. [m \in Message |-> Nothing] \in [Message -> Version]
  BY DEF Nothing, Version, State
<1>2. (IF from = 0 THEN Message ELSE {}) \in SUBSET Message
  OBVIOUS
<1>. QED  BY <1>1, <1>2 DEF Request, Sync

LEMMA StartSyncType ==
  ASSUME TypeOK, NEW t \in Tab, NEW of \in Conversation \cup {All}, NEW from \in Nat,
         StartSync(t, of, from)
  PROVE  sync' \in [Tab -> Sync \cup {None}]
BY RequestType DEF TypeOK, StartSync

LEMMA EndInitType ==
  ASSUME TypeOK, NEW t \in Tab, EndInit(t)
  PROVE  status' \in [Tab -> {"pending", "initializing", "ready"}]
BY DEF TypeOK, EndInit

LEMMA BecomeType ==
  ASSUME TypeOK, NEW m \in Message, NEW s \in State, Become(m, s)
  PROVE  /\ clock' \in Nat /\ server' \in [Message -> Version]
         /\ news' \in [Tab -> Nat] /\ missed' \subseteq Nat
<1>1. clock' \in Nat  BY DEF TypeOK, Become
<1>2. [at |-> clock + 1, state |-> s] \in Version  BY DEF TypeOK, Version
<1>3. server' \in [Message -> Version]  BY <1>2 DEF TypeOK, Become
<1>4. news' \in [Tab -> Nat]  BY DEF TypeOK, Become
<1>5. server[m].at \in Nat  BY DEF TypeOK, Version
<1>6. missed' \subseteq Nat  BY <1>1, <1>5 DEF TypeOK, Become
<1>. QED  BY <1>1, <1>3, <1>4, <1>6

LEMMA StartCallType ==
  ASSUME TypeOK, NEW t \in Tab, NEW op \in {"read", "unread", "deleted"},
         NEW todo \in SUBSET Message, StartCall(t, op, todo), UNCHANGED cached
  PROVE  TypeOK'
<1>1. [op |-> op, todo |-> todo, got |-> [m \in Message |-> Nothing], kept |-> 0] \in Call
  BY DEF Call, Nothing, Version, State
<1>2. call' \in [Tab -> Call \cup {None}]  BY <1>1 DEF TypeOK, StartCall
<1>3. count' \in [Kind -> Nat]  BY CountedType DEF StartCall, Kind
<1>. QED  BY <1>2, <1>3 DEF TypeOK, StartCall, heard

LEMMA InitType == Init => TypeOK
<1> SUFFICES ASSUME Init PROVE TypeOK
  OBVIOUS
<1>1. server \in [Message -> Version]  BY DEF Init, Nothing, Version, State
<1>2. cell \in Data /\ copy \in [Tab -> Data]  BY BlankType DEF Init
<1>3. count \in [Kind -> Nat]  BY DEF Init
<1>. QED  BY <1>1, <1>2, <1>3 DEF Init, TypeOK

\* A page reaches tab t: what is still to come, and what is left out.
PageSent(t, page, left, cut) ==
  /\ page # {}
  /\ sync' = [sync EXCEPT ![t] = [sync[t] EXCEPT
       !.got = [m \in Message |-> IF m \in page /\ Exists(m) THEN server[m] ELSE sync[t].got[m]],
       !.till = PageToken(sync[t]), !.left = left, !.cut = cut, !.done = left = {}]]
  /\ \/ left = sync[t].left \ page /\ cut = {}
     \/ /\ left = {}
        /\ \A m \in sync[t].left \ page :
             Exists(m) /\ server[m].at < PageToken(sync[t]) => server[m].at \in cut

LEMMA PageParts ==
  ASSUME TypeOK, NEW t \in Tab, AnswerPage(t)
  PROVE  \E page \in SUBSET sync[t].left, left \in SUBSET Message, cut \in SUBSET Nat :
           PageSent(t, page, left, cut)
<1> DEFINE s == sync[t]
<1>1. s \in Sync /\ \A m \in Message : server[m].at \in Nat
  BY DEF AnswerPage, TypeOK, Version
<1>2. PICK page \in (SUBSET s.left) \ {{}} : \E left \in {{}, s.left \ page} :
        sync' = [sync EXCEPT ![t] = [s EXCEPT
          !.got = [m \in Message |-> IF m \in page /\ Exists(m) THEN server[m] ELSE @[m]],
          !.till = PageToken(s),
          !.left = left,
          !.cut = Below(s, (s.left \ page) \ left),
          !.done = left = {}]]
  BY DEF AnswerPage
<1>3. PICK left \in {{}, s.left \ page} :
        sync' = [sync EXCEPT ![t] = [s EXCEPT
          !.got = [m \in Message |-> IF m \in page /\ Exists(m) THEN server[m] ELSE s.got[m]],
          !.till = PageToken(s),
          !.left = left,
          !.cut = Below(s, (s.left \ page) \ left),
          !.done = left = {}]]
  BY <1>2
<1> DEFINE cut == Below(s, (s.left \ page) \ left)
<1>4. page \in SUBSET s.left /\ page # {} /\ left \in SUBSET Message
  BY <1>1, <1>2, <1>3 DEF Sync
<1>5. cut \in SUBSET Nat
  <2>1. (s.left \ page) \ left \subseteq Message  BY <1>1 DEF Sync
  <2>. QED  BY <1>1, <2>1 DEF Below
<1>6. \/ left = s.left \ page /\ cut = {}
      \/ /\ left = {}
         /\ \A m \in s.left \ page :
              Exists(m) /\ server[m].at < PageToken(s) => server[m].at \in cut
  BY <1>3 DEF Below
<1> HIDE DEF cut
<1>7. PageSent(t, page, left, cut)  BY <1>3, <1>4, <1>6 DEF PageSent, cut
<1>. QED  BY <1>4, <1>5, <1>7

LEMMA ServerType ==
  ASSUME TypeOK, UNCHANGED cached, NEW t \in Tab,
         AnswerChanges(t) \/ AnswerPage(t)
  PROVE  TypeOK'
<1> DEFINE s == sync[t]
<1>1. s \in Sync /\ clock + 1 \in Nat
  <2>1. s # None  BY DEF AnswerChanges, AnswerPage
  <2>. QED  BY <2>1 DEF TypeOK
<1>2. sync' \in [Tab -> Sync \cup {None}]
  <2>1. CASE AnswerChanges(t)
    <3>1. [m \in Message |-> IF server[m].at >= s.from THEN server[m] ELSE Nothing]
            \in [Message -> Version]
      BY DEF TypeOK, Nothing, Version, State
    <3>. QED  BY <1>1, <2>1, <3>1 DEF TypeOK, AnswerChanges, Sync
  <2>2. CASE AnswerPage(t)
    <3>0. PICK page \in SUBSET s.left, left \in SUBSET Message, cut \in SUBSET Nat :
               PageSent(t, page, left, cut)
      BY <2>2, PageParts
    <3>1. sync' = [sync EXCEPT ![t] = [s EXCEPT
            !.got = [m \in Message |-> IF m \in page /\ Exists(m) THEN server[m] ELSE s.got[m]],
            !.till = PageToken(s), !.left = left, !.cut = cut, !.done = left = {}]]
      BY <3>0 DEF PageSent
    <3>2. [m \in Message |-> IF m \in page /\ Exists(m) THEN server[m] ELSE s.got[m]]
            \in [Message -> Version]
      BY <1>1 DEF TypeOK, Sync
    <3>3. PageToken(s) \in Nat  BY <1>1 DEF PageToken, Sync
    <3>. QED  BY <1>1, <3>1, <3>2, <3>3 DEF TypeOK, Sync
  <2>. QED  BY <2>1, <2>2
<1>. QED  BY <1>2 DEF TypeOK, AnswerChanges, AnswerPage, heard

LEMMA SyncEndsType ==
  ASSUME TypeOK, UNCHANGED cached, NEW t \in Tab, SyncDone(t) \/ SyncFails(t)
  PROVE  TypeOK'
<1>1. sync[t] \in Sync /\ copy[t] \in Data  BY DEF TypeOK, SyncDone, SyncFails
<1>2. status' \in [Tab -> {"pending", "initializing", "ready"}]
  BY EndInitType DEF SyncDone, SyncFails
<1>3. sync' \in [Tab -> Sync \cup {None}]  BY DEF TypeOK, SyncDone, SyncFails
<1>4. count' \in [Kind -> Nat]
  BY CountedType DEF TypeOK, SyncDone, SyncFails, Kind
<1>5. timer' \subseteq Tab  BY DEF TypeOK, SyncDone, SyncFails, RetryAfter
<1>6. raced' \in BOOLEAN
  <2>1. raced \in BOOLEAN /\ (SyncDone(t) => raced' = (raced \/ Overtaken(t)))
            /\ (SyncFails(t) => raced' = raced)
    BY DEF TypeOK, SyncDone, SyncFails
  <2>. QED  BY <2>1
<1>7. cell' \in Data /\ copy' \in [Tab -> Data] /\ stale' \subseteq Tab
  <2>1. CASE SyncDone(t)
    <3>1. Push(copy[t].known, sync[t].got) \in [Message -> Version]
      BY <1>1, PushType DEF Data, Sync
    <3>2. Synced(copy[t], sync[t]) \in Data
      BY <1>1, <3>1 DEF Synced, Data, Sync
    <3>3. After(t, Synced(copy[t], sync[t])) \in Data
      BY <3>2, BlankType DEF After
    <3>. QED  BY <2>1, <3>3, WriteType DEF SyncDone
  <2>2. CASE SyncFails(t)
    <3>1. After(t, copy[t]) \in Data  BY <1>1, BlankType DEF After
    <3>. QED  BY <2>2, <3>1 DEF TypeOK, SyncFails
  <2>. QED  BY <2>1, <2>2
<1>. QED
  BY <1>2, <1>3, <1>4, <1>5, <1>6, <1>7 DEF TypeOK, SyncDone, SyncFails, heard

LEMMA StartsType ==
  ASSUME TypeOK, UNCHANGED cached, NEW t \in Tab,
         \/ Hear(t) \/ TimerFires(t) \/ Reconnect(t)
         \/ \E c \in Conversation : SyncConversation(t, c)
  PROVE  TypeOK'
<1>1. copy[t].token \in Nat  BY DEF TypeOK, Data
<1>2. sync' \in [Tab -> Sync \cup {None}]
  BY <1>1, StartSyncType DEF Hear, TimerFires, Reconnect, SyncConversation
<1>3. count' \in [Kind -> Nat]
  BY CountedType DEF TypeOK, Hear, TimerFires, Reconnect, SyncConversation, Kind
<1>4. missed' \subseteq Nat
  <2>1. missed \subseteq Nat /\ clock \in Nat /\ unheard[t] \in Nat  BY DEF TypeOK
  <2>2. Swallowed(t) \subseteq Nat  BY <2>1 DEF Swallowed
  <2>. QED  BY <2>1, <2>2 DEF Hear, TimerFires, Reconnect, SyncConversation
<1>5. unheard' \in [Tab -> Nat] /\ timer' \subseteq Tab
  BY DEF TypeOK, Hear, TimerFires, Reconnect, SyncConversation, heard
<1>. QED
  BY <1>2, <1>3, <1>4, <1>5
  DEF TypeOK, Hear, TimerFires, Reconnect, SyncConversation, heard

LEMMA CallsType ==
  ASSUME TypeOK, UNCHANGED cached, NEW t \in Tab,
         \/ \E c \in Conversation : ReadMessages(t, c)
         \/ \E m \in Message : UnreadMessage(t, m) \/ DeleteMessage(t, m) \/ Send(t, m)
  PROVE  TypeOK'
BY StartCallType DEF ReadMessages, UnreadMessage, DeleteMessage, Send, Unread

LEMMA PerformType ==
  ASSUME TypeOK, UNCHANGED cached, NEW t \in Tab, Perform(t)
  PROVE  TypeOK'
<1> DEFINE c == call[t]
<1>1. c \in Call /\ clock + 1 \in Nat  BY DEF TypeOK, Perform
<1>2. PICK m \in c.todo :
        IF server[m].state = "deleted"
        THEN /\ call' = [call EXCEPT ![t] = [c EXCEPT !.todo = @ \ {m}]]
             /\ UNCHANGED <<server, clock, news, missed>>
        ELSE /\ call' = [call EXCEPT ![t] =
                  [c EXCEPT !.todo = @ \ {m}, !.got = Kept(c, m), !.kept = @ + 1]]
             /\ Become(m, c.op)
  BY DEF Perform
<1>3. m \in Message /\ c.op \in State  BY <1>1, <1>2 DEF Call, State
<1>4. [at |-> clock + 1, state |-> c.op] \in Version  BY <1>1, <1>3 DEF Version
<1>5. Kept(c, m) \in [Message -> Version]  BY <1>1, <1>4 DEF Kept, Call
<1>6. call' \in [Tab -> Call \cup {None}]
  <2>1. [c EXCEPT !.todo = @ \ {m}] \in Call  BY <1>1 DEF Call
  <2>2. [c EXCEPT !.todo = @ \ {m}, !.got = Kept(c, m), !.kept = @ + 1] \in Call
    <3>1. c.kept + 1 \in Nat /\ c.todo \ {m} \in SUBSET Message  BY <1>1 DEF Call
    <3>. QED  BY <1>1, <1>5, <3>1 DEF Call
  <2>. QED  BY <1>2, <2>1, <2>2 DEF TypeOK
<1>7. /\ clock' \in Nat /\ server' \in [Message -> Version]
      /\ news' \in [Tab -> Nat] /\ missed' \subseteq Nat
  BY <1>2, <1>3, BecomeType DEF TypeOK
<1>. QED  BY <1>6, <1>7 DEF TypeOK, Perform

LEMMA CallEndsType ==
  ASSUME TypeOK, UNCHANGED cached, NEW t \in Tab, CallDone(t) \/ CallFails(t)
  PROVE  TypeOK'
<1>1. call' \in [Tab -> Call \cup {None}]  BY DEF TypeOK, CallDone, CallFails
<1>2. count' \in [Kind -> Nat]  BY CountedType DEF TypeOK, CallDone, CallFails, Kind
<1>3. raced' \in BOOLEAN
  <2>1. raced \in BOOLEAN /\ (CallFails(t) => raced' = raced)
            /\ (CallDone(t) => raced' = (raced \/ Late(t, call[t].got)))
    BY DEF TypeOK, CallDone, CallFails
  <2>. QED  BY <2>1
<1>4. cell' \in Data /\ copy' \in [Tab -> Data] /\ stale' \subseteq Tab
  <2>1. CASE CallDone(t)
    <3>1. call[t] \in Call /\ copy[t] \in Data  BY <2>1 DEF TypeOK, CallDone
    <3>2. Push(copy[t].known, call[t].got) \in [Message -> Version]
      BY <3>1, PushType DEF Data, Call
    <3>3. Updated(copy[t], call[t].got) \in Data
      BY <3>1, <3>2 DEF Updated, Data
    <3>. QED  BY <2>1, <3>3, WriteType DEF CallDone
  <2>2. CASE CallFails(t)
    BY <2>2 DEF TypeOK, CallFails
  <2>. QED  BY <2>1, <2>2
<1>. QED  BY <1>1, <1>2, <1>3, <1>4 DEF TypeOK, CallDone, CallFails, heard

LEMMA LifeType ==
  ASSUME TypeOK, UNCHANGED cached, NEW t \in Tab,
         Deliver(t) \/ Initialize(t) \/ Register(t) \/ Follow(t) \/ MainMoves(t) \/ Reload(t)
  PROVE  TypeOK'
<1> USE DEF heard, tabs
<1>1. CASE Deliver(t)  BY <1>1 DEF TypeOK, Deliver
<1>2. CASE Initialize(t)
  <2>1. PICK drop \in BOOLEAN :
          LET data == IF drop THEN Blank ELSE copy[t] IN
          /\ IF data # copy[t] THEN Write(t, Blank) ELSE UNCHANGED <<cell, copy, stale>>
          /\ IF Attends(t)
             THEN /\ status' = [status EXCEPT ![t] = "initializing"]
                  /\ StartSync(t, All, data.token)
                  /\ UNCHANGED timer
             ELSE /\ status' = [status EXCEPT ![t] = "ready"]
                  /\ timer' = IF Polling THEN timer \cup {t} ELSE timer
                  /\ UNCHANGED sync
    BY <1>2 DEF Initialize
  <2> DEFINE data == IF drop THEN Blank ELSE copy[t]
  <2>2. data.token \in Nat
    <3>1. data \in Data  BY BlankType DEF TypeOK
    <3>. QED  BY <3>1 DEF Data
  <2>3. cell' \in Data /\ copy' \in [Tab -> Data] /\ stale' \subseteq Tab
    BY <2>1, BlankType, WriteType DEF TypeOK
  <2> HIDE DEF data
  <2>4. sync' \in [Tab -> Sync \cup {None}]
    BY <2>1, <2>2, StartSyncType DEF TypeOK, data
  <2>5. /\ status' \in [Tab -> {"pending", "initializing", "ready"}]
        /\ timer' \subseteq Tab
    BY <2>1 DEF TypeOK
  <2>. QED  BY <1>2, <2>3, <2>4, <2>5 DEF TypeOK, Initialize
<1>3. CASE Register(t)  BY <1>3 DEF TypeOK, Register
<1>4. CASE Follow(t)
  <2>1. missed' \subseteq Nat
    <3>1. missed \subseteq Nat /\ clock \in Nat  BY DEF TypeOK
    <3>2. Forgotten(t) \subseteq Nat  BY <3>1 DEF Forgotten
    <3>. QED  BY <1>4, <3>1, <3>2 DEF Follow
  <2>2. raced' \in BOOLEAN
    <3>1. raced \in BOOLEAN /\ raced' = (raced \/ (Filling(t) /\ cell.known # Blank.known))
      BY <1>4 DEF TypeOK, Follow
    <3>. QED  BY <3>1
  <2>. QED  BY <1>4, <2>1, <2>2 DEF TypeOK, Follow
<1>5. CASE MainMoves(t)
  <2>1. count' \in [Kind -> Nat]  BY <1>5, CountedType DEF MainMoves, Kind
  <2>2. missed' \subseteq Nat
    <3>1. missed \subseteq Nat /\ clock \in Nat /\ copy[t].token \in Nat  BY DEF TypeOK, Data
    <3>2. Deserted(t) \subseteq Nat  BY <3>1 DEF Deserted
    <3>. QED  BY <1>5, <3>1, <3>2 DEF MainMoves
  <2>. QED  BY <1>5, <2>1, <2>2 DEF TypeOK, MainMoves, tabs, heard
<1>6. CASE Reload(t)
  <2>1. count' \in [Kind -> Nat]  BY <1>6, CountedType DEF Reload, Kind
  <2>2. missed' \subseteq Nat
    <3>1. missed \subseteq Nat /\ news[t] \in Nat /\ unheard[t] \in Nat  BY DEF TypeOK
    <3>2. 1..news[t] \subseteq Nat /\ 1..unheard[t] \subseteq Nat  BY <3>1
    <3>. QED  BY <1>6, <3>1, <3>2 DEF Reload
  <2>3. copy' \in [Tab -> Data]  BY <1>6, BlankType DEF TypeOK, Reload
  <2>. QED  BY <1>6, <2>1, <2>2, <2>3 DEF TypeOK, Reload
<1>. QED  BY <1>1, <1>2, <1>3, <1>4, <1>5, <1>6

LEMMA SessionType ==
  ASSUME TypeOK, UNCHANGED cached,
         Login \/ Logout \/ \E m \in Message : Change(m)
  PROVE  TypeOK'
<1> USE DEF heard, tabs
<1>1. CASE Login
  <2>1. count' \in [Kind -> Nat]  BY <1>1, CountedType DEF Login, Kind
  <2>2. copy' \in [Tab -> Data]  BY <1>1 DEF TypeOK, Login
  <2>. QED  BY <1>1, <2>1, <2>2 DEF TypeOK, Login
<1>2. CASE Logout
  <2>1. count' \in [Kind -> Nat]  BY <1>2, CountedType DEF Logout, Kind
  <2>2. copy' \in [Tab -> Data] /\ cell' \in Data
    BY <1>2, BlankType DEF TypeOK, Logout, Dropped
  <2>3. raced' \in BOOLEAN
    <3>1. raced \in BOOLEAN
            /\ raced' = (raced \/ \E t \in Tab : sync[t] # None \/ call[t] # None)
      BY <1>2 DEF TypeOK, Logout
    <3>. QED  BY <3>1
  <2>4. status' \in [Tab -> {"pending", "initializing", "ready"}]
    BY <1>2 DEF TypeOK, Logout
  <2>5. news' \in [Tab -> Nat] /\ unheard' \in [Tab -> Nat] /\ registered' \subseteq Tab
          /\ stale' \subseteq Tab /\ loggedIn' \in BOOLEAN
    BY <1>2 DEF Logout
  <2>. QED  BY <1>2, <2>1, <2>2, <2>3, <2>4, <2>5 DEF TypeOK, Logout
<1>3. CASE \E m \in Message : Change(m)
  <2>1. PICK m \in Message : Change(m)  BY <1>3
  <2>2. PICK s \in State : Become(m, s)  BY <2>1 DEF Change
  <2>3. count' \in [Kind -> Nat]  BY <2>1, CountedType DEF Change, Kind
  <2>. QED  BY <2>1, <2>2, <2>3, BecomeType DEF TypeOK, Change
<1>. QED  BY <1>1, <1>2, <1>3

LEMMA NextType == TypeOK /\ [Next]_vars => TypeOK'
<1> SUFFICES ASSUME TypeOK, [Next]_vars PROVE TypeOK'
  OBVIOUS
<1>1. CASE UNCHANGED vars
  BY <1>1 DEF TypeOK, vars, tabs, heard
<1>2. CASE Next
  <2>1. UNCHANGED cached  BY <1>2 DEF Next
  <2>2. CASE \E t \in Open : Hear(t) \/ Step(t)
    <3>1. PICK t \in Open : Hear(t) \/ Step(t)  BY <2>2
    <3>2. t \in Tab  BY <3>1 DEF Open, TypeOK
    <3>. QED
      BY <2>1, <3>1, <3>2, ServerType, SyncEndsType, StartsType, CallsType, PerformType,
         CallEndsType, LifeType DEF Step
  <2>3. CASE Login \/ Logout \/ \E m \in Message : Change(m)
    BY <2>1, <2>3, SessionType
  <2>. QED  BY <1>2, <2>2, <2>3 DEF Next
<1>. QED  BY <1>1, <1>2

\* The variables keep their types.
THEOREM TypeCorrect == Spec => []TypeOK
BY InitType, NextType, PTL DEF Spec

-----------------------------------------------------------------------------
(* What messages, data and answers say of the server's messages srv, of     *)
(* which the last change is number n.                                       *)

Numbered(srv, n) ==
  \A m \in Message : srv[m].at <= n /\ (srv[m].state = "none" => srv[m] = Nothing)

\* NothingLostForGood, and data without a token are empty.
WholeIn(d, srv) ==
  /\ \A m \in Message :
       srv[m].at < d.token => d.known[m] = Shown(srv[m]) \/ srv[m].at \in d.cut
  /\ d.token = 0 => d.known = Blank.known

\* An answer holds versions the server has or had.
RealIn(got, srv) ==
  \A m \in Message : got[m] # Nothing =>
    got[m].at <= srv[m].at /\ (got[m].at = srv[m].at => got[m] = srv[m])

\* What the answer of sync s says of message m, if that has not changed since.
Due(s, v) == IF v.at < s.from \/ (s.from = 0 /\ v.state \in {"none", "deleted"})
             THEN Nothing ELSE v

\* The answer so far holds all that its token claims, but for what it leaves out.
CoversIn(s, srv) ==
  \A m \in Message \ s.left :
    srv[m].at < s.till => s.got[m] = Due(s, srv[m]) \/ srv[m].at \in s.cut

\* A sync on its way.
UnderWay(s, srv, n) ==
  /\ s.till <= n + 1
  /\ s.done => s.till > 0 /\ s.left = {}
  /\ s.till = 0 /\ s.from = 0 => s.left = Message
  /\ s.from > 0 => s.left = {} /\ s.cut = {}
  /\ ~s.done => s.cut = {}
  /\ \A m \in s.left : s.got[m] = Nothing
  /\ RealIn(s.got, srv)
  /\ CoversIn(s, srv)

LEMMA GrownNumbered ==
  ASSUME NEW srv \in [Message -> Version], NEW n \in Nat, Numbered(srv, n),
         NEW m \in Message, NEW v \in Version, v.at = n + 1, v.state # "none"
  PROVE  Numbered([srv EXCEPT ![m] = v], n + 1)
BY DEF Numbered, Version

LEMMA GrownWhole ==
  ASSUME NEW srv \in [Message -> Version], NEW n \in Nat, Numbered(srv, n),
         NEW m \in Message, NEW v \in Version, v.at = n + 1,
         NEW d \in Data, d.token <= n + 1, WholeIn(d, srv)
  PROVE  WholeIn(d, [srv EXCEPT ![m] = v])
BY DEF Numbered, WholeIn, Version, Data

LEMMA GrownReal ==
  ASSUME NEW srv \in [Message -> Version], NEW n \in Nat, Numbered(srv, n),
         NEW m \in Message, NEW v \in Version, v.at = n + 1,
         NEW got \in [Message -> Version], RealIn(got, srv)
  PROVE  RealIn(got, [srv EXCEPT ![m] = v])
BY DEF Numbered, RealIn, Version

LEMMA GrownUnderWay ==
  ASSUME NEW srv \in [Message -> Version], NEW n \in Nat, Numbered(srv, n),
         NEW m \in Message, NEW v \in Version, v.at = n + 1,
         NEW s \in Sync, UnderWay(s, srv, n)
  PROVE  UnderWay(s, [srv EXCEPT ![m] = v], n + 1)
<1>1. s.got \in [Message -> Version] /\ s.till \in Nat  BY DEF Sync
<1>2. RealIn(s.got, [srv EXCEPT ![m] = v])  BY <1>1, GrownReal DEF UnderWay
<1>3. CoversIn(s, [srv EXCEPT ![m] = v])
  BY <1>1 DEF UnderWay, CoversIn, Version
<1>. QED  BY <1>1, <1>2, <1>3 DEF UnderWay

\* A sync of everything is stored.
LEMMA SyncedWhole ==
  ASSUME NEW srv \in [Message -> Version], NEW n \in Nat, Numbered(srv, n),
         NEW d \in Data, WholeIn(d, srv),
         NEW s \in Sync, UnderWay(s, srv, n), s.of = All, s.done,
         s.from <= d.token, s.from = 0 => d.known = Blank.known
  PROVE  WholeIn(Synced(d, s), srv)
<1> DEFINE e == Synced(d, s)
<1>1. /\ e.known = Push(d.known, s.got) /\ e.token = s.till /\ s.till > 0 /\ s.left = {}
      /\ e.cut = IF s.from = 0 THEN s.cut ELSE d.cut
      /\ s.from # 0 => s.cut = {}
  BY DEF Synced, UnderWay, Sync
<1>2. s.from \in Nat /\ s.till \in Nat /\ d.token \in Nat  BY DEF Sync, Data
<1>3. ASSUME NEW m \in Message, srv[m].at < s.till
      PROVE  e.known[m] = Shown(srv[m]) \/ srv[m].at \in e.cut
  <2> SUFFICES ASSUME srv[m].at \notin e.cut PROVE e.known[m] = Shown(srv[m])
    OBVIOUS
  <2>1. s.got[m] = Due(s, srv[m])
    <3>1. srv[m].at \notin s.cut  BY <1>1
    <3>. QED  BY <1>1, <1>3, <3>1 DEF UnderWay, CoversIn
  <2>2. e.known[m] = IF s.got[m] = Nothing THEN d.known[m] ELSE Shown(s.got[m])
    BY <1>1 DEF Push
  <2>3. srv[m] \in Version  OBVIOUS
  <2>4. CASE s.got[m] # Nothing
    BY <2>1, <2>2, <2>4 DEF Due
  <2>5. CASE s.got[m] = Nothing /\ srv[m].at < s.from
    <3>1. srv[m].at < d.token  BY <1>2, <2>3, <2>5 DEF Version
    <3>2. s.from # 0  BY <1>2, <2>3, <2>5 DEF Version
    <3>. QED  BY <1>1, <2>2, <2>5, <3>1, <3>2 DEF WholeIn
  <2>6. CASE s.got[m] = Nothing /\ ~(srv[m].at < s.from)
    <3>1. Shown(srv[m]) = Nothing
      BY <2>1, <2>6 DEF Due, Shown, Numbered
    <3>2. CASE s.from = 0
      BY <2>2, <2>6, <3>1, <3>2 DEF Blank
    <3>3. CASE s.from # 0
      <4>1. srv[m] = Nothing  BY <2>1, <2>6, <3>3 DEF Due
      <4>. QED  BY <1>2, <2>6, <3>3, <4>1 DEF Nothing
    <3>. QED  BY <3>2, <3>3
  <2>. QED  BY <2>4, <2>5, <2>6
<1>. QED  BY <1>1, <1>2, <1>3 DEF WholeIn

\* Some messages are stored that are not older than what the data must hold.
LEMMA PushedWhole ==
  ASSUME NEW srv \in [Message -> Version], NEW d \in Data, WholeIn(d, srv),
         NEW got \in [Message -> Version], RealIn(got, srv), d.token # 0,
         \A m \in Message :
           ~(got[m] # Nothing /\ got[m].at < srv[m].at /\ srv[m].at < d.token)
  PROVE  WholeIn([d EXCEPT !.known = Push(d.known, got)], srv)
<1> DEFINE e == [d EXCEPT !.known = Push(d.known, got)]
<1>1. e.known = Push(d.known, got) /\ e.token = d.token /\ e.cut = d.cut  BY DEF Data
<1>2. ASSUME NEW m \in Message, srv[m].at < d.token
      PROVE  e.known[m] = Shown(srv[m]) \/ srv[m].at \in e.cut
  <2>1. CASE got[m] = Nothing
    BY <1>1, <1>2, <2>1 DEF Push, WholeIn
  <2>2. CASE got[m] # Nothing
    <3>1. got[m].at \in Nat /\ srv[m].at \in Nat  BY DEF Version
    <3>2. got[m] = srv[m]  BY <1>2, <2>2, <3>1 DEF RealIn
    <3>. QED  BY <1>1, <2>2, <3>2 DEF Push
  <2>. QED  BY <2>1, <2>2
<1>. QED  BY <1>1, <1>2 DEF WholeIn

LEMMA BlankWhole ==
  ASSUME NEW srv \in [Message -> Version]
  PROVE  WholeIn(Blank, srv)
BY DEF WholeIn, Blank, Version

LEMMA RequestUnderWay ==
  ASSUME NEW srv \in [Message -> Version], NEW n \in Nat,
         NEW of \in Conversation \cup {All}, NEW from \in Nat
  PROVE  UnderWay(Request(of, from), srv, n)
BY DEF UnderWay, Request, RealIn, CoversIn, Nothing, Version

\* The server answers an iSync.
LEMMA ChangesUnderWay ==
  ASSUME NEW srv \in [Message -> Version], NEW n \in Nat, Numbered(srv, n),
         NEW s \in Sync, UnderWay(s, srv, n), s.from > 0
  PROVE  UnderWay([s EXCEPT
           !.got = [m \in Message |-> IF srv[m].at >= s.from THEN srv[m] ELSE Nothing],
           !.till = n + 1, !.done = TRUE], srv, n)
<1> DEFINE got == [m \in Message |-> IF srv[m].at >= s.from THEN srv[m] ELSE Nothing]
           r == [s EXCEPT !.got = got, !.till = n + 1, !.done = TRUE]
<1>1. /\ r.got = got /\ r.till = n + 1 /\ r.left = {} /\ r.from = s.from
      /\ r.cut = s.cut /\ r.done
  BY DEF Sync, UnderWay
<1>2. s.from \in Nat /\ \A m \in Message : srv[m].at \in Nat  BY DEF Sync, Version
<1>3. RealIn(got, srv)  BY <1>2 DEF RealIn
<1>4. CoversIn(r, srv)
  <2>1. ASSUME NEW m \in Message PROVE r.got[m] = Due(r, srv[m])
    BY <1>1, <1>2 DEF Due
  <2>. QED  BY <1>1, <2>1 DEF CoversIn
<1> HIDE DEF got, r
<1>5. UnderWay(r, srv, n)  BY <1>1, <1>2, <1>3, <1>4 DEF UnderWay
<1>. QED  BY <1>5 DEF r, got

\* What a page leaves to come, or out.
Leaves(s, srv, n, page, left, cut) ==
  \/ left = s.left \ page /\ cut = {}
  \/ /\ left = {}
     /\ \A m \in s.left \ page :
          /\ srv[m].state \notin {"none", "deleted"}
          /\ srv[m].at < (IF s.till = 0 THEN n + 1 ELSE s.till)
          => srv[m].at \in cut

\* The server sends a page of an fSync.
LEMMA PageUnderWay ==
  ASSUME NEW srv \in [Message -> Version], NEW n \in Nat, Numbered(srv, n),
         NEW s \in Sync, UnderWay(s, srv, n), s.from = 0, ~s.done,
         NEW page \in SUBSET s.left, page # {}, NEW left, NEW cut,
         Leaves(s, srv, n, page, left, cut),
         NEW r \in Sync,
         r.from = 0, r.left = left, r.cut = cut, r.done <=> left = {},
         r.till = IF s.till = 0 THEN n + 1 ELSE s.till,
         \A m \in Message : r.got[m] = IF m \in page /\ srv[m].state \notin {"none", "deleted"}
                                      THEN srv[m] ELSE s.got[m]
  PROVE  UnderWay(r, srv, n)
<1> DEFINE got == r.got
           till == r.till
<1>1. /\ r.got = got /\ r.till = till /\ r.left = left /\ r.from = 0
      /\ (r.done <=> left = {}) /\ r.cut = cut
  OBVIOUS
<1>2. /\ s.till \in Nat /\ s.left \subseteq Message /\ s.till <= n + 1
      /\ \A m \in Message : srv[m] \in Version /\ srv[m].at \in Nat
  BY DEF Sync, UnderWay, Version
<1>3. till > 0 /\ till \in Nat /\ till <= n + 1  BY <1>2
<1>11. \A m \in Message : got[m] = IF m \in page /\ srv[m].state \notin {"none", "deleted"}
                                  THEN srv[m] ELSE s.got[m]
  OBVIOUS
<1>4. RealIn(got, srv)  BY <1>2, <1>11 DEF RealIn, UnderWay
<1>5. \A m \in s.left \ page : got[m] = Nothing  BY <1>2, <1>11 DEF UnderWay
<1>6. ASSUME NEW m \in Message \ (s.left \ page), srv[m].at < till
      PROVE  got[m] = Due(r, srv[m])
  <2>1. CASE m \in page
    <3>1. s.got[m] = Nothing  BY <2>1 DEF UnderWay
    <3>. QED  BY <1>1, <1>2, <1>11, <2>1, <3>1 DEF Due
  <2>2. CASE m \notin page
    <3>1. s.till # 0  BY <1>6, <2>2 DEF UnderWay
    <3>2. s.got[m] = Due(s, srv[m])  BY <1>6, <2>2, <3>1 DEF UnderWay, CoversIn
    <3>. QED  BY <1>1, <1>2, <1>11, <2>2, <3>2 DEF Due
  <2>. QED  BY <2>1, <2>2
<1>8. /\ r.done => r.left = {}
      /\ ~r.done => r.cut = {}
      /\ r.left \subseteq s.left \ page
  BY <1>1 DEF Leaves
<1>10. ASSUME NEW m \in s.left \ page, m \notin left, srv[m].at < till
       PROVE  got[m] = Due(r, srv[m]) \/ srv[m].at \in cut
  <2>1. got[m] = Nothing /\ srv[m].at \in Nat  BY <1>2, <1>5
  <2>2. CASE srv[m].state \in {"none", "deleted"}
    BY <1>1, <2>1, <2>2 DEF Due
  <2>3. CASE srv[m].state \notin {"none", "deleted"}
    BY <1>10, <2>1, <2>3 DEF Leaves
  <2>. QED  BY <2>2, <2>3
<1> HIDE DEF got, till
<1>7. CoversIn(r, srv)
  <2> SUFFICES ASSUME NEW m \in Message \ r.left, srv[m].at < r.till
               PROVE  r.got[m] = Due(r, srv[m]) \/ srv[m].at \in r.cut
    BY DEF CoversIn
  <2>1. CASE m \in s.left \ page  BY <1>1, <1>10, <2>1
  <2>2. CASE m \notin s.left \ page  BY <1>1, <1>6, <2>2
  <2>. QED  BY <2>1, <2>2
<1>9. UnderWay(r, srv, n)  BY <1>1, <1>2, <1>3, <1>4, <1>5, <1>7, <1>8 DEF UnderWay
<1>. QED  BY <1>9

-----------------------------------------------------------------------------
(* The inductive invariant. *)

Tokens ==
  /\ cell.token <= clock + 1
  /\ \A t \in Tab : copy[t].token <= clock + 1

\* Whatever is on its way holds true versions.
Answers ==
  /\ \A t \in Tab : sync[t] # None => UnderWay(sync[t], server, clock)
  /\ \A t \in Tab : call[t] # None => RealIn(call[t].got, server)

\* Tabs are ready in a session only.
InSession == ~loggedIn => \A t \in Tab : status[t] # "ready"

\* The data are whole, a first sync finds them empty, and no sync outlives its session.
Intact ==
  ~raced =>
    /\ WholeIn(cell, server)
    /\ \A t \in Tab : /\ WholeIn(copy[t], server)
                      /\ Filling(t) => copy[t].known = Blank.known
                      /\ ~loggedIn => sync[t] = None

IInv == TypeOK /\ Numbered(server, clock) /\ Tokens /\ Answers /\ InSession /\ Intact

LEMMA Parts ==
  IInv => TypeOK /\ Numbered(server, clock) /\ Tokens /\ Answers /\ InSession /\ Intact
BY DEF IInv

LEMMA InitIInv == Init => IInv
<1> SUFFICES ASSUME Init PROVE IInv
  OBVIOUS
<1>1. TypeOK  BY InitType
<1>2. server \in [Message -> Version]  BY <1>1 DEF TypeOK
<1>3. Numbered(server, clock)  BY DEF Init, Numbered, Nothing
<1>4. Tokens  BY DEF Init, Tokens, Blank
<1>5. Answers /\ InSession  BY DEF Init, Answers, InSession
<1>6. Intact  BY <1>2, BlankWhole DEF Init, Intact, Filling
<1>. QED  BY <1>1, <1>3, <1>4, <1>5, <1>6 DEF IInv

\* Change and Perform: the server has one more change.
LEMMA BecomeIInv ==
  ASSUME IInv, TypeOK', NEW m \in Message, NEW s \in State \ {"none"}, Become(m, s),
         UNCHANGED <<cell, copy, sync, status, loggedIn, raced>>,
         \A t \in Tab : call'[t] # None => RealIn(call'[t].got, server')
  PROVE  IInv'
<1> DEFINE v == [at |-> clock + 1, state |-> s]
<1>1. /\ TypeOK /\ server \in [Message -> Version] /\ clock \in Nat
      /\ Numbered(server, clock) /\ Tokens /\ Answers /\ InSession /\ Intact
  BY DEF IInv, TypeOK
<1>2. v \in Version /\ v.at = clock + 1 /\ v.state # "none"  BY <1>1 DEF Version
<1>3. server' = [server EXCEPT ![m] = v] /\ clock' = clock + 1  BY DEF Become
<1> HIDE DEF v
<1>4. Numbered(server', clock')  BY <1>1, <1>2, <1>3, GrownNumbered
<1>5. cell \in Data /\ \A t \in Tab : copy[t] \in Data  BY <1>1 DEF TypeOK
<1>6. cell.token \in Nat /\ \A t \in Tab : copy[t].token \in Nat  BY <1>5 DEF Data
<1>7. Tokens'  BY <1>1, <1>3, <1>6 DEF Tokens
<1>8. Answers'
  <2>1. ASSUME NEW t \in Tab, sync[t] # None
        PROVE  UnderWay(sync[t], server', clock')
    <3>1. sync[t] \in Sync  BY <1>1, <2>1 DEF TypeOK
    <3>2. UnderWay(sync[t], server, clock)  BY <1>1, <2>1 DEF Answers
    <3>. QED  BY <1>1, <1>2, <1>3, <3>1, <3>2, GrownUnderWay
  <2>. QED  BY <2>1 DEF Answers
<1>9. InSession'  BY <1>1 DEF InSession
<1>10. Intact'
  <2> SUFFICES ASSUME ~raced PROVE Intact'
    BY DEF Intact
  <2>1. WholeIn(cell, server')
    BY <1>1, <1>2, <1>3, <1>5, GrownWhole DEF Tokens, Intact
  <2>2. ASSUME NEW t \in Tab PROVE WholeIn(copy[t], server')
    BY <1>1, <1>2, <1>3, <1>5, GrownWhole DEF Tokens, Intact
  <2>. QED  BY <1>1, <2>1, <2>2 DEF Intact, Filling
<1>. QED  BY <1>4, <1>7, <1>8, <1>9, <1>10 DEF IInv

\* The server answers: the sync stays the one it was.
LEMMA ServerIInv ==
  ASSUME IInv, TypeOK', NEW t \in Tab, AnswerChanges(t) \/ AnswerPage(t)
  PROVE  IInv'
<1> DEFINE s == sync[t]
<1>1. /\ TypeOK /\ server \in [Message -> Version] /\ clock \in Nat
      /\ Numbered(server, clock) /\ Tokens /\ Answers /\ InSession /\ Intact
  BY DEF IInv, TypeOK
<1>2. UNCHANGED <<server, clock, loggedIn, cell, copy, status, call, raced>>
  BY DEF AnswerChanges, AnswerPage
<1>3. s # None  BY DEF AnswerChanges, AnswerPage
<1>4. s \in Sync /\ UnderWay(s, server, clock)  BY <1>1, <1>3 DEF TypeOK, Answers
<1>5. \E r \in Sync : /\ sync' = [sync EXCEPT ![t] = r]
                      /\ UnderWay(r, server, clock)
                      /\ r.of = s.of /\ r.from = s.from
  <2>1. CASE AnswerChanges(t)
    <3> DEFINE r == [s EXCEPT
               !.got = [m \in Message |-> IF server[m].at >= s.from THEN server[m] ELSE Nothing],
               !.till = clock + 1, !.done = TRUE]
    <3>1. sync' = [sync EXCEPT ![t] = r] /\ s.from > 0  BY <2>1 DEF AnswerChanges
    <3>2. UnderWay(r, server, clock)  BY <1>1, <1>4, <3>1, ChangesUnderWay
    <3>3. r.of = s.of /\ r.from = s.from  BY <1>4 DEF Sync
    <3>4. sync'[t] = r /\ sync'[t] \in Sync \cup {None}  BY <1>1, <3>1 DEF TypeOK
    <3>5. r \in Sync
      <4>1. [m \in Message |-> IF server[m].at >= s.from THEN server[m] ELSE Nothing]
              \in [Message -> Version]
        BY <1>1 DEF Nothing, Version, State
      <4>2. clock + 1 \in Nat  BY <1>1
      <4>. QED  BY <1>4, <4>1, <4>2 DEF Sync
    <3>. QED  BY <3>1, <3>2, <3>3, <3>5
  <2>2. CASE AnswerPage(t)
    <3>1. PICK page \in SUBSET s.left, left \in SUBSET Message, cut \in SUBSET Nat :
               PageSent(t, page, left, cut)
      BY <1>1, <2>2, PageParts
    <3> DEFINE r == [s EXCEPT
           !.got = [m \in Message |->
                      IF m \in page /\ server[m].state \notin {"none", "deleted"}
                      THEN server[m] ELSE s.got[m]],
           !.till = IF s.till = 0 THEN clock + 1 ELSE s.till,
           !.left = left, !.cut = cut, !.done = left = {}]
    <3>2. sync' = [sync EXCEPT ![t] = r]  BY <3>1 DEF PageSent, Exists, PageToken
    <3>3. s.from = 0  BY <2>2 DEF AnswerPage
    <3>5. r.of = s.of /\ r.from = s.from  BY <1>4 DEF Sync
    <3>6. r \in Sync
      <4>1. [m \in Message |->
                      IF m \in page /\ server[m].state \notin {"none", "deleted"}
                      THEN server[m] ELSE s.got[m]] \in [Message -> Version]
        BY <1>1, <1>4 DEF Sync
      <4>2. (IF s.till = 0 THEN clock + 1 ELSE s.till) \in Nat  BY <1>1, <1>4 DEF Sync
      <4>. QED  BY <1>4, <4>1, <4>2 DEF Sync
    <3>4. UnderWay(r, server, clock)
      <4>1. page \in SUBSET s.left /\ page # {}  BY <3>1 DEF PageSent
      <4>2. ~s.done  BY <2>2 DEF AnswerPage
      <4>3. Leaves(s, server, clock, page, left, cut)
        BY <3>1 DEF PageSent, Leaves, Exists, PageToken
      <4>4. /\ r.left = left /\ r.cut = cut /\ (r.done <=> left = {})
            /\ r.till = IF s.till = 0 THEN clock + 1 ELSE s.till
            /\ \A m \in Message :
                 r.got[m] = IF m \in page /\ server[m].state \notin {"none", "deleted"}
                            THEN server[m] ELSE s.got[m]
        BY <1>4 DEF Sync
      <4> HIDE DEF r, s
      <4>. QED  BY <1>1, <1>4, <3>3, <3>5, <3>6, <4>1, <4>2, <4>3, <4>4, PageUnderWay
    <3>. QED  BY <3>2, <3>4, <3>5, <3>6
  <2>. QED  BY <2>1, <2>2
<1>6. PICK r \in Sync : /\ sync' = [sync EXCEPT ![t] = r]
                       /\ UnderWay(r, server, clock)
                       /\ r.of = s.of /\ r.from = s.from
  BY <1>5
<1>7. Answers'  BY <1>1, <1>2, <1>6 DEF TypeOK, Answers
<1>8. Intact'
  <2>1. \A u \in Tab : Filling(u)' => Filling(u)
    BY <1>1, <1>3, <1>6 DEF TypeOK, Filling
  <2>2. \A u \in Tab : sync[u] = None => sync'[u] = None
    BY <1>1, <1>3, <1>6 DEF TypeOK
  <2>. QED  BY <1>1, <1>2, <2>1, <2>2 DEF Intact
<1>. QED  BY <1>1, <1>2, <1>7, <1>8 DEF IInv, Tokens, InSession

\* A sync starts, if none is under way.
LEMMA StartSyncIntact ==
  ASSUME TypeOK, Answers, NEW t \in Tab, NEW of \in Conversation \cup {All},
         NEW from \in Nat, StartSync(t, of, from), UNCHANGED <<server, clock, call>>
  PROVE  /\ Answers'
         /\ \A u \in Tab : Filling(u)' => Filling(u) \/ (u = t /\ of = All /\ from = 0)
         /\ \A u \in Tab \ {t} : sync'[u] = sync[u]
<1>1. CASE sync[t] # None
  <2>1. UNCHANGED sync  BY <1>1 DEF StartSync
  <2>. QED  BY <2>1 DEF Answers, Filling
<1>2. CASE sync[t] = None
  <2>1. sync' = [sync EXCEPT ![t] = Request(of, from)]  BY <1>2 DEF StartSync
  <2>2. sync'[t] = Request(of, from) /\ \A u \in Tab \ {t} : sync'[u] = sync[u]
    BY <2>1 DEF TypeOK
  <2>3. Request(of, from).of = of /\ Request(of, from).from = from  BY DEF Request
  <2>4. server \in [Message -> Version] /\ clock \in Nat  BY DEF TypeOK
  <2>5. UnderWay(Request(of, from), server, clock)  BY <2>4, RequestUnderWay
  <2>6. Answers'  BY <2>2, <2>5 DEF Answers
  <2>7. \A u \in Tab : Filling(u)' => Filling(u) \/ (u = t /\ of = All /\ from = 0)
    BY <2>2, <2>3 DEF Filling
  <2>. QED  BY <2>2, <2>6, <2>7
<1>. QED  BY <1>1, <1>2

LEMMA StartsIInv ==
  ASSUME IInv, TypeOK', NEW t \in Tab,
         \/ Hear(t) \/ TimerFires(t) \/ Reconnect(t)
         \/ \E c \in Conversation : SyncConversation(t, c)
  PROVE  IInv'
<1>1. TypeOK /\ Numbered(server, clock) /\ Tokens /\ Answers /\ InSession /\ Intact
  BY DEF IInv
<1>2. UNCHANGED <<server, clock, loggedIn, cell, copy, status, call, raced>>
  BY DEF Hear, TimerFires, Reconnect, SyncConversation, heard
<1>3. copy[t].token \in Nat  BY <1>1 DEF TypeOK, Data
<1>4. PICK of \in Conversation \cup {All}, from \in Nat :
        /\ StartSync(t, of, from)
        /\ of = All => from = copy[t].token
  BY <1>3, MessageStoreAssumption
  DEF Hear, TimerFires, Reconnect, SyncConversation, MessageStoreAssumption
<1>5. loggedIn
  BY <1>1 DEF Hear, MustHear, TimerFires, Reconnect, SyncConversation, InSession
<1>6. /\ Answers'
      /\ \A u \in Tab : Filling(u)' => Filling(u) \/ (u = t /\ of = All /\ from = 0)
  BY <1>1, <1>2, <1>4, StartSyncIntact
<1>7. Intact'
  <2> SUFFICES ASSUME ~raced PROVE Intact'
    BY <1>2 DEF Intact
  <2>1. ASSUME NEW u \in Tab, Filling(u)' PROVE copy[u].known = Blank.known
    BY <1>1, <1>4, <1>6, <2>1 DEF Intact, WholeIn
  <2>. QED  BY <1>1, <1>2, <1>5, <2>1 DEF Intact
<1>. QED  BY <1>1, <1>2, <1>6, <1>7 DEF IInv, Tokens, InSession

\* The data d of tab t are whole: so are then all data.
LEMMA WriteIntact ==
  ASSUME TypeOK, Tokens, NEW t \in Tab, NEW d \in Data, Write(t, d), d.token <= clock + 1,
         UNCHANGED <<server, clock>>
  PROVE  /\ Tokens'
         /\ copy'[t] = d /\ \A u \in Tab \ {t} : copy'[u] = copy[u]
         /\ cell' = d \/ cell' = cell
<1>1. /\ copy' = [copy EXCEPT ![t] = d]
      /\ cell' = d \/ cell' = cell
  BY DEF Write
<1>2. copy'[t] = d /\ \A u \in Tab \ {t} : copy'[u] = copy[u]
  BY <1>1 DEF TypeOK
<1>3. Tokens'  BY <1>1, <1>2 DEF Tokens
<1>. QED  BY <1>1, <1>2, <1>3

LEMMA SyncDoneIInv ==
  ASSUME IInv, TypeOK', NEW t \in Tab, SyncDone(t)
  PROVE  IInv'
<1> DEFINE s == sync[t]
           d == Synced(copy[t], s)
<1>1. /\ TypeOK /\ server \in [Message -> Version] /\ clock \in Nat
      /\ Numbered(server, clock) /\ Tokens /\ Answers /\ InSession /\ Intact
  BY DEF IInv, TypeOK
<1>2. /\ UNCHANGED <<server, clock, loggedIn, call>>
      /\ s # None /\ s.done /\ Write(t, After(t, d)) /\ EndInit(t)
      /\ raced' = (raced \/ Overtaken(t))
      /\ sync' = [sync EXCEPT ![t] = None]
  BY DEF SyncDone
<1>3. /\ s \in Sync /\ UnderWay(s, server, clock)
      /\ copy[t] \in Data /\ copy[t].token \in Nat /\ copy[t].token <= clock + 1
  <2>1. s \in Sync /\ copy[t] \in Data  BY <1>1, <1>2 DEF TypeOK
  <2>2. copy[t].token \in Nat  BY <2>1 DEF Data
  <2>. QED  BY <1>1, <1>2, <2>1, <2>2 DEF Answers, Tokens
<1>4. sync'[t] = None /\ \A u \in Tab \ {t} : sync'[u] = sync[u]
  BY <1>1, <1>2 DEF TypeOK
<1>5. d \in Data /\ d.token <= clock + 1
  <2>1. Push(copy[t].known, s.got) \in [Message -> Version]
    BY <1>3, PushType DEF Data, Sync
  <2>2. s.till \in Nat /\ s.till <= clock + 1  BY <1>3 DEF Sync, UnderWay
  <2>3. d.token = IF s.of = All THEN s.till ELSE copy[t].token  BY DEF Synced
  <2>5. (IF s.of = All /\ s.from = 0 THEN s.cut ELSE copy[t].cut) \in SUBSET Nat
    BY <1>3 DEF Sync, Data
  <2>6. (IF s.of = All THEN s.till ELSE copy[t].token) \in Nat  BY <1>3, <2>2
  <2>4. d \in Data  BY <2>1, <2>5, <2>6 DEF Synced, Data
  <2>. QED  BY <1>3, <2>2, <2>3, <2>4
<1>6. ASSUME ~raced' PROVE WholeIn(d, server)
  <2>1. /\ ~raced /\ ~Overtaken(t)  BY <1>2, <1>6
  <2>2. /\ WholeIn(copy[t], server)
        /\ Filling(t) => copy[t].known = Blank.known
    BY <1>1, <2>1 DEF Intact
  <2>3. CASE s.of = All
    <3>1. s.from \in Nat /\ s.from <= copy[t].token
      BY <1>3, <2>1, <2>3 DEF Overtaken, Sync
    <3>2. s.from = 0 => copy[t].known = Blank.known  BY <1>2, <2>2, <2>3 DEF Filling
    <3>. QED  BY <1>1, <1>2, <1>3, <2>2, <2>3, <3>1, <3>2, SyncedWhole
  <2>4. CASE s.of # All
    <3>1. ~Late(t, s.got)  BY <2>1, <2>4 DEF Overtaken
    <3>2. copy[t].token # 0 /\ \A m \in Message :
            ~(s.got[m] # Nothing /\ s.got[m].at < server[m].at /\ server[m].at < copy[t].token)
      BY <3>1 DEF Late
    <3>3. s.got \in [Message -> Version] /\ RealIn(s.got, server)
      BY <1>3 DEF Sync, UnderWay
    <3>4. WholeIn([copy[t] EXCEPT !.known = Push(copy[t].known, s.got)], server)
      BY <1>1, <1>3, <2>2, <3>2, <3>3, PushedWhole
    <3>5. d = [copy[t] EXCEPT !.known = Push(copy[t].known, s.got)]
      BY <1>3, <2>4 DEF Synced, Data
    <3>. QED  BY <3>4, <3>5
  <2>. QED  BY <2>3, <2>4
<1> HIDE DEF d
<1> DEFINE e == After(t, d)
<1>7. e \in Data /\ e.token <= clock + 1 /\ (~raced' => WholeIn(e, server))
  <2>1. Blank.token = 0  BY DEF Blank
  <2>2. Blank \in Data /\ Blank.token <= clock + 1 /\ WholeIn(Blank, server)
    BY <1>1, <2>1, BlankType, BlankWhole
  <2>. QED  BY <1>5, <1>6, <2>2 DEF After
<1>8. Write(t, e)  BY <1>2
<1> HIDE DEF e
<1>9. /\ Tokens'
      /\ copy'[t] = e /\ \A u \in Tab \ {t} : copy'[u] = copy[u]
      /\ cell' = e \/ cell' = cell
  BY <1>1, <1>2, <1>7, <1>8, WriteIntact
<1>10. Answers'  BY <1>1, <1>2, <1>4 DEF Answers
<1>11. InSession'
  BY <1>1, <1>2 DEF InSession, EndInit, TypeOK
<1>12. Intact'
  <2> SUFFICES ASSUME ~raced' PROVE Intact'
    BY DEF Intact
  <2>1. ~raced  BY <1>2
  <2>2. WholeIn(cell', server)  BY <1>1, <1>7, <1>9, <2>1 DEF Intact
  <2>3. \A u \in Tab : WholeIn(copy'[u], server)  BY <1>1, <1>7, <1>9, <2>1 DEF Intact
  <2>4. \A u \in Tab : Filling(u)' => u # t /\ Filling(u)  BY <1>4 DEF Filling
  <2>5. \A u \in Tab : Filling(u)' => copy'[u].known = Blank.known
    BY <1>1, <1>9, <2>1, <2>4 DEF Intact
  <2>6. ~loggedIn => \A u \in Tab : sync'[u] = None  BY <1>1, <1>4, <2>1 DEF Intact
  <2>. QED  BY <1>2, <2>2, <2>3, <2>5, <2>6 DEF Intact
<1>. QED  BY <1>1, <1>2, <1>9, <1>10, <1>11, <1>12 DEF IInv

LEMMA SyncFailsIInv ==
  ASSUME IInv, TypeOK', NEW t \in Tab, SyncFails(t)
  PROVE  IInv'
<1>1. /\ TypeOK /\ server \in [Message -> Version] /\ clock \in Nat
      /\ Numbered(server, clock) /\ Tokens /\ Answers /\ InSession /\ Intact
  BY DEF IInv, TypeOK
<1>2. /\ UNCHANGED <<server, clock, loggedIn, call, cell, raced>> /\ EndInit(t)
      /\ copy' = [copy EXCEPT ![t] = After(t, @)]
      /\ sync' = [sync EXCEPT ![t] = None]
  BY DEF SyncFails
<1>3. sync'[t] = None /\ \A u \in Tab \ {t} : sync'[u] = sync[u]
  BY <1>1, <1>2 DEF TypeOK
<1>4. /\ copy'[t] = copy[t] \/ copy'[t] = Blank
      /\ \A u \in Tab \ {t} : copy'[u] = copy[u]
  BY <1>1, <1>2 DEF TypeOK, After
<1>5. Blank.token = 0 /\ WholeIn(Blank, server)  BY <1>1, BlankWhole DEF Blank
<1>6. Tokens'  BY <1>1, <1>2, <1>4, <1>5 DEF Tokens
<1>7. Answers'  BY <1>1, <1>2, <1>3 DEF Answers
<1>8. InSession'  BY <1>1, <1>2 DEF InSession, EndInit, TypeOK
<1>9. Intact'
  <2>1. \A u \in Tab : Filling(u)' => u # t /\ Filling(u)  BY <1>3 DEF Filling
  <2>. QED  BY <1>1, <1>2, <1>3, <1>4, <1>5, <2>1 DEF Intact
<1>. QED  BY <1>1, <1>2, <1>6, <1>7, <1>8, <1>9 DEF IInv

LEMMA StartCallIInv ==
  ASSUME IInv, TypeOK', NEW t \in Tab, NEW op, NEW todo, StartCall(t, op, todo)
  PROVE  IInv'
<1>1. TypeOK /\ Numbered(server, clock) /\ Tokens /\ Answers /\ InSession /\ Intact
  BY DEF IInv
<1>2. /\ UNCHANGED <<server, clock, loggedIn, cell, copy, status, sync, raced>>
      /\ call' = [call EXCEPT ![t] =
           [op |-> op, todo |-> todo, got |-> [m \in Message |-> Nothing], kept |-> 0]]
  BY DEF StartCall
<1>3. \A u \in Tab : call'[u] # None => RealIn(call'[u].got, server)
  BY <1>1, <1>2 DEF TypeOK, Answers, RealIn
<1>. QED  BY <1>1, <1>2, <1>3 DEF IInv, Tokens, Answers, InSession, Intact, Filling

LEMMA PerformIInv ==
  ASSUME IInv, TypeOK', NEW t \in Tab, Perform(t)
  PROVE  IInv'
<1> DEFINE c == call[t]
<1>1. /\ TypeOK /\ server \in [Message -> Version] /\ clock \in Nat
      /\ Numbered(server, clock) /\ Tokens /\ Answers /\ InSession /\ Intact
  BY DEF IInv, TypeOK
<1>2. UNCHANGED <<loggedIn, cell, copy, status, sync, raced>> /\ c # None
  BY DEF Perform
<1>3. c \in Call /\ RealIn(c.got, server)  BY <1>1, <1>2 DEF TypeOK, Answers
<1>4. PICK m \in c.todo :
        IF server[m].state = "deleted"
        THEN /\ call' = [call EXCEPT ![t] = [c EXCEPT !.todo = @ \ {m}]]
             /\ UNCHANGED <<server, clock, news, missed>>
        ELSE /\ call' = [call EXCEPT ![t] =
                  [c EXCEPT !.todo = @ \ {m}, !.got = Kept(c, m), !.kept = @ + 1]]
             /\ Become(m, c.op)
  BY DEF Perform
<1>5. CASE server[m].state = "deleted"
  <2>1. UNCHANGED <<server, clock>> /\ call' = [call EXCEPT ![t] = [c EXCEPT !.todo = @ \ {m}]]
    BY <1>4, <1>5
  <2>2. [c EXCEPT !.todo = @ \ {m}].got = c.got  BY <1>3 DEF Call
  <2>3. \A u \in Tab : call'[u] # None => RealIn(call'[u].got, server)
    BY <1>1, <1>3, <2>1, <2>2 DEF TypeOK, Answers
  <2>. QED  BY <1>1, <1>2, <2>1, <2>3 DEF IInv, Tokens, Answers, InSession, Intact, Filling
<1>6. CASE server[m].state # "deleted"
  <2> DEFINE v == [at |-> clock + 1, state |-> c.op]
             r == [c EXCEPT !.todo = @ \ {m}, !.got = Kept(c, m), !.kept = @ + 1]
  <2>1. Become(m, c.op) /\ call' = [call EXCEPT ![t] = r]  BY <1>4, <1>6
  <2>2. m \in Message /\ c.op \in State \ {"none"}  BY <1>3, <1>4 DEF Call, State
  <2>3. v \in Version /\ v.at = clock + 1 /\ server' = [server EXCEPT ![m] = v]
    BY <1>1, <2>1, <2>2 DEF Version, Become
  <2> HIDE DEF v
  <2>4. ASSUME NEW got \in [Message -> Version], RealIn(got, server)
        PROVE  RealIn(got, server')
    BY <1>1, <2>2, <2>3, <2>4, GrownReal
  <2>5. r.got = Kept(c, m)  BY <1>3 DEF Call
  <2>6. c.got \in [Message -> Version]  BY <1>3 DEF Call
  <2>7. RealIn(Kept(c, m), server')
    <3>1. RealIn(c.got, server')  BY <1>3, <2>4, <2>6
    <3>2. Kept(c, m) = c.got \/ Kept(c, m) = [c.got EXCEPT ![m] = v]  BY DEF Kept, v
    <3>3. server'[m] = v  BY <1>1, <2>2, <2>3
    <3>4. RealIn([c.got EXCEPT ![m] = v], server')
      BY <2>3, <2>6, <3>1, <3>3 DEF RealIn, Version
    <3>. QED  BY <3>1, <3>2, <3>4
  <2>8. ASSUME NEW u \in Tab, call'[u] # None
        PROVE  RealIn(call'[u].got, server')
    <3>1. CASE u = t
      <4>1. call'[u] = r  BY <1>1, <2>1, <3>1 DEF TypeOK
      <4>. QED  BY <2>5, <2>7, <4>1
    <3>2. CASE u # t
      <4>1. call'[u] = call[u]  BY <1>1, <2>1, <3>2 DEF TypeOK
      <4>2. call[u] \in Call  BY <1>1, <2>8, <4>1 DEF TypeOK
      <4>3. call[u].got \in [Message -> Version]  BY <4>2 DEF Call
      <4>4. RealIn(call[u].got, server)  BY <1>1, <2>8, <4>1 DEF Answers
      <4>. QED  BY <2>4, <4>1, <4>3, <4>4
    <3>. QED  BY <3>1, <3>2
  <2>. QED  BY <1>2, <2>1, <2>2, <2>8, BecomeIInv
<1>. QED  BY <1>5, <1>6

LEMMA ChangeIInv ==
  ASSUME IInv, TypeOK', NEW m \in Message, Change(m)
  PROVE  IInv'
<1>1. PICK s \in State \ {"none"} : Become(m, s)  BY DEF Change
<1>2. UNCHANGED <<cell, copy, sync, call, status, loggedIn, raced>>  BY DEF Change, tabs
<1> DEFINE v == [at |-> clock + 1, state |-> s]
<1>3. /\ TypeOK /\ server \in [Message -> Version] /\ clock \in Nat
      /\ Numbered(server, clock) /\ Answers
  BY DEF IInv, TypeOK
<1>4. v \in Version /\ v.at = clock + 1 /\ server' = [server EXCEPT ![m] = v]
  BY <1>1, <1>3 DEF Version, Become
<1> HIDE DEF v
<1>5. ASSUME NEW u \in Tab, call'[u] # None
      PROVE  RealIn(call'[u].got, server')
  <2>1. call[u] \in Call /\ RealIn(call[u].got, server)
    BY <1>2, <1>3, <1>5 DEF TypeOK, Answers
  <2>2. call[u].got \in [Message -> Version]  BY <2>1 DEF Call
  <2>. QED  BY <1>2, <1>3, <1>4, <2>1, <2>2, GrownReal
<1>. QED  BY <1>1, <1>2, <1>5, BecomeIInv

LEMMA CallEndsIInv ==
  ASSUME IInv, TypeOK', NEW t \in Tab, CallDone(t) \/ CallFails(t)
  PROVE  IInv'
<1>1. /\ TypeOK /\ server \in [Message -> Version] /\ clock \in Nat
      /\ Numbered(server, clock) /\ Tokens /\ Answers /\ InSession /\ Intact
  BY DEF IInv, TypeOK
<1>2. /\ UNCHANGED <<server, clock, loggedIn, status, sync>>
      /\ call' = [call EXCEPT ![t] = None]
  BY DEF CallDone, CallFails
<1>3. \A u \in Tab : call'[u] # None => RealIn(call'[u].got, server)
  BY <1>1, <1>2 DEF TypeOK, Answers
<1>4. Answers' /\ InSession'  BY <1>1, <1>2, <1>3 DEF Answers, InSession
<1>5. CASE CallFails(t)
  BY <1>1, <1>2, <1>4, <1>5 DEF CallFails, IInv, Tokens, Intact, Filling
<1>6. CASE CallDone(t)
  <2> DEFINE c == call[t]
             d == Updated(copy[t], c.got)
  <2>1. Write(t, d) /\ raced' = (raced \/ Late(t, c.got)) /\ c # None
    BY <1>6 DEF CallDone
  <2>2. /\ copy[t] \in Data /\ c \in Call /\ RealIn(c.got, server)
        /\ copy[t].token <= clock + 1
    BY <1>1, <2>1 DEF TypeOK, Answers, Tokens
  <2>3. c.got \in [Message -> Version]  BY <2>2 DEF Call
  <2>4. d \in Data /\ d.token = copy[t].token
    <3>1. Push(copy[t].known, c.got) \in [Message -> Version]
      BY <2>2, <2>3, PushType DEF Data
    <3>. QED  BY <2>2, <3>1 DEF Updated, Data
  <2>5. ASSUME ~raced' PROVE WholeIn(d, server) /\ ~raced /\ ~Filling(t)
    <3>1. ~raced /\ ~Late(t, c.got)  BY <2>1, <2>5
    <3>2. WholeIn(copy[t], server)  BY <1>1, <3>1 DEF Intact
    <3>3. ~Filling(t) /\ copy[t].token # 0 /\ \A m \in Message :
            ~(c.got[m] # Nothing /\ c.got[m].at < server[m].at /\ server[m].at < copy[t].token)
      BY <3>1 DEF Late
    <3>4. d = [copy[t] EXCEPT !.known = Push(copy[t].known, c.got)]  BY DEF Updated
    <3>5. WholeIn(d, server)  BY <1>1, <2>2, <2>3, <3>2, <3>3, <3>4, PushedWhole
    <3>. QED  BY <3>1, <3>3, <3>5
  <2>6. d.token <= clock + 1  BY <2>2, <2>4
  <2> HIDE DEF d
  <2>7. /\ Tokens'
        /\ copy'[t] = d /\ \A u \in Tab \ {t} : copy'[u] = copy[u]
        /\ cell' = d \/ cell' = cell
    BY <1>1, <1>2, <2>1, <2>4, <2>6, WriteIntact
  <2>8. Intact'
    <3> SUFFICES ASSUME ~raced' PROVE Intact'
      BY DEF Intact
    <3>1. \A u \in Tab : Filling(u)' => u # t /\ Filling(u)  BY <1>2, <2>5 DEF Filling
    <3>. QED  BY <1>1, <1>2, <2>5, <2>7, <3>1 DEF Intact
  <2>. QED  BY <1>1, <1>2, <1>4, <2>7, <2>8 DEF IInv
<1>. QED  BY <1>5, <1>6

LEMMA InitializeIInv ==
  ASSUME IInv, TypeOK', NEW t \in Tab, Initialize(t)
  PROVE  IInv'
<1>1. /\ TypeOK /\ server \in [Message -> Version] /\ clock \in Nat
      /\ Numbered(server, clock) /\ Tokens /\ Answers /\ InSession /\ Intact
  BY DEF IInv, TypeOK
<1>2. loggedIn /\ UNCHANGED <<server, clock, loggedIn, call, raced>>
  BY DEF Initialize
<1>3. PICK drop \in BOOLEAN :
        LET data == IF drop THEN Blank ELSE copy[t] IN
        /\ IF data # copy[t] THEN Write(t, Blank) ELSE UNCHANGED <<cell, copy, stale>>
        /\ IF Attends(t)
           THEN /\ status' = [status EXCEPT ![t] = "initializing"]
                /\ StartSync(t, All, data.token)
                /\ UNCHANGED timer
           ELSE /\ status' = [status EXCEPT ![t] = "ready"]
                /\ timer' = IF Polling THEN timer \cup {t} ELSE timer
                /\ UNCHANGED sync
  BY DEF Initialize
<1> DEFINE data == IF drop THEN Blank ELSE copy[t]
<1>4. Blank \in Data /\ Blank.token = 0 /\ WholeIn(Blank, server)
  BY <1>1, BlankType, BlankWhole DEF Blank
<1>5. data \in Data /\ data.token \in Nat
  <2>1. data \in Data  BY <1>1, <1>4 DEF TypeOK
  <2>. QED  BY <2>1 DEF Data
<1>6. /\ Tokens'
      /\ copy'[t] = data /\ \A u \in Tab \ {t} : copy'[u] = copy[u]
      /\ cell' = Blank \/ cell' = cell
  <2>1. CASE data # copy[t]
    <3>1. Write(t, Blank) /\ data = Blank  BY <1>3, <2>1
    <3>. QED  BY <1>1, <1>2, <1>4, <3>1, WriteIntact
  <2>2. CASE data = copy[t]
    BY <1>1, <1>2, <1>3, <2>2 DEF Tokens
  <2>. QED  BY <2>1, <2>2
<1>7. data = Blank \/ data = copy[t]  OBVIOUS
<1>8. StartSync(t, All, data.token) \/ UNCHANGED sync  BY <1>3
<1> HIDE DEF data
<1>9. /\ Answers'
      /\ \A u \in Tab : Filling(u)' => Filling(u) \/ (u = t /\ data.token = 0)
  <2>1. CASE UNCHANGED sync  BY <1>1, <1>2, <2>1 DEF Answers, Filling
  <2>2. CASE StartSync(t, All, data.token)
    BY <1>1, <1>2, <1>5, <2>2, StartSyncIntact
  <2>. QED  BY <1>8, <2>1, <2>2
<1>10. InSession'  BY <1>2 DEF InSession
<1>11. Intact'
  <2> SUFFICES ASSUME ~raced PROVE Intact'
    BY <1>2 DEF Intact
  <2>1. /\ WholeIn(data, server)
        /\ Filling(t) => data.known = Blank.known
    BY <1>1, <1>4, <1>7 DEF Intact
  <2>2. ASSUME NEW u \in Tab, Filling(u)' PROVE copy'[u].known = Blank.known
    <3>1. CASE u = t  BY <1>6, <1>9, <2>1, <2>2, <3>1 DEF WholeIn
    <3>2. CASE u # t  BY <1>1, <1>6, <1>9, <2>2, <3>2 DEF Intact
    <3>. QED  BY <3>1, <3>2
  <2>. QED  BY <1>1, <1>2, <1>4, <1>6, <2>1, <2>2 DEF Intact
<1>. QED  BY <1>1, <1>2, <1>6, <1>9, <1>10, <1>11 DEF IInv

LEMMA LifeIInv ==
  ASSUME IInv, TypeOK', NEW t \in Tab,
         Deliver(t) \/ Register(t) \/ Follow(t) \/ MainMoves(t) \/ Reload(t)
  PROVE  IInv'
<1>1. /\ TypeOK /\ server \in [Message -> Version] /\ clock \in Nat
      /\ Numbered(server, clock) /\ Tokens /\ Answers /\ InSession /\ Intact
  BY DEF IInv, TypeOK
<1>2. CASE Deliver(t) \/ MainMoves(t) \/ Register(t)
  BY <1>1, <1>2
  DEF Deliver, MainMoves, Register, tabs, heard, IInv, Tokens, Answers, InSession, Intact,
      Filling
<1>3. CASE Follow(t)
  <2>1. /\ UNCHANGED <<server, clock, loggedIn, cell, status, sync, call>>
        /\ raced' = (raced \/ (Filling(t) /\ cell.known # Blank.known))
        /\ copy' = [copy EXCEPT ![t] = cell]
    BY <1>3 DEF Follow
  <2>2. copy'[t] = cell /\ \A u \in Tab \ {t} : copy'[u] = copy[u]
    BY <1>1, <2>1 DEF TypeOK
  <2>3. Tokens'  BY <1>1, <2>1, <2>2 DEF Tokens
  <2>4. Answers' /\ InSession'  BY <1>1, <2>1 DEF Answers, InSession
  <2>5. Intact'
    <3> SUFFICES ASSUME ~raced' PROVE Intact'
      BY DEF Intact
    <3>. QED  BY <1>1, <2>1, <2>2 DEF Intact, Filling
  <2>. QED  BY <1>1, <2>1, <2>3, <2>4, <2>5 DEF IInv
<1>4. CASE Reload(t)
  <2>1. /\ UNCHANGED <<server, clock, loggedIn, cell, raced>>
        /\ copy' = [copy EXCEPT ![t] = IF cached /\ loggedIn THEN cell ELSE Blank]
        /\ sync' = [sync EXCEPT ![t] = None]
        /\ call' = [call EXCEPT ![t] = None]
        /\ status' = [status EXCEPT ![t] = "pending"]
    BY <1>4 DEF Reload
  <2>2. /\ copy'[t] = cell \/ copy'[t] = Blank
        /\ sync'[t] = None /\ call'[t] = None /\ status'[t] = "pending"
        /\ \A u \in Tab \ {t} : /\ copy'[u] = copy[u] /\ sync'[u] = sync[u]
                                 /\ call'[u] = call[u] /\ status'[u] = status[u]
    BY <1>1, <2>1 DEF TypeOK
  <2>3. Blank.token = 0 /\ WholeIn(Blank, server)  BY <1>1, BlankWhole DEF Blank
  <2>4. Tokens'  BY <1>1, <2>1, <2>2, <2>3 DEF Tokens
  <2>5. Answers' /\ InSession'  BY <1>1, <2>1, <2>2 DEF Answers, InSession
  <2>6. Intact'
    <3>1. \A u \in Tab : Filling(u)' => u # t /\ Filling(u)  BY <2>2 DEF Filling
    <3>. QED  BY <1>1, <2>1, <2>2, <2>3, <3>1 DEF Intact
  <2>. QED  BY <1>1, <2>1, <2>4, <2>5, <2>6 DEF IInv
<1>. QED  BY <1>2, <1>3, <1>4

LEMMA SessionIInv ==
  ASSUME IInv, TypeOK', Login \/ Logout
  PROVE  IInv'
<1>1. /\ TypeOK /\ server \in [Message -> Version] /\ clock \in Nat
      /\ Numbered(server, clock) /\ Tokens /\ Answers /\ InSession /\ Intact
  BY DEF IInv, TypeOK
<1>2. CASE Login
  <2>1. /\ ~loggedIn /\ loggedIn'
        /\ UNCHANGED <<server, clock, cell, status, sync, call, raced>>
        /\ copy' = IF cached THEN [t \in Tab |-> cell] ELSE copy
    BY <1>2 DEF Login
  <2>2. \A u \in Tab : copy'[u] = copy[u] \/ copy'[u] = cell
    BY <2>1
  <2>3. Tokens' /\ Answers' /\ InSession'
    BY <1>1, <2>1, <2>2 DEF Tokens, Answers, InSession
  <2>4. Intact'
    BY <1>1, <2>1, <2>2 DEF Intact, Filling
  <2>. QED  BY <1>1, <2>1, <2>3, <2>4 DEF IInv
<1>3. CASE Logout
  <2>1. /\ ~loggedIn' /\ UNCHANGED <<server, clock, sync, call>>
        /\ status' = [t \in Tab |-> IF t \in Leaving THEN "pending" ELSE status[t]]
        /\ copy' = Dropped
        /\ cell' = IF cached /\ Leaving # {} THEN Blank ELSE cell
        /\ raced' = (raced \/ \E t \in Tab : sync[t] # None \/ call[t] # None)
    BY <1>3 DEF Logout
  <2>2. Blank.token = 0 /\ WholeIn(Blank, server)  BY <1>1, BlankWhole DEF Blank
  <2>3. \A u \in Tab : copy'[u] = copy[u] \/ copy'[u] = Blank
    BY <2>1 DEF Dropped
  <2>4. Tokens' /\ Answers'
    BY <1>1, <2>1, <2>2, <2>3 DEF Tokens, Answers
  <2>5. InSession'
    BY <1>1, <2>1 DEF InSession, Leaving
  <2>6. Intact'
    BY <1>1, <2>1, <2>2, <2>3 DEF Intact, Filling
  <2>. QED  BY <1>1, <2>1, <2>4, <2>5, <2>6 DEF IInv
<1>. QED  BY <1>2, <1>3

LEMMA NextIInv == IInv /\ [Next]_vars => IInv'
<1> SUFFICES ASSUME IInv, [Next]_vars PROVE IInv'
  OBVIOUS
<1>1. TypeOK /\ TypeOK'  BY NextType DEF IInv
<1>2. CASE UNCHANGED vars
  BY <1>1, <1>2 DEF IInv, Tokens, Answers, InSession, Intact, Filling, vars, tabs, heard
<1>3. CASE \E t \in Open : Hear(t) \/ Step(t)
  <2>1. PICK t \in Open : Hear(t) \/ Step(t)  BY <1>3
  <2>2. t \in Tab  BY <1>1, <2>1 DEF Open, TypeOK
  <2>3. CASE \/ AnswerChanges(t) \/ AnswerPage(t) \/ SyncDone(t) \/ SyncFails(t)
            \/ Hear(t) \/ TimerFires(t) \/ Reconnect(t)
            \/ \E c \in Conversation : SyncConversation(t, c)
    BY <1>1, <2>2, <2>3, ServerIInv, SyncDoneIInv, SyncFailsIInv, StartsIInv
  <2>4. CASE \/ \E c \in Conversation : ReadMessages(t, c)
            \/ \E m \in Message : UnreadMessage(t, m) \/ DeleteMessage(t, m) \/ Send(t, m)
    BY <1>1, <2>2, <2>4, StartCallIInv DEF ReadMessages, UnreadMessage, DeleteMessage, Send
  <2>5. CASE Perform(t) \/ CallDone(t) \/ CallFails(t)
    BY <1>1, <2>2, <2>5, PerformIInv, CallEndsIInv
  <2>6. CASE \/ Deliver(t) \/ Initialize(t) \/ Register(t) \/ Follow(t) \/ MainMoves(t)
            \/ Reload(t)
    BY <1>1, <2>2, <2>6, InitializeIInv, LifeIInv
  <2>. QED  BY <2>1, <2>3, <2>4, <2>5, <2>6 DEF Step
<1>4. CASE Login \/ Logout \/ \E m \in Message : Change(m)
  BY <1>1, <1>4, SessionIInv, ChangeIInv
<1>. QED  BY <1>2, <1>3, <1>4 DEF Next

\* What a tab shows is complete up to its sync token, unless an answer came too late.
THEOREM SyncsLoseNothing == Spec => []NothingLostForGood
<1>1. IInv => NothingLostForGood
  BY DEF IInv, Intact, WholeIn, NothingLostForGood, Sound
<1>. QED  BY InitIInv, NextIInv, <1>1, PTL DEF Spec

-----------------------------------------------------------------------------
(* Nothing is missed: the changes that the main tab lacks are on their way. *)

\* Every change has a number of its own.
Distinct ==
  \A m, n \in Message :
    /\ server[m].at = server[n].at /\ server[m].at # 0 => m = n
    /\ server[m].at = 0 => server[m] = Nothing

\* Notifications come in the order of the changes.
InOrder ==
  \A t \in Tab : /\ news[t] <= clock /\ unheard[t] <= clock
                 /\ news[t] # 0 => unheard[t] <= news[t]

\* Tab t is told of change i, or asks the server for everything up to it, or will: when it
\* starts, or by its timeout.
Told(t, i)   == i <= news[t] \/ i <= unheard[t]
Brings(t, i) == sync[t] # None /\ sync[t].of = All /\ (sync[t].till = 0 \/ i < sync[t].till)
Awaits(t, i) == status[t] = "pending" \/ t \in timer \/ Brings(t, i) \/ Told(t, i)

\* The changes that are not given up.
Unmissed == {server[m].at : m \in Message} \ (missed \cup {0})

MainAwaits == \A i \in Unmissed : copy[main].token <= i => Awaits(main, i)

\* What the answer of a sync lacks its tab is told of.
SyncsTold ==
  \A t \in Open : \A i \in Unmissed :
    sync[t] # None /\ sync[t].of = All /\ sync[t].till # 0 /\ sync[t].till <= i => Told(t, i)

\* Tabs that share the data have them, or have yet to read them.
CellShared == cached /\ loggedIn => \A t \in Tab \ stale : copy[t] = cell

\* A tab that starts syncs everything.
Begun ==
  \A t \in Tab :
    /\ status[t] = "pending" /\ sync[t] # None => sync[t].of = All
    /\ status[t] = "initializing" => sync[t] # None /\ sync[t].of = All
    /\ t \notin Open => status[t] = "pending"

Served == ~raced => MainAwaits /\ SyncsTold /\ CellShared /\ Begun

MIInv == IInv /\ Distinct /\ InOrder /\ Served

LEMMA ServedParts ==
  ASSUME MIInv
  PROVE  /\ TypeOK /\ Distinct /\ InOrder /\ InSession
         /\ Intact /\ Answers /\ Numbered(server, clock)
         /\ ~raced => MainAwaits /\ SyncsTold /\ CellShared /\ Begun
         /\ Open \subseteq Tab /\ main \in Tab /\ main \in Open
         /\ clock \in Nat
         /\ \A t \in Tab : /\ news[t] \in Nat /\ unheard[t] \in Nat /\ copy[t].token \in Nat
                           /\ sync[t] # None => sync[t] \in Sync /\ sync[t].till \in Nat
         /\ \A i \in Unmissed : i \in Nat /\ i # 0 /\ i <= clock /\ i \notin missed
<1>1. TypeOK /\ InSession /\ Intact /\ Answers /\ Numbered(server, clock) /\ Distinct /\ InOrder
  BY DEF MIInv, IInv
<1>2. Open \subseteq Tab /\ main \in Tab /\ main \in Open /\ clock \in Nat
  BY <1>1 DEF TypeOK, Open
<1>3. ASSUME NEW t \in Tab
      PROVE  /\ news[t] \in Nat /\ unheard[t] \in Nat /\ copy[t].token \in Nat
             /\ sync[t] # None => sync[t] \in Sync /\ sync[t].till \in Nat
  BY <1>1 DEF TypeOK, Data, Sync
<1>4. ASSUME NEW i \in Unmissed PROVE i \in Nat /\ i # 0 /\ i <= clock /\ i \notin missed
  <2>1. PICK m \in Message : i = server[m].at  BY DEF Unmissed
  <2>2. server[m].at \in Nat  BY <1>1 DEF TypeOK, Version
  <2>. QED  BY <1>1, <2>1, <2>2 DEF Unmissed, Numbered
<1>. QED  BY <1>1, <1>2, <1>3, <1>4 DEF MIInv, Served

\* Fewer changes are unmissed once more are given up.
LEMMA FewerUnmissed ==
  ASSUME UNCHANGED server, missed \subseteq missed'
  PROVE  \A i \in Unmissed' : i \in Unmissed /\ i \notin missed'
BY DEF Unmissed

LEMMA InitServed == Init => Distinct /\ InOrder /\ Served
<1> SUFFICES ASSUME Init PROVE Distinct /\ InOrder /\ Served
  OBVIOUS
<1>1. Distinct /\ InOrder  BY DEF Init, Distinct, InOrder, Nothing
<1>2. Unmissed = {}  BY DEF Init, Unmissed, Nothing
<1>3. Served  BY <1>2 DEF Init, Served, MainAwaits, SyncsTold, CellShared, Begun
<1>. QED  BY <1>1, <1>3

\* Steps that leave alone what the tabs wait for.
LEMMA QuietServed ==
  ASSUME MIInv,
         UNCHANGED <<cached, server, clock, loggedIn, main, cell, copy, stale, status, sync,
                     timer, news, unheard, missed, raced>>
  PROVE  Distinct' /\ InOrder' /\ Served'
BY ServedParts
DEF Distinct, InOrder, Served, MainAwaits, SyncsTold, CellShared, Begun, Unmissed, Awaits,
    Brings, Told, Open

\* Change and Perform: the tabs are told of the change, or it is given up.
LEMMA BecomeServed ==
  ASSUME MIInv, NEW m \in Message, NEW s, Become(m, s),
         UNCHANGED <<cached, loggedIn, main, cell, copy, stale, status, sync, timer, unheard,
                     raced>>
  PROVE  Distinct' /\ InOrder' /\ Served'
<1>1. /\ server' = [server EXCEPT ![m] = [at |-> clock + 1, state |-> s]]
      /\ clock' = clock + 1
      /\ news' = [t \in Tab |-> IF t \in registered THEN clock + 1 ELSE news[t]]
      /\ missed' = (missed \ {server[m].at})
                     \cup (IF registered = Open THEN {} ELSE {clock + 1})
  BY DEF Become
<1>2. /\ TypeOK /\ Distinct /\ InOrder /\ Numbered(server, clock) /\ clock \in Nat
      /\ Open \subseteq Tab /\ main \in Open
      /\ \A t \in Tab : news[t] \in Nat /\ unheard[t] \in Nat
  BY ServedParts
<1>3. /\ server'[m].at = clock + 1
      /\ \A n \in Message \ {m} : server'[n] = server[n]
      /\ \A n \in Message : server[n].at \in Nat /\ server[n].at <= clock
  <2>1. server \in [Message -> Version]  BY <1>2 DEF TypeOK
  <2>2. \A n \in Message : server[n].at \in Nat /\ server[n].at <= clock
    BY <1>2, <2>1 DEF Version, Numbered
  <2>. QED  BY <1>1, <2>1, <2>2
<1>4. Distinct'
  <2> SUFFICES ASSUME NEW a \in Message, NEW b \in Message
               PROVE  /\ server'[a].at = server'[b].at /\ server'[a].at # 0 => a = b
                      /\ server'[a].at = 0 => server'[a] = Nothing
    BY DEF Distinct
  <2>1. clock + 1 > clock /\ clock + 1 # 0  BY <1>2
  <2>2. CASE a = m \/ b = m  BY <1>2, <1>3, <2>1, <2>2 DEF Distinct
  <2>3. CASE a # m /\ b # m  BY <1>2, <1>3, <2>3 DEF Distinct
  <2>. QED  BY <2>2, <2>3
<1>5. \A t \in Tab : news'[t] \in Nat /\ news[t] <= news'[t] /\ news'[t] <= clock + 1
  BY <1>1, <1>2 DEF InOrder
<1>6. InOrder'
  <2> SUFFICES ASSUME NEW t \in Tab
               PROVE  /\ news'[t] <= clock + 1 /\ unheard[t] <= clock + 1
                      /\ news'[t] # 0 => unheard[t] <= news'[t]
    BY <1>1 DEF InOrder
  <2>1. unheard[t] <= clock /\ news[t] <= clock /\ (news[t] # 0 => unheard[t] <= news[t])
    BY <1>2 DEF InOrder
  <2>2. news'[t] = clock + 1 \/ news'[t] = news[t]  BY <1>1
  <2>. QED  BY <1>2, <1>5, <2>1, <2>2
<1>7. ASSUME NEW i \in Unmissed'
      PROVE  i \in Unmissed \/ (i = clock + 1 /\ \A t \in Open : news'[t] = i)
  <2>1. PICK n \in Message : i = server'[n].at  BY DEF Unmissed
  <2>2. i # 0 /\ i \notin missed'  BY DEF Unmissed
  <2>3. CASE n = m
    <3>1. i = clock + 1  BY <1>3, <2>1, <2>3
    <3>2. registered = Open  BY <1>1, <2>2, <3>1
    <3>. QED  BY <1>1, <1>2, <3>1, <3>2
  <2>4. CASE n # m
    <3>1. i = server[n].at  BY <1>3, <2>1, <2>4
    <3>2. i # server[m].at  BY <1>2, <2>2, <2>4, <3>1 DEF Distinct
    <3>. QED  BY <1>1, <2>2, <3>1, <3>2 DEF Unmissed
  <2>. QED  BY <2>3, <2>4
<1>8. ASSUME NEW i \in Unmissed, NEW t \in Tab, Told(t, i) PROVE Told(t, i)'
  <2>1. i \in Nat  BY ServedParts
  <2>. QED  BY <1>2, <1>5, <1>8, <2>1 DEF Told
<1>9. ASSUME NEW i, NEW t \in Open, news'[t] = i, i \in Nat PROVE Told(t, i)'
  BY <1>9 DEF Told
<1>10. Served'
  <2> SUFFICES ASSUME ~raced PROVE MainAwaits' /\ SyncsTold' /\ CellShared' /\ Begun'
    BY DEF Served
  <2>1. MainAwaits /\ SyncsTold /\ CellShared /\ Begun  BY ServedParts
  <2>2. MainAwaits'
    <3> SUFFICES ASSUME NEW i \in Unmissed', copy[main].token <= i PROVE Awaits(main, i)'
      BY DEF MainAwaits
    <3>1. CASE i \in Unmissed
      BY <1>2, <1>8, <2>1, <3>1 DEF MainAwaits, Awaits, Brings
    <3>2. CASE i = clock + 1 /\ \A t \in Open : news'[t] = i
      BY <1>2, <1>9, <3>2 DEF Awaits
    <3>. QED  BY <1>7, <3>1, <3>2
  <2>3. SyncsTold'
    <3> SUFFICES ASSUME NEW t \in Open, NEW i \in Unmissed', sync[t] # None,
                        sync[t].of = All, sync[t].till # 0, sync[t].till <= i
                 PROVE  Told(t, i)'
      BY DEF SyncsTold, Open
    <3>1. CASE i \in Unmissed  BY <1>2, <1>8, <2>1, <3>1 DEF SyncsTold
    <3>2. CASE i = clock + 1 /\ \A u \in Open : news'[u] = i  BY <1>2, <1>9, <3>2
    <3>. QED  BY <1>7, <3>1, <3>2
  <2>4. CellShared' /\ Begun'  BY <2>1 DEF CellShared, Begun, Open
  <2>. QED  BY <2>2, <2>3, <2>4
<1>. QED  BY <1>4, <1>6, <1>10

LEMMA ServerServed ==
  ASSUME MIInv, NEW t \in Tab, AnswerChanges(t) \/ AnswerPage(t), UNCHANGED cached
  PROVE  Distinct' /\ InOrder' /\ Served'
<1> DEFINE s == sync[t]
<1>1. UNCHANGED <<server, clock, loggedIn, main, cell, copy, stale, status, timer, news, unheard,
                  missed, raced>>
  BY DEF AnswerChanges, AnswerPage, heard
<1>2. /\ TypeOK /\ Distinct /\ InOrder /\ clock \in Nat /\ main \in Tab /\ Open \subseteq Tab
      /\ s \in Sync /\ s # None /\ s.till \in Nat
  BY ServedParts DEF AnswerChanges, AnswerPage
<1>3. PICK r : /\ sync' = [sync EXCEPT ![t] = r] /\ r # None /\ r.of = s.of /\ r.till # 0
               /\ r.till = clock + 1 \/ (s.till # 0 /\ r.till = s.till)
  <2>1. CASE AnswerChanges(t)
    <3> DEFINE r == [s EXCEPT
               !.got = [m \in Message |-> IF server[m].at >= s.from THEN server[m] ELSE Nothing],
               !.till = clock + 1, !.done = TRUE]
    <3>1. sync' = [sync EXCEPT ![t] = r]  BY <2>1 DEF AnswerChanges
    <3>2. r \in Sync
      <4>1. [m \in Message |-> IF server[m].at >= s.from THEN server[m] ELSE Nothing]
              \in [Message -> Version]
        BY <1>2 DEF TypeOK, Nothing, Version, State
      <4>2. clock + 1 \in Nat  BY <1>2
      <4>. QED  BY <1>2, <4>1, <4>2 DEF Sync
    <3>3. r.of = s.of /\ r.till = clock + 1  BY <1>2 DEF Sync
    <3> HIDE DEF r
    <3>4. r # None /\ r.till # 0  BY <1>2, <3>2, <3>3, NoneAssumption DEF NoneAssumption
    <3>. QED  BY <3>1, <3>3, <3>4
  <2>2. CASE AnswerPage(t)
    <3>0. PICK page \in SUBSET s.left, left \in SUBSET Message, cut \in SUBSET Nat :
               PageSent(t, page, left, cut)
      BY <1>2, <2>2, PageParts
    <3>1. sync' = [sync EXCEPT ![t] = [s EXCEPT
            !.got = [m \in Message |-> IF m \in page /\ Exists(m) THEN server[m] ELSE s.got[m]],
            !.till = PageToken(s), !.left = left, !.cut = cut, !.done = left = {}]]
      BY <3>0 DEF PageSent
    <3> DEFINE r == [s EXCEPT
              !.got = [m \in Message |-> IF m \in page /\ Exists(m) THEN server[m] ELSE s.got[m]],
              !.till = PageToken(s), !.left = left, !.cut = cut, !.done = left = {}]
    <3>2. sync' = [sync EXCEPT ![t] = r]  BY <3>1
    <3>3. r \in Sync
      <4>1. [m \in Message |-> IF m \in page /\ Exists(m) THEN server[m] ELSE s.got[m]]
              \in [Message -> Version]
        BY <1>2 DEF TypeOK, Sync
      <4>2. PageToken(s) \in Nat  BY <1>2 DEF PageToken
      <4>. QED  BY <1>2, <4>1, <4>2 DEF Sync
    <3>4. r.of = s.of /\ r.till = PageToken(s)  BY <1>2 DEF Sync
    <3> HIDE DEF r
    <3>5. /\ PageToken(s) # 0
          /\ PageToken(s) = clock + 1 \/ (s.till # 0 /\ PageToken(s) = s.till)
      BY <1>2 DEF PageToken
    <3>. QED  BY <3>2, <3>3, <3>4, <3>5, NoneAssumption DEF NoneAssumption
  <2>. QED  BY <2>1, <2>2
<1>4. sync'[t] = r /\ \A u \in Tab \ {t} : sync'[u] = sync[u]
  BY <1>2, <1>3 DEF TypeOK
<1>5. \A i \in Unmissed' : i \in Unmissed /\ i \in Nat /\ i <= clock
  BY <1>1, ServedParts DEF Unmissed
<1>6. Served'
  <2> SUFFICES ASSUME ~raced PROVE MainAwaits' /\ SyncsTold' /\ CellShared' /\ Begun'
    BY <1>1 DEF Served
  <2>1. MainAwaits /\ SyncsTold /\ CellShared /\ Begun  BY ServedParts
  <2>2. MainAwaits'
    <3> SUFFICES ASSUME NEW i \in Unmissed', copy[main].token <= i PROVE Awaits(main, i)'
      BY <1>1 DEF MainAwaits
    <3>1. Awaits(main, i)  BY <1>5, <2>1 DEF MainAwaits
    <3>2. Brings(main, i) => Brings(main, i)'
      BY <1>1, <1>2, <1>3, <1>4, <1>5 DEF Brings
    <3>. QED  BY <1>1, <3>1, <3>2 DEF Awaits, Told
  <2>3. SyncsTold'
    <3> SUFFICES ASSUME NEW u \in Open, NEW i \in Unmissed', sync'[u] # None,
                        sync'[u].of = All, sync'[u].till # 0, sync'[u].till <= i
                 PROVE  Told(u, i)'
      BY <1>1 DEF SyncsTold, Open
    <3>1. sync[u] # None /\ sync[u].of = All /\ sync[u].till # 0 /\ sync[u].till <= i
      BY <1>2, <1>3, <1>4, <1>5
    <3>. QED  BY <1>1, <1>5, <2>1, <3>1 DEF SyncsTold, Told
  <2>4. CellShared' /\ Begun'  BY <1>1, <1>2, <1>3, <1>4, <2>1 DEF CellShared, Begun, Open
  <2>. QED  BY <2>2, <2>3, <2>4
<1>. QED  BY <1>1, <1>2, <1>6 DEF Distinct, InOrder

\* What is kept of the syncs once one may have started.
StartedIs(t, of) ==
  /\ \A u \in Tab \ {t} : sync'[u] = sync[u]
  /\ sync[t] # None => sync'[t] = sync[t]
  /\ sync[t] = None => sync'[t] # None /\ sync'[t].of = of /\ sync'[t].till = 0

LEMMA Started ==
  ASSUME TypeOK, NEW t \in Tab, NEW of \in Conversation \cup {All}, NEW from \in Nat,
         StartSync(t, of, from)
  PROVE  StartedIs(t, of)
<1>1. CASE sync[t] # None  BY <1>1 DEF StartSync, StartedIs
<1>2. CASE sync[t] = None
  <2>1. sync' = [sync EXCEPT ![t] = Request(of, from)]  BY <1>2 DEF StartSync
  <2>2. sync'[t] = Request(of, from) /\ \A u \in Tab \ {t} : sync'[u] = sync[u]
    BY <2>1 DEF TypeOK
  <2>3. Request(of, from) # None  BY RequestType, NoneAssumption DEF NoneAssumption
  <2>4. Request(of, from).of = of /\ Request(of, from).till = 0  BY DEF Request
  <2>. QED  BY <1>2, <2>2, <2>3, <2>4 DEF StartedIs
<1>. QED  BY <1>1, <1>2

LEMMA StartsServed ==
  ASSUME MIInv, NEW t \in Tab, UNCHANGED cached,
         \/ Hear(t) \/ TimerFires(t) \/ Reconnect(t)
         \/ \E c \in Conversation : SyncConversation(t, c)
  PROVE  Distinct' /\ InOrder' /\ Served'
<1>1. UNCHANGED <<server, clock, loggedIn, main, cell, copy, stale, status, news, raced>>
  BY DEF Hear, TimerFires, Reconnect, SyncConversation, heard
<1>2. /\ TypeOK /\ Distinct /\ InOrder /\ clock \in Nat /\ main \in Tab /\ Open \subseteq Tab
      /\ \A u \in Tab : news[u] \in Nat /\ unheard[u] \in Nat /\ copy[u].token \in Nat
      /\ \A u \in Tab : sync[u] # None => sync[u].till \in Nat
  BY ServedParts
<1>3. PICK of : /\ StartedIs(t, of)
                /\ Hear(t) \/ TimerFires(t) => of = All
                /\ status[t] = "ready" \/ of = All
  <2>1. CASE Hear(t) \/ TimerFires(t) \/ Reconnect(t)
    <3>1. StartSync(t, All, copy[t].token)  BY <2>1 DEF Hear, TimerFires, Reconnect
    <3>. QED  BY <1>2, <3>1, Started
  <2>2. CASE ~(Hear(t) \/ TimerFires(t) \/ Reconnect(t))
    <3>1. PICK c \in Conversation : SyncConversation(t, c)  BY <2>2
    <3>2. PICK token \in {0, copy[t].token} : StartSync(t, c, token)
      BY <3>1 DEF SyncConversation
    <3>3. status[t] = "ready" /\ token \in Nat  BY <1>2, <3>1 DEF SyncConversation
    <3>. QED  BY <1>2, <2>2, <3>2, <3>3, Started
  <2>. QED  BY <2>1, <2>2
<1>4. /\ missed \subseteq missed'
      /\ \A u \in Tab \ {t} : unheard'[u] = unheard[u] /\ (u \in timer => u \in timer')
  <2>1. CASE Hear(t)  BY <1>2, <2>1 DEF Hear, TypeOK
  <2>2. CASE TimerFires(t)  BY <1>2, <2>2 DEF TimerFires, heard
  <2>3. CASE Reconnect(t) \/ \E c \in Conversation : SyncConversation(t, c)
    BY <1>2, <2>3 DEF Reconnect, SyncConversation, heard
  <2>. QED  BY <2>1, <2>2, <2>3
<1>5. \A i \in Unmissed' : /\ i \in Unmissed /\ i \notin missed' /\ i \in Nat /\ i # 0
                           /\ i <= clock
  BY <1>1, <1>4, FewerUnmissed, ServedParts
<1>6. InOrder'
  <2>1. \A u \in Tab : unheard'[u] = unheard[u] \/ unheard'[u] = 0
    BY <1>2 DEF Hear, TimerFires, Reconnect, SyncConversation, heard, TypeOK
  <2>. QED  BY <1>1, <1>2, <2>1 DEF InOrder
<1>7. ASSUME ~raced, SyncsTold, t \in Open, NEW i \in Unmissed', sync[t] # None,
             sync[t].of = All, sync[t].till # 0, sync[t].till <= i
      PROVE  Told(t, i)'
  <2>1. Told(t, i)  BY <1>5, <1>7 DEF SyncsTold
  <2>2. CASE Hear(t)
    <3>1. i <= unheard[t] => i \in Swallowed(t)
      BY <1>2, <1>5, <1>7 DEF Swallowed
    <3>2. ~(i <= unheard[t])  BY <1>5, <2>2, <3>1 DEF Hear
    <3>. QED  BY <1>1, <2>1, <3>2 DEF Told
  <2>3. CASE ~Hear(t)
    <3>1. unheard' = unheard
      BY <2>3 DEF TimerFires, Reconnect, SyncConversation, heard
    <3>. QED  BY <1>1, <2>1, <3>1 DEF Told
  <2>. QED  BY <2>2, <2>3
<1>8. Served'
  <2> SUFFICES ASSUME ~raced PROVE MainAwaits' /\ SyncsTold' /\ CellShared' /\ Begun'
    BY <1>1 DEF Served
  <2>1. MainAwaits /\ SyncsTold /\ CellShared /\ Begun  BY ServedParts
  <2>2. MainAwaits'
    <3> SUFFICES ASSUME NEW i \in Unmissed', copy[main].token <= i PROVE Awaits(main, i)'
      BY <1>1 DEF MainAwaits
    <3>1. Awaits(main, i)  BY <1>5, <2>1 DEF MainAwaits
    <3>2. CASE main # t
      BY <1>1, <1>2, <1>3, <1>4, <3>1, <3>2 DEF StartedIs, Awaits, Brings, Told
    <3>3. CASE main = t
      <4>1. CASE sync[t] = None /\ of = All
        BY <1>1, <1>3, <3>3, <4>1 DEF StartedIs, Awaits, Brings
      <4>2. CASE sync[t] # None /\ sync[t].of = All
        <5>1. CASE sync[t].till = 0 \/ i < sync[t].till
          BY <1>1, <1>3, <3>3, <4>2, <5>1 DEF StartedIs, Awaits, Brings
        <5>2. CASE ~(sync[t].till = 0 \/ i < sync[t].till)
          <6>1. t \in Open /\ sync[t].till <= i
            BY <1>2, <1>5, <3>3, <4>2, <5>2, ServedParts
          <6>. QED  BY <1>1, <1>7, <2>1, <3>3, <4>2, <5>2, <6>1 DEF Awaits
        <5>. QED  BY <5>1, <5>2
      <4>3. CASE ~(sync[t] = None /\ of = All) /\ ~(sync[t] # None /\ sync[t].of = All)
        <5>1. ~Brings(t, i)  BY <4>3 DEF Brings
        <5>2. CASE TimerFires(t)
          <6>1. sync[t] # None  BY <1>3, <4>3, <5>2
          <6>2. 1..clock \subseteq missed'  BY <4>3, <5>2, <6>1 DEF TimerFires
          <6>. QED  BY <1>2, <1>5, <6>2
        <5>3. CASE Hear(t)
          <6>1. sync[t] # None  BY <1>3, <4>3, <5>3
          <6>2. i <= unheard[t] => i \in Swallowed(t)
            BY <1>2, <1>5, <4>3, <6>1 DEF Swallowed
          <6>3. ~(i <= unheard[t])  BY <1>5, <5>3, <6>2 DEF Hear
          <6>4. timer' = timer  BY <5>3 DEF Hear
          <6>. QED  BY <1>1, <3>1, <3>3, <5>1, <6>3, <6>4 DEF Awaits, Told
        <5>4. CASE Reconnect(t) \/ \E c \in Conversation : SyncConversation(t, c)
          <6>1. UNCHANGED <<timer, unheard>>
            BY <5>4 DEF Reconnect, SyncConversation, heard
          <6>. QED  BY <1>1, <3>1, <3>3, <5>1, <6>1 DEF Awaits, Told
        <5>. QED  BY <5>2, <5>3, <5>4
      <4>. QED  BY <4>1, <4>2, <4>3
    <3>. QED  BY <3>2, <3>3
  <2>3. SyncsTold'
    <3> SUFFICES ASSUME NEW u \in Open, NEW i \in Unmissed', sync'[u] # None,
                        sync'[u].of = All, sync'[u].till # 0, sync'[u].till <= i
                 PROVE  Told(u, i)'
      BY <1>1 DEF SyncsTold, Open
    <3>1. CASE u = t
      <4>1. sync[t] # None /\ sync'[t] = sync[t]  BY <1>3, <3>1 DEF StartedIs
      <4>. QED  BY <1>7, <2>1, <3>1, <4>1
    <3>2. CASE u # t
      <4>1. sync'[u] = sync[u] /\ unheard'[u] = unheard[u]
        BY <1>2, <1>3, <1>4, <3>2 DEF StartedIs
      <4>2. Told(u, i)  BY <1>5, <2>1, <4>1 DEF SyncsTold
      <4>. QED  BY <1>1, <4>1, <4>2 DEF Told
    <3>. QED  BY <3>1, <3>2
  <2>4. CellShared'  BY <1>1, <2>1 DEF CellShared
  <2>5. Begun'  BY <1>1, <1>3, <2>1 DEF Begun, StartedIs, Open
  <2>. QED  BY <2>2, <2>3, <2>4, <2>5
<1>. QED  BY <1>1, <1>2, <1>6, <1>8 DEF Distinct

\* The data of tab t are replaced by d.
LEMMA Wrote ==
  ASSUME TypeOK, NEW t \in Tab, NEW d, Write(t, d), UNCHANGED <<cached, loggedIn>>
  PROVE  /\ copy'[t] = d /\ \A u \in Tab \ {t} : copy'[u] = copy[u]
         /\ cached /\ loggedIn => cell' = d /\ \A u \in Tab : u \notin stale' => u = t
         /\ CellShared'
<1>1. copy'[t] = d /\ \A u \in Tab \ {t} : copy'[u] = copy[u]  BY DEF Write, TypeOK
<1>2. cached /\ loggedIn => cell' = d /\ \A u \in Tab : u \notin stale' => u = t
  BY DEF Write
<1>. QED  BY <1>1, <1>2 DEF CellShared

LEMMA SyncDoneServed ==
  ASSUME MIInv, NEW t \in Tab, SyncDone(t), UNCHANGED cached
  PROVE  Distinct' /\ InOrder' /\ Served'
<1> DEFINE s == sync[t]
           d == After(t, Synced(copy[t], s))
<1>1. /\ UNCHANGED <<server, clock, loggedIn, main, news, unheard, missed>>
      /\ s # None /\ s.done /\ Write(t, d) /\ EndInit(t)
      /\ raced' = (raced \/ Overtaken(t))
      /\ sync' = [sync EXCEPT ![t] = None] /\ timer \subseteq timer'
  BY DEF SyncDone, heard
<1>2. /\ TypeOK /\ Distinct /\ InOrder /\ clock \in Nat /\ main \in Tab /\ main \in Open
      /\ Open \subseteq Tab /\ s \in Sync /\ s.till \in Nat /\ s.till > 0
      /\ copy[t] \in Data
  <2>1. UnderWay(s, server, clock)  BY <1>1, ServedParts DEF Answers
  <2>. QED  BY <1>1, <2>1, ServedParts DEF UnderWay, TypeOK
<1>3. sync'[t] = None /\ \A u \in Tab \ {t} : sync'[u] = sync[u]
  BY <1>1, <1>2 DEF TypeOK
<1>4. \A u \in Tab : /\ status[u] = "pending" => status'[u] = "pending"
                     /\ u # t => status'[u] = status[u]
                     /\ status'[t] # "initializing"
  BY <1>1, <1>2 DEF EndInit, Awaiting, TypeOK
<1>5. \A i \in Unmissed' : i \in Unmissed  BY <1>1 DEF Unmissed
<1>6. Served'
  <2> SUFFICES ASSUME ~raced' PROVE MainAwaits' /\ SyncsTold' /\ CellShared' /\ Begun'
    BY DEF Served
  <2>1. ~raced /\ MainAwaits /\ SyncsTold /\ CellShared /\ Begun
    BY <1>1, ServedParts
  <2>2. loggedIn  BY <1>1, <2>1, ServedParts DEF Intact
  <2>3. d = Synced(copy[t], s)  BY <2>2 DEF After
  <2>4. d.token = IF s.of = All THEN s.till ELSE copy[t].token
    BY <2>3 DEF Synced
  <2> HIDE DEF d
  <2>5. copy'[t] = d /\ (\A u \in Tab \ {t} : copy'[u] = copy[u]) /\ CellShared'
    BY <1>1, <1>2, Wrote
  <2>6. MainAwaits'
    <3> SUFFICES ASSUME NEW i \in Unmissed', copy'[main].token <= i PROVE Awaits(main, i)'
      BY <1>1 DEF MainAwaits
    <3>1. CASE main # t
      <4>1. Awaits(main, i)  BY <1>2, <1>5, <2>1, <2>5, <3>1 DEF MainAwaits
      <4>. QED  BY <1>1, <1>2, <1>3, <1>4, <3>1, <4>1 DEF Awaits, Brings, Told
    <3>2. CASE main = t /\ s.of = All
      <4>1. s.till <= i  BY <2>4, <2>5, <3>2
      <4>2. Told(t, i)  BY <1>1, <1>2, <1>5, <2>1, <3>2, <4>1 DEF SyncsTold
      <4>. QED  BY <1>1, <3>2, <4>2 DEF Awaits, Told
    <3>3. CASE main = t /\ s.of # All
      <4>1. copy[main].token <= i  BY <2>4, <2>5, <3>3
      <4>2. Awaits(main, i)  BY <1>5, <2>1, <4>1 DEF MainAwaits
      <4>. QED  BY <1>1, <1>2, <1>4, <3>3, <4>2 DEF Awaits, Brings, Told
    <3>. QED  BY <3>1, <3>2, <3>3
  <2>7. SyncsTold'
    BY <1>1, <1>2, <1>3, <1>5, <2>1 DEF SyncsTold, Told, Open
  <2>8. Begun'
    BY <1>1, <1>2, <1>3, <1>4, <2>1 DEF Begun, Open
  <2>. QED  BY <2>5, <2>6, <2>7, <2>8
<1>. QED  BY <1>1, <1>2, <1>6 DEF Distinct, InOrder

LEMMA SyncFailsServed ==
  ASSUME MIInv, NEW t \in Tab, SyncFails(t), UNCHANGED cached
  PROVE  Distinct' /\ InOrder' /\ Served'
<1> DEFINE s == sync[t]
<1>1. /\ UNCHANGED <<server, clock, loggedIn, main, cell, stale, news, unheard, missed, raced>>
      /\ s # None /\ EndInit(t)
      /\ copy' = [copy EXCEPT ![t] = After(t, @)]
      /\ sync' = [sync EXCEPT ![t] = None]
      /\ timer' = IF s.of = All THEN timer \cup {t} ELSE timer
  BY DEF SyncFails, RetryAfter, heard
<1>2. TypeOK /\ Distinct /\ InOrder /\ main \in Tab /\ Open \subseteq Tab
  BY ServedParts
<1>3. sync'[t] = None /\ \A u \in Tab \ {t} : sync'[u] = sync[u]
  BY <1>1, <1>2 DEF TypeOK
<1>4. \A u \in Tab : /\ status[u] = "pending" => status'[u] = "pending"
                     /\ u # t => status'[u] = status[u]
                     /\ status'[t] # "initializing"
  BY <1>1, <1>2 DEF EndInit, Awaiting, TypeOK
<1>5. \A i \in Unmissed' : i \in Unmissed  BY <1>1 DEF Unmissed
<1>6. Served'
  <2> SUFFICES ASSUME ~raced PROVE MainAwaits' /\ SyncsTold' /\ CellShared' /\ Begun'
    BY <1>1 DEF Served
  <2>1. MainAwaits /\ SyncsTold /\ CellShared /\ Begun  BY ServedParts
  <2>2. loggedIn  BY <1>1, ServedParts DEF Intact
  <2>3. \A u \in Tab : copy'[u] = copy[u]  BY <1>1, <1>2, <2>2 DEF After, TypeOK
  <2>4. MainAwaits'
    <3> SUFFICES ASSUME NEW i \in Unmissed', copy'[main].token <= i PROVE Awaits(main, i)'
      BY <1>1 DEF MainAwaits
    <3>1. Awaits(main, i)  BY <1>2, <1>5, <2>1, <2>3 DEF MainAwaits
    <3>2. Brings(main, i) => Brings(main, i)' \/ main \in timer'
      BY <1>1, <1>2, <1>3 DEF Brings
    <3>. QED  BY <1>1, <1>2, <1>4, <3>1, <3>2 DEF Awaits, Told
  <2>5. SyncsTold'
    BY <1>1, <1>2, <1>3, <1>5, <2>1 DEF SyncsTold, Told, Open
  <2>6. CellShared'  BY <1>1, <2>1, <2>3 DEF CellShared
  <2>7. Begun'
    BY <1>1, <1>2, <1>3, <1>4, <2>1 DEF Begun, Open
  <2>. QED  BY <2>4, <2>5, <2>6, <2>7
<1>. QED  BY <1>1, <1>2, <1>6 DEF Distinct, InOrder

LEMMA CallDoneServed ==
  ASSUME MIInv, NEW t \in Tab, CallDone(t), UNCHANGED cached
  PROVE  Distinct' /\ InOrder' /\ Served'
<1> DEFINE d == Updated(copy[t], call[t].got)
<1>1. /\ UNCHANGED <<server, clock, loggedIn, main, status, sync, timer, news, unheard, missed>>
      /\ Write(t, d) /\ (raced => raced')
  BY DEF CallDone, heard
<1>2. TypeOK /\ Distinct /\ InOrder /\ main \in Tab /\ copy[t] \in Data
  BY ServedParts DEF TypeOK
<1>3. d.token = copy[t].token  BY <1>2 DEF Updated, Data
<1> HIDE DEF d
<1>4. copy'[t] = d /\ (\A u \in Tab \ {t} : copy'[u] = copy[u]) /\ CellShared'
  BY <1>1, <1>2, Wrote
<1>5. \A i \in Unmissed' : i \in Unmissed  BY <1>1 DEF Unmissed
<1>6. Served'
  <2> SUFFICES ASSUME ~raced PROVE MainAwaits' /\ SyncsTold' /\ Begun'
    BY <1>1, <1>4 DEF Served
  <2>1. MainAwaits /\ SyncsTold /\ Begun  BY ServedParts
  <2>2. copy'[main].token = copy[main].token  BY <1>2, <1>3, <1>4
  <2>3. MainAwaits'  BY <1>1, <1>5, <2>1, <2>2 DEF MainAwaits, Awaits, Brings, Told
  <2>4. SyncsTold'  BY <1>1, <1>5, <2>1 DEF SyncsTold, Told, Open
  <2>5. Begun'  BY <1>1, <2>1 DEF Begun, Open
  <2>. QED  BY <2>3, <2>4, <2>5
<1>. QED  BY <1>1, <1>2, <1>6 DEF Distinct, InOrder

LEMMA InitializeServed ==
  ASSUME MIInv, NEW t \in Open, Initialize(t), UNCHANGED cached
  PROVE  Distinct' /\ InOrder' /\ Served'
<1>1. /\ UNCHANGED <<server, clock, loggedIn, main, news, unheard, missed, raced>>
      /\ loggedIn /\ status[t] = "pending"
  BY DEF Initialize, heard
<1>2. /\ TypeOK /\ Distinct /\ InOrder /\ main \in Tab /\ main \in Open /\ Open \subseteq Tab
      /\ t \in Tab
      /\ \A u \in Tab : sync[u] # None => sync[u].till \in Nat
      /\ \A i \in Unmissed : i \in Nat
  BY ServedParts
<1>3. PICK drop \in BOOLEAN :
        LET data == IF drop THEN Blank ELSE copy[t] IN
        /\ IF data # copy[t] THEN Write(t, Blank) ELSE UNCHANGED <<cell, copy, stale>>
        /\ IF Attends(t)
           THEN /\ status' = [status EXCEPT ![t] = "initializing"]
                /\ StartSync(t, All, data.token)
                /\ UNCHANGED timer
           ELSE /\ status' = [status EXCEPT ![t] = "ready"]
                /\ timer' = IF Polling THEN timer \cup {t} ELSE timer
                /\ UNCHANGED sync
  BY DEF Initialize
<1> DEFINE data == IF drop THEN Blank ELSE copy[t]
<1>4. data.token \in Nat  BY <1>2 DEF TypeOK, Data, Blank
<1>5. \A u \in Tab \ {t} : copy'[u] = copy[u] /\ status'[u] = status[u]
  <2>1. \A u \in Tab \ {t} : copy'[u] = copy[u]  BY <1>1, <1>2, <1>3, Wrote
  <2>. QED  BY <1>2, <1>3, <2>1 DEF TypeOK
<1>6. timer \subseteq timer'  BY <1>3
<1>7. \A i \in Unmissed' : i \in Unmissed  BY <1>1 DEF Unmissed
<1>8. Served'
  <2> SUFFICES ASSUME ~raced PROVE MainAwaits' /\ SyncsTold' /\ CellShared' /\ Begun'
    BY <1>1 DEF Served
  <2>1. MainAwaits /\ SyncsTold /\ CellShared /\ Begun  BY ServedParts
  <2>2. CellShared'
    <3>1. CASE data # copy[t]  BY <1>1, <1>2, <1>3, <3>1, Wrote
    <3>2. CASE data = copy[t]  BY <1>1, <1>3, <2>1, <3>2 DEF CellShared
    <3>. QED  BY <3>1, <3>2
  <2>3. CASE Attends(t)
    <3>1. t = main  BY <2>3 DEF Attends, Open
    <3>2. StartedIs(t, All)  BY <1>2, <1>3, <1>4, <2>3, Started
    <3>3. sync'[t] # None /\ sync'[t].of = All
          /\ (sync'[t].till = 0 \/ (sync[t] # None /\ sync'[t] = sync[t]))
      BY <1>1, <1>2, <2>1, <3>2 DEF StartedIs, Begun
    <3>4. SyncsTold'
      BY <1>1, <1>2, <1>7, <2>1, <3>2, <3>3 DEF SyncsTold, Told, Open, StartedIs
    <3>5. MainAwaits'
      <4> SUFFICES ASSUME NEW i \in Unmissed' PROVE Awaits(main, i)'
        BY DEF MainAwaits
      <4>1. CASE Brings(main, i)'  BY <4>1 DEF Awaits
      <4>2. CASE ~Brings(main, i)'
        <5>1. /\ sync[t] # None /\ sync[t].of = All /\ sync[t].till # 0
              /\ ~(i < sync[t].till)
          BY <1>1, <3>1, <3>3, <4>2 DEF Brings
        <5>2. sync[t].till <= i  BY <1>2, <1>7, <5>1
        <5>3. Told(t, i)  BY <1>7, <2>1, <5>1, <5>2 DEF SyncsTold
        <5>. QED  BY <1>1, <3>1, <5>3 DEF Awaits, Told
      <4>. QED  BY <4>1, <4>2
    <3>6. status'[t] = "initializing"  BY <1>2, <1>3, <2>3 DEF TypeOK
    <3>7. Begun'
      BY <1>1, <1>2, <1>5, <2>1, <3>2, <3>3, <3>6 DEF Begun, Open, StartedIs
    <3>. QED  BY <2>2, <3>4, <3>5, <3>7
  <2>4. CASE ~Attends(t)
    <3>1. t # main  BY <2>4 DEF Attends
    <3>2. sync' = sync /\ status'[t] = "ready"  BY <1>2, <1>3, <2>4 DEF TypeOK
    <3>3. copy'[main] = copy[main] /\ status'[main] = status[main]  BY <1>2, <1>5, <3>1
    <3>4. MainAwaits'
      BY <1>1, <1>6, <1>7, <2>1, <3>2, <3>3 DEF MainAwaits, Awaits, Brings, Told
    <3>5. SyncsTold'  BY <1>1, <1>7, <2>1, <3>2 DEF SyncsTold, Told, Open
    <3>6. Begun'  BY <1>1, <1>5, <2>1, <3>2 DEF Begun, Open
    <3>. QED  BY <2>2, <3>4, <3>5, <3>6
  <2>. QED  BY <2>3, <2>4
<1>. QED  BY <1>1, <1>2, <1>8 DEF Distinct, InOrder

LEMMA DeliverServed ==
  ASSUME MIInv, NEW t \in Tab, Deliver(t), UNCHANGED cached
  PROVE  Distinct' /\ InOrder' /\ Served'
<1>1. /\ UNCHANGED <<server, clock, loggedIn, main, cell, copy, stale, status, sync, timer,
                     missed, raced>>
      /\ news[t] # 0
      /\ news' = [news EXCEPT ![t] = 0] /\ unheard' = [unheard EXCEPT ![t] = news[t]]
  BY DEF Deliver, tabs
<1>2. /\ TypeOK /\ Distinct /\ InOrder /\ main \in Tab /\ Open \subseteq Tab /\ clock \in Nat
      /\ \A u \in Tab : news[u] \in Nat /\ unheard[u] \in Nat
      /\ \A i \in Unmissed : i \in Nat
  BY ServedParts
<1>3. /\ news'[t] = 0 /\ unheard'[t] = news[t]
      /\ \A u \in Tab \ {t} : news'[u] = news[u] /\ unheard'[u] = unheard[u]
  BY <1>1, <1>2 DEF TypeOK
<1>4. InOrder'  BY <1>1, <1>2, <1>3 DEF InOrder
<1>5. Unmissed' = Unmissed  BY <1>1 DEF Unmissed
<1>6. ASSUME NEW u \in Tab, NEW i \in Unmissed, Told(u, i) PROVE Told(u, i)'
  <2>1. news[t] # 0 /\ unheard[t] <= news[t]  BY <1>1, <1>2 DEF InOrder
  <2>. QED  BY <1>2, <1>3, <1>6, <2>1 DEF Told
<1>7. Served'
  <2> SUFFICES ASSUME ~raced PROVE MainAwaits' /\ SyncsTold' /\ CellShared' /\ Begun'
    BY <1>1 DEF Served
  <2>1. MainAwaits /\ SyncsTold /\ CellShared /\ Begun  BY ServedParts
  <2>2. MainAwaits'  BY <1>1, <1>2, <1>5, <1>6, <2>1 DEF MainAwaits, Awaits, Brings
  <2>3. SyncsTold'  BY <1>1, <1>2, <1>5, <1>6, <2>1 DEF SyncsTold, Open
  <2>4. CellShared' /\ Begun'  BY <1>1, <2>1 DEF CellShared, Begun, Open
  <2>. QED  BY <2>2, <2>3, <2>4
<1>. QED  BY <1>1, <1>2, <1>4, <1>7 DEF Distinct

LEMMA FollowServed ==
  ASSUME MIInv, NEW t \in Tab, Follow(t), UNCHANGED cached
  PROVE  Distinct' /\ InOrder' /\ Served'
<1>1. /\ UNCHANGED <<server, clock, loggedIn, main, cell, status, sync, timer, news, unheard>>
      /\ stale' = stale \ {t} /\ copy' = [copy EXCEPT ![t] = cell]
      /\ missed' = missed \cup Forgotten(t) /\ (raced => raced')
  BY DEF Follow, heard
<1>2. /\ TypeOK /\ Distinct /\ InOrder /\ main \in Tab
      /\ \A u \in Tab : copy[u].token \in Nat
  BY ServedParts
<1>3. copy'[t] = cell /\ \A u \in Tab \ {t} : copy'[u] = copy[u]
  BY <1>1, <1>2 DEF TypeOK
<1>4. \A i \in Unmissed' : /\ i \in Unmissed /\ i \notin missed' /\ i \in Nat /\ i # 0
                           /\ i <= clock /\ clock \in Nat
  BY <1>1, FewerUnmissed, ServedParts
<1>5. Served'
  <2> SUFFICES ASSUME ~raced PROVE MainAwaits' /\ SyncsTold' /\ CellShared' /\ Begun'
    BY <1>1 DEF Served
  <2>1. MainAwaits /\ SyncsTold /\ CellShared /\ Begun  BY ServedParts
  <2>2. MainAwaits'
    <3> SUFFICES ASSUME NEW i \in Unmissed', copy'[main].token <= i PROVE Awaits(main, i)'
      BY <1>1 DEF MainAwaits
    <3>1. CASE main = t
      <4>1. i \notin Forgotten(t)  BY <1>1, <1>4
      <4>2. i \in 1..clock  BY <1>4
      <4>3. ~(i < copy[t].token)  BY <1>3, <3>1, <4>1, <4>2 DEF Forgotten
      <4>4. copy[main].token <= i  BY <1>2, <1>4, <3>1, <4>3
      <4>. QED  BY <1>1, <1>4, <2>1, <4>4 DEF MainAwaits, Awaits, Brings, Told
    <3>2. CASE main # t
      BY <1>1, <1>2, <1>3, <1>4, <2>1, <3>2 DEF MainAwaits, Awaits, Brings, Told
    <3>. QED  BY <3>1, <3>2
  <2>3. SyncsTold'  BY <1>1, <1>4, <2>1 DEF SyncsTold, Told, Open
  <2>4. CellShared'  BY <1>1, <1>3, <2>1 DEF CellShared
  <2>5. Begun'  BY <1>1, <2>1 DEF Begun, Open
  <2>. QED  BY <2>2, <2>3, <2>4, <2>5
<1>. QED  BY <1>1, <1>2, <1>5 DEF Distinct, InOrder

\* A tab that becomes the main one syncs itself, or has what the main tab had.
LEMMA MainMovesServed ==
  ASSUME MIInv, NEW t \in Tab, MainMoves(t), UNCHANGED cached
  PROVE  Distinct' /\ InOrder' /\ Served'
<1>1. /\ UNCHANGED <<server, clock, loggedIn, cell, copy, stale, status, sync, timer, news,
                     unheard, raced>>
      /\ cached /\ main' = t /\ missed' = missed \cup Deserted(t)
  BY DEF MainMoves, tabs, heard
<1>2. /\ TypeOK /\ Distinct /\ InOrder /\ InSession /\ main \in Tab /\ clock \in Nat
      /\ \A u \in Tab : /\ news[u] \in Nat /\ unheard[u] \in Nat /\ copy[u].token \in Nat
                        /\ sync[u] # None => sync[u].till \in Nat
  BY ServedParts
<1>3. \A i \in Unmissed' : /\ i \in Unmissed /\ i \notin missed' /\ i \in Nat /\ i # 0
                           /\ i <= clock
  BY <1>1, FewerUnmissed, ServedParts
<1>4. Open = Tab /\ Open' = Tab  BY <1>1 DEF Open
<1>5. Served'
  <2> SUFFICES ASSUME ~raced PROVE MainAwaits' /\ SyncsTold' /\ CellShared' /\ Begun'
    BY <1>1 DEF Served
  <2>1. MainAwaits /\ SyncsTold /\ CellShared /\ Begun  BY ServedParts
  <2>2. MainAwaits'
    <3> SUFFICES ASSUME NEW i \in Unmissed', copy[t].token <= i PROVE Awaits(t, i)
      BY <1>1 DEF MainAwaits, Awaits, Brings, Told
    <3>1. CASE status[t] = "pending"  BY <3>1 DEF Awaits
    <3>2. CASE status[t] = "initializing"
      <4>1. sync[t] # None /\ sync[t].of = All  BY <2>1, <3>2 DEF Begun
      <4>2. CASE sync[t].till = 0 \/ i < sync[t].till  BY <4>1, <4>2 DEF Awaits, Brings
      <4>3. CASE ~(sync[t].till = 0 \/ i < sync[t].till)
        <5>1. sync[t].till <= i  BY <1>2, <1>3, <4>1, <4>3
        <5>. QED  BY <1>3, <1>4, <2>1, <4>1, <4>3, <5>1 DEF SyncsTold, Awaits
      <4>. QED  BY <4>2, <4>3
    <3>3. CASE status[t] = "ready"
      <4>1. i \in copy[t].token..clock  BY <1>2, <1>3
      <4>2. Idle(main) /\ t \notin stale  BY <1>1, <1>3, <3>3, <4>1 DEF Deserted
      <4>3. loggedIn  BY <1>2, <3>3 DEF InSession
      <4>4. copy[main] = copy[t]  BY <1>1, <1>2, <2>1, <4>2, <4>3 DEF CellShared, Idle
      <4>5. Awaits(main, i)  BY <1>3, <2>1, <4>4 DEF MainAwaits
      <4>6. Told(main, i)  BY <4>2, <4>5 DEF Awaits, Brings, Idle
      <4>. QED  BY <1>3, <4>2, <4>6 DEF Told, Idle
    <3>. QED  BY <1>2, <3>1, <3>2, <3>3 DEF TypeOK
  <2>3. SyncsTold'  BY <1>1, <1>3, <1>4, <2>1 DEF SyncsTold, Told
  <2>4. CellShared' /\ Begun'  BY <1>1, <1>4, <2>1 DEF CellShared, Begun
  <2>. QED  BY <2>2, <2>3, <2>4
<1>. QED  BY <1>1, <1>2, <1>5 DEF Distinct, InOrder

LEMMA ReloadServed ==
  ASSUME MIInv, NEW t \in Tab, Reload(t), UNCHANGED cached
  PROVE  Distinct' /\ InOrder' /\ Served'
<1>1. /\ UNCHANGED <<server, clock, loggedIn, main, cell, missed, raced>>
      /\ status' = [status EXCEPT ![t] = "pending"]
      /\ copy' = [copy EXCEPT ![t] = IF cached /\ loggedIn THEN cell ELSE Blank]
      /\ stale' = stale \ {t} /\ sync' = [sync EXCEPT ![t] = None]
      /\ timer' = timer \ {t}
      /\ news' = [news EXCEPT ![t] = 0] /\ unheard' = [unheard EXCEPT ![t] = 0]
  BY DEF Reload
<1>2. TypeOK /\ Distinct /\ InOrder /\ main \in Tab /\ Open \subseteq Tab /\ clock \in Nat
  BY ServedParts
<1>3. /\ status'[t] = "pending" /\ sync'[t] = None /\ news'[t] = 0 /\ unheard'[t] = 0
      /\ cached /\ loggedIn => copy'[t] = cell
      /\ \A u \in Tab \ {t} : /\ status'[u] = status[u] /\ copy'[u] = copy[u]
                               /\ sync'[u] = sync[u] /\ news'[u] = news[u]
                               /\ unheard'[u] = unheard[u] /\ (u \in timer => u \in timer')
  BY <1>1, <1>2 DEF TypeOK
<1>4. InOrder'  BY <1>1, <1>2, <1>3 DEF InOrder
<1>5. Unmissed' = Unmissed  BY <1>1 DEF Unmissed
<1>6. Served'
  <2> SUFFICES ASSUME ~raced PROVE MainAwaits' /\ SyncsTold' /\ CellShared' /\ Begun'
    BY <1>1 DEF Served
  <2>1. MainAwaits /\ SyncsTold /\ CellShared /\ Begun  BY ServedParts
  <2>2. MainAwaits'
    <3> SUFFICES ASSUME NEW i \in Unmissed, copy'[main].token <= i PROVE Awaits(main, i)'
      BY <1>1, <1>5 DEF MainAwaits
    <3>1. CASE main = t  BY <1>1, <1>3, <3>1 DEF Awaits
    <3>2. CASE main # t
      BY <1>1, <1>2, <1>3, <2>1, <3>2 DEF MainAwaits, Awaits, Brings, Told
    <3>. QED  BY <3>1, <3>2
  <2>3. SyncsTold'
    <3> SUFFICES ASSUME NEW u \in Open, NEW i \in Unmissed, sync'[u] # None,
                        sync'[u].of = All, sync'[u].till # 0, sync'[u].till <= i
                 PROVE  Told(u, i)'
      BY <1>1, <1>5 DEF SyncsTold, Open
    <3>. QED  BY <1>2, <1>3, <2>1 DEF SyncsTold, Told
  <2>4. CellShared'  BY <1>1, <1>3, <2>1 DEF CellShared
  <2>5. Begun'  BY <1>1, <1>2, <1>3, <2>1 DEF Begun, Open
  <2>. QED  BY <2>2, <2>3, <2>4, <2>5
<1>. QED  BY <1>1, <1>2, <1>4, <1>6 DEF Distinct

LEMMA SessionServed ==
  ASSUME MIInv, Login \/ Logout, UNCHANGED cached
  PROVE  Distinct' /\ InOrder' /\ Served'
<1>1. UNCHANGED <<server, clock, main, sync, timer, missed>>
  BY DEF Login, Logout, heard
<1>2. /\ TypeOK /\ Distinct /\ InOrder /\ InSession /\ Intact /\ main \in Tab
      /\ clock \in Nat /\ (~raced => Begun)
  BY ServedParts
<1>3. InOrder'  BY <1>1, <1>2 DEF InOrder, Login, Logout, heard
<1>4. (raced => raced') /\ (~loggedIn' \/ ~loggedIn)
  <2>1. CASE Login  BY <2>1 DEF Login
  <2>2. CASE Logout  BY <2>2 DEF Logout
  <2>. QED  BY <2>1, <2>2
<1>5. ASSUME ~raced'
      PROVE  /\ \A u \in Tab : sync[u] = None /\ status'[u] = "pending"
             /\ CellShared'
  <2>1. ~raced /\ Begun  BY <1>2, <1>4, <1>5
  <2>2. CASE Login
    <3>1. ~loggedIn /\ UNCHANGED status  BY <2>2 DEF Login
    <3>2. \A u \in Tab : sync[u] = None  BY <1>2, <2>1, <3>1 DEF Intact
    <3>3. \A u \in Tab : status[u] = "pending"
      BY <1>2, <2>1, <3>1, <3>2 DEF InSession, Begun, TypeOK
    <3>. QED  BY <2>2, <3>1, <3>2, <3>3 DEF Login, CellShared
  <2>3. CASE Logout
    <3>1. \A u \in Tab : sync[u] = None  BY <1>5, <2>3 DEF Logout
    <3>2. \A u \in Tab : status[u] # "initializing"  BY <2>1, <3>1 DEF Begun
    <3>3. \A u \in Tab : status'[u] = "pending"
      BY <1>2, <2>3, <3>2 DEF Logout, Leaving, TypeOK
    <3>. QED  BY <2>3, <3>1, <3>3 DEF Logout, CellShared
  <2>. QED  BY <2>2, <2>3
<1>6. Served'
  <2> SUFFICES ASSUME ~raced' PROVE MainAwaits' /\ SyncsTold' /\ CellShared' /\ Begun'
    BY DEF Served
  <2>1. MainAwaits'  BY <1>1, <1>2, <1>5 DEF MainAwaits, Awaits
  <2>2. SyncsTold' /\ Begun'
    BY <1>1, <1>5, ServedParts DEF SyncsTold, Begun, Open
  <2>. QED  BY <1>5, <2>1, <2>2
<1>. QED  BY <1>1, <1>2, <1>3, <1>6 DEF Distinct

LEMMA NextServed == MIInv /\ [Next]_vars => MIInv'
<1> SUFFICES ASSUME MIInv, [Next]_vars PROVE MIInv'
  OBVIOUS
<1>1. IInv /\ IInv'  BY NextIInv DEF MIInv
<1>2. Open \subseteq Tab  BY ServedParts
<1>3. Distinct' /\ InOrder' /\ Served'
  <2>1. CASE UNCHANGED vars  BY <2>1, QuietServed DEF vars, tabs, heard
  <2>2. CASE Next
    <3>1. UNCHANGED cached  BY <2>2 DEF Next
    <3>2. CASE \E t \in Open : Hear(t) \/ Step(t)
      <4>1. PICK t \in Open : Hear(t) \/ Step(t)  BY <3>2
      <4>2. t \in Tab  BY <1>2
      <4>3. CASE AnswerChanges(t) \/ AnswerPage(t)  BY <3>1, <4>2, <4>3, ServerServed
      <4>4. CASE SyncDone(t) \/ SyncFails(t)
        BY <3>1, <4>2, <4>4, SyncDoneServed, SyncFailsServed
      <4>5. CASE \/ Hear(t) \/ TimerFires(t) \/ Reconnect(t)
                 \/ \E c \in Conversation : SyncConversation(t, c)
        BY <3>1, <4>2, <4>5, StartsServed
      <4>6. CASE \/ \E c \in Conversation : ReadMessages(t, c)
                 \/ \E m \in Message : UnreadMessage(t, m) \/ DeleteMessage(t, m) \/ Send(t, m)
        BY <3>1, <4>6, QuietServed
        DEF ReadMessages, UnreadMessage, DeleteMessage, Send, StartCall, heard
      <4>7. CASE Perform(t)
        <5>1. UNCHANGED <<loggedIn, main, cell, copy, stale, status, sync, timer, unheard, raced>>
          BY <4>7 DEF Perform
        <5>2. PICK m \in call[t].todo :
                \/ UNCHANGED <<server, clock, news, missed>>
                \/ Become(m, call[t].op)
          BY <4>7 DEF Perform
        <5>3. m \in Message  BY <4>2, <4>7, ServedParts DEF Perform, TypeOK, Call
        <5>. QED  BY <3>1, <5>1, <5>2, <5>3, QuietServed, BecomeServed
      <4>8. CASE CallDone(t)  BY <3>1, <4>2, <4>8, CallDoneServed
      <4>9. CASE CallFails(t) \/ Register(t)
        BY <3>1, <4>9, QuietServed DEF CallFails, Register, tabs, heard
      <4>10. CASE Initialize(t)  BY <3>1, <4>10, InitializeServed
      <4>11. CASE Deliver(t) \/ Follow(t) \/ MainMoves(t) \/ Reload(t)
        BY <3>1, <4>2, <4>11, DeliverServed, FollowServed, MainMovesServed, ReloadServed
      <4>. QED
        BY <4>1, <4>3, <4>4, <4>5, <4>6, <4>7, <4>8, <4>9, <4>10, <4>11 DEF Step
    <3>3. CASE \E m \in Message : Change(m)
      BY <3>1, <3>3, BecomeServed DEF Change, tabs
    <3>4. CASE Login \/ Logout  BY <3>1, <3>4, SessionServed
    <3>. QED  BY <2>2, <3>2, <3>3, <3>4 DEF Next
  <2>. QED  BY <2>1, <2>2
<1>. QED  BY <1>1, <1>3 DEF MIInv

\* However notifications, timeouts, answers, writes of other tabs and moves of the main tab
\* cross, a tab that is responsible for the data and waits for nothing shows what the server
\* has, but for the changes the code gave up.
THEOREM NoChangeIsMissed == Spec => []NothingMissed
<1>1. Init => MIInv  BY InitIInv, InitServed DEF MIInv
<1>2. ASSUME MIInv PROVE NothingMissed
  <2> SUFFICES ASSUME ~raced, NEW t \in Tab, Attends(t), Idle(t), NEW m \in Message,
                      copy[t].known[m] # Shown(server[m]),
                      server[m].at \notin missed \cup copy[t].cut
               PROVE  FALSE
    BY DEF NothingMissed
  <2>1. /\ TypeOK /\ Intact /\ MainAwaits /\ Begun /\ Distinct
        /\ copy[t].token \in Nat
    BY <1>2, ServedParts
  <2>2. server[m].at \in Nat  BY <2>1 DEF TypeOK, Version
  <2>3. WholeIn(copy[t], server)  BY <2>1 DEF Intact
  <2>4. copy[t].token <= server[m].at  BY <2>1, <2>2, <2>3 DEF WholeIn
  <2>5. t = main  BY <2>1 DEF Idle, Attends, Begun, Open
  <2>6. CASE server[m].at = 0
    <3>1. copy[t].token = 0  BY <2>1, <2>4, <2>6
    <3>2. copy[t].known[m] = Nothing  BY <2>3, <3>1 DEF WholeIn, Blank
    <3>3. server[m] = Nothing  BY <2>1, <2>6 DEF Distinct
    <3>. QED  BY <3>2, <3>3 DEF Shown, Nothing
  <2>7. CASE server[m].at # 0
    <3>1. server[m].at \in Unmissed  BY <2>7 DEF Unmissed
    <3>2. Awaits(main, server[m].at)  BY <2>1, <2>4, <2>5, <3>1 DEF MainAwaits
    <3>. QED  BY <2>2, <2>5, <2>7, <3>2 DEF Awaits, Brings, Told, Idle
  <2>. QED  BY <2>6, <2>7
<1>. QED  BY <1>1, <1>2, NextServed, PTL DEF Spec
=============================================================================
