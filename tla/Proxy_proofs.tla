---------------------------- MODULE Proxy_proofs ----------------------------
(***************************************************************************)
(* Proof that Proxy implements Replica, for any set of clients and actions *)
(* and any bounds: pushes that are lost to background tabs, timeouts and   *)
(* late responses never leave a client with a state the server was not in, *)
(* nor take it back to an older one.                                       *)
(***************************************************************************)
EXTENDS Proxy, TLAPS

\* The server's state after the first n of the actions l.
Prefix(l, n) == [i \in 1..n |-> l[i]]

\* A message to a client is about actions of the server.
SoundPush(l, p)  == p.number < Len(l) /\ p.action = l[p.number + 1]
SoundState(l, m) == m.number \in -1..(Len(l) - 1) /\ m.target = Prefix(l, m.number + 1)
Sound(l, m) == /\ m.type = "push" => SoundPush(l, m)
               /\ m.type = "state" => SoundState(l, m)

Copies(c) ==
  /\ number[c] \in -1..(Len(log) - 1)
  /\ target[c] = Prefix(log, number[c] + 1)

Messages(c) ==
  /\ \A i \in DOMAIN toClient[c] : Sound(log, toClient[c][i])
  /\ \A i \in DOMAIN waiting[c] : SoundPush(log, waiting[c][i])
  /\ \A i \in DOMAIN resumed[c] : SoundPush(log, resumed[c][i])

\* A port keeps the order: a state on its way is at least as new as the client's
\* own, as the pushes its handlers hold, and as what travels ahead of it.
Ordered(c) ==
  \A j \in DOMAIN toClient[c] : toClient[c][j].type = "state" =>
    /\ number[c] <= toClient[c][j].number
    /\ \A i \in DOMAIN waiting[c] : waiting[c][i].number <= toClient[c][j].number
    /\ \A i \in DOMAIN resumed[c] : resumed[c][i].number <= toClient[c][j].number
    /\ \A i \in 1..(j - 1) : toClient[c][i].type \in {"push", "state"} =>
         toClient[c][i].number <= toClient[c][j].number

ClientInv(c) == Copies(c) /\ Messages(c) /\ Ordered(c)

IInv == TypeOK /\ \A c \in Client : ClientInv(c)

-----------------------------------------------------------------------------
(* Types *)

LEMMA SeqOps ==
  ASSUME NEW S, NEW s \in Seq(S)
  PROVE  /\ \A x \in S : Append(s, x) \in Seq(S)
         /\ s # <<>> => Head(s) \in S /\ Tail(s) \in Seq(S)
OBVIOUS

LEMMA HeadIsFirst ==
  ASSUME NEW S, NEW s \in Seq(S), s # <<>>
  PROVE  1 \in DOMAIN s /\ Head(s) = s[1]
OBVIOUS

LEMMA Update ==
  ASSUME NEW A, NEW B, NEW f \in [A -> B], NEW a \in A, NEW b \in B
  PROVE  [f EXCEPT ![a] = b] \in [A -> B]
OBVIOUS

LEMMA MsgTypes ==
  ASSUME NEW m \in ClientMsg
  PROVE  /\ m.type \in {"push", "state", "upToDate", "return"}
         /\ m.type = "push" => m \in PushMsg
         /\ m.type = "state" => m \in StateMsg
         /\ m.type \in {"upToDate", "return"} => m.id \in Nat
BY DEF ClientMsg, PushMsg, StateMsg, ErrorMsg, ReturnMsg

LEMMA RequestTypes ==
  ASSUME NEW m \in ServerMsg
  PROVE  m.id \in Nat /\ (m.type = "sync" => m.number \in Int)
BY DEF ServerMsg, SyncMsg, ExecuteMsg

LEMMA PushedType ==
  ASSUME TypeOK, NEW a \in Action
  PROVE  Pushed(a) \in [Client -> Seq(ClientMsg)]
<1>1. [type |-> "push", action |-> a, number |-> ServerNumber + 1] \in ClientMsg
  BY DEF TypeOK, ClientMsg, PushMsg, ServerNumber
<1>2. \A c \in Client :
        Append(toClient[c], [type |-> "push", action |-> a, number |-> ServerNumber + 1])
          \in Seq(ClientMsg)
  BY <1>1 DEF TypeOK
<1>. QED  BY <1>2 DEF Pushed, TypeOK

LEMMA SyncType ==
  ASSUME TypeOK, NEW c \in Client, Sync(c)
  PROVE  /\ syncing' \in [Client -> Nat]
         /\ lastId' \in [Client -> Nat]
         /\ toServer' \in [Client -> Seq(ServerMsg)]
<1>1. CASE syncing[c] # 0
  BY <1>1 DEF Sync, TypeOK
<1>2. CASE syncing[c] = 0
  <2> DEFINE m == [type |-> "sync", id |-> lastId[c] + 1, number |-> number[c]]
  <2>1. m \in ServerMsg
    BY DEF TypeOK, ServerMsg, SyncMsg
  <2>2. /\ syncing' = [syncing EXCEPT ![c] = lastId[c] + 1]
        /\ lastId' = [lastId EXCEPT ![c] = @ + 1]
        /\ toServer' = [toServer EXCEPT ![c] = Append(@, m)]
    BY <1>2 DEF Sync
  <2> HIDE DEF m
  <2>3. Append(toServer[c], m) \in Seq(ServerMsg) /\ lastId[c] + 1 \in Nat
    BY <2>1, SeqOps DEF TypeOK
  <2>. QED  BY <2>2, <2>3 DEF TypeOK
<1>. QED  BY <1>1, <1>2

LEMMA ApplyType ==
  ASSUME TypeOK, NEW c \in Client, NEW p \in PushMsg, Apply(c, p)
  PROVE  /\ number' \in [Client -> Int]
         /\ target' \in [Client -> Seq(Action)]
         /\ syncing' \in [Client -> Nat]
         /\ lastId' \in [Client -> Nat]
         /\ toServer' \in [Client -> Seq(ServerMsg)]
<1>1. CASE Follows(c, p)
  <2>1. p.action \in Action /\ p.number \in Int
    BY DEF PushMsg
  <2>2. Append(target[c], p.action) \in Seq(Action)
    BY <2>1, SeqOps DEF TypeOK
  <2>3. number' \in [Client -> Int] /\ target' \in [Client -> Seq(Action)]
    <3>1. /\ number' = [number EXCEPT ![c] = p.number]
          /\ target' = [target EXCEPT ![c] = Append(target[c], p.action)]
      BY <1>1 DEF Apply
    <3>. QED  BY <2>1, <2>2, <3>1, Update DEF TypeOK
  <2>4. UNCHANGED <<syncing, lastId, toServer>>
    BY <1>1 DEF Apply
  <2>5. syncing' \in [Client -> Nat] /\ lastId' \in [Client -> Nat]
        /\ toServer' \in [Client -> Seq(ServerMsg)]
    BY <2>4 DEF TypeOK
  <2>. QED  BY <2>3, <2>5
<1>2. CASE ~Follows(c, p)
  BY <1>2, SyncType DEF Apply, Resync, TypeOK
<1>. QED  BY <1>1, <1>2

LEMMA HandlesType ==
  ASSUME TypeOK, NEW c \in Client, NEW types, Handles(c, types)
  PROVE  /\ toClient' \in [Client -> Seq(ClientMsg)]
         /\ Head(toClient[c]) \in ClientMsg
         /\ Head(toClient[c]).type \in types
BY DEF Handles, TypeOK

LEMMA SettledType ==
  ASSUME TypeOK, NEW c \in Client, Settled(c)
  PROVE  /\ syncing' \in [Client -> Nat]
         /\ waiting' \in [Client -> Seq(PushMsg)]
         /\ resumed' \in [Client -> Seq(PushMsg)]
BY DEF Settled, TypeOK

LEMMA CountType ==
  ASSUME TypeOK, NEW e \in {"action", "call", "switch", "timeout"},
         count' = [count EXCEPT ![e] = @ + 1]
  PROVE  count' \in [{"action", "call", "switch", "timeout"} -> Nat]
BY DEF TypeOK

LEMMA NextTypeOK ==
  ASSUME TypeOK, Next
  PROVE  TypeOK'
<1>1. ASSUME NEW a \in Action, Dispatch(a)
      PROVE  TypeOK'
  <2>1. toClient' \in [Client -> Seq(ClientMsg)] /\ log' \in Seq(Action)
    BY <1>1, PushedType DEF Dispatch, Reduce, TypeOK
  <2>2. count' \in [{"action", "call", "switch", "timeout"} -> Nat]
    BY <1>1, CountType DEF Dispatch
  <2>. QED  BY <1>1, <2>1, <2>2 DEF Dispatch, clientVars, TypeOK
<1>2. ASSUME NEW e \in executing, Return(e)
      PROVE  TypeOK'
  <2>1. e \in Call
    BY DEF TypeOK
  <2>2. [type |-> "return", id |-> e.id, number |-> e.number, pushed |-> e.pushed]
          \in ClientMsg
    BY <2>1 DEF Call, ClientMsg, ReturnMsg
  <2>3. Append(toClient[e.client],
               [type |-> "return", id |-> e.id, number |-> e.number, pushed |-> e.pushed])
          \in Seq(ClientMsg)
    BY <2>1, <2>2 DEF TypeOK, Call
  <2>4. toClient' \in [Client -> Seq(ClientMsg)]
    BY <1>2, <2>3 DEF Return, TypeOK
  <2>. QED  BY <1>2, <2>4 DEF Return, clientVars, TypeOK
<1>3. ASSUME NEW c \in Client,
             SwitchTab(c) \/ Disconnect(c) \/ CallTimeout(c)
      PROVE  TypeOK'
  <2>1. CASE SwitchTab(c)
    <3>1. count' \in [{"action", "call", "switch", "timeout"} -> Nat]
      BY <2>1, CountType DEF SwitchTab
    <3>. QED  BY <2>1, <3>1 DEF SwitchTab, clientVars, TypeOK
  <2>2. CASE Disconnect(c)
    <3>1. /\ phase' \in [Client -> {"new", "connected", "closed"}]
          /\ toServer' \in [Client -> Seq(ServerMsg)]
          /\ toClient' \in [Client -> Seq(ClientMsg)]
      BY <2>2 DEF Disconnect, TypeOK
    <3>2. /\ syncing' \in [Client -> Nat]
          /\ waiting' \in [Client -> Seq(PushMsg)]
          /\ resumed' \in [Client -> Seq(PushMsg)]
          /\ calls' \in [Client -> SUBSET Nat]
      BY <2>2 DEF Disconnect, TypeOK
    <3>. QED  BY <2>2, <3>1, <3>2 DEF Disconnect, serverVars, TypeOK
  <2>3. CASE CallTimeout(c)
    <3>1. count' \in [{"action", "call", "switch", "timeout"} -> Nat]
      BY <2>3, CountType DEF CallTimeout, TimedOut
    <3>2. calls' \in [Client -> SUBSET Nat]
      BY <2>3 DEF CallTimeout, TypeOK
    <3>3. UNCHANGED <<log, active, executing, phase, toServer, toClient, number,
                      target, syncing, waiting, resumed, lastId>>
      BY <2>3 DEF CallTimeout, serverVars
    <3>. QED  BY <3>1, <3>2, <3>3 DEF TypeOK
  <2>. QED  BY <1>3, <2>1, <2>2, <2>3
<1>4. ASSUME NEW c \in Client, Connect(c)
      PROVE  TypeOK'
  BY <1>4, SyncType DEF Connect, serverVars, TypeOK
<1>5. ASSUME NEW c \in Client, OnSync(c)
      PROVE  TypeOK'
  <2>1. Head(toServer[c]) \in ServerMsg
    BY <1>5 DEF OnSync, TypeOK
  <2>2. SyncResult(Head(toServer[c])) \in ClientMsg
    BY <2>1, RequestTypes
       DEF SyncResult, ServerNumber, TypeOK, ClientMsg, StateMsg, ErrorMsg
  <2>3. Append(toClient[c], SyncResult(Head(toServer[c]))) \in Seq(ClientMsg)
    BY <2>2 DEF TypeOK
  <2>4. toClient' \in [Client -> Seq(ClientMsg)]
    BY <1>5, <2>3 DEF OnSync, TypeOK
  <2>5. toServer' \in [Client -> Seq(ServerMsg)]
    BY <1>5, SeqOps DEF OnSync, TypeOK
  <2>. QED  BY <1>5, <2>4, <2>5 DEF OnSync, serverVars, clientVars, TypeOK
<1>6. ASSUME NEW c \in Client, OnExecute(c)
      PROVE  TypeOK'
  <2>1. PICK a \in Action : Reduce(a)
    BY <1>6 DEF OnExecute
  <2>2. toClient' \in [Client -> Seq(ClientMsg)] /\ log' \in Seq(Action)
    BY <2>1, PushedType, SeqOps DEF Reduce, TypeOK
  <2>3. Head(toServer[c]) \in ServerMsg
    BY <1>6 DEF OnExecute, TypeOK
  <2>4. [client |-> c, id |-> Head(toServer[c]).id, number |-> ServerNumber + 1,
         pushed |-> c \in active] \in Call
    BY <2>3, RequestTypes DEF Call, ServerNumber, TypeOK
  <2>5. executing' \subseteq Call
    BY <1>6, <2>4 DEF OnExecute, TypeOK
  <2>6. toServer' \in [Client -> Seq(ServerMsg)]
    BY <1>6, SeqOps DEF OnExecute, TypeOK
  <2>. QED  BY <1>6, <2>2, <2>5, <2>6 DEF OnExecute, clientVars, TypeOK
<1>7. ASSUME NEW c \in Client, OnPush(c)
      PROVE  TypeOK'
  <2>1. /\ toClient' \in [Client -> Seq(ClientMsg)]
        /\ Head(toClient[c]) \in PushMsg
    BY <1>7, HandlesType, MsgTypes DEF OnPush
  <2>2. CASE syncing[c] # 0
    <3>1. Append(waiting[c], Head(toClient[c])) \in Seq(PushMsg)
      BY <2>1 DEF TypeOK
    <3>. QED  BY <1>7, <2>1, <2>2, <3>1 DEF OnPush, serverVars, TypeOK
  <2>3. CASE syncing[c] = 0
    <3>1. Apply(c, Head(toClient[c]))
      BY <1>7, <2>3 DEF OnPush
    <3>2. /\ number' \in [Client -> Int]
          /\ target' \in [Client -> Seq(Action)]
          /\ syncing' \in [Client -> Nat]
          /\ lastId' \in [Client -> Nat]
          /\ toServer' \in [Client -> Seq(ServerMsg)]
      BY <2>1, <3>1, ApplyType
    <3>. QED  BY <1>7, <2>1, <2>3, <3>2 DEF OnPush, serverVars, TypeOK
  <2>. QED  BY <2>2, <2>3 DEF TypeOK
<1>8. ASSUME NEW c \in Client, Resume(c)
      PROVE  TypeOK'
  <2>1. Head(resumed[c]) \in PushMsg /\ resumed' \in [Client -> Seq(PushMsg)]
    BY <1>8 DEF Resume, TypeOK
  <2>2. /\ number' \in [Client -> Int]
        /\ target' \in [Client -> Seq(Action)]
        /\ syncing' \in [Client -> Nat]
        /\ lastId' \in [Client -> Nat]
        /\ toServer' \in [Client -> Seq(ServerMsg)]
    BY <1>8, <2>1, ApplyType DEF Resume
  <2>. QED  BY <1>8, <2>1, <2>2 DEF Resume, serverVars, TypeOK
<1>9. ASSUME NEW c \in Client, OnSyncResponse(c)
      PROVE  TypeOK'
  <2> DEFINE m == Head(toClient[c])
  <2>1. toClient' \in [Client -> Seq(ClientMsg)] /\ m \in ClientMsg
    BY <1>9, HandlesType DEF OnSyncResponse
  <2>2. m.type = "state" => m.number \in Int /\ m.target \in Seq(Action)
    BY <2>1, MsgTypes DEF StateMsg
  <2>3. /\ syncing' \in [Client -> Nat]
        /\ waiting' \in [Client -> Seq(PushMsg)]
        /\ resumed' \in [Client -> Seq(PushMsg)]
    BY <1>9, SettledType DEF OnSyncResponse, TypeOK
  <2>4. number' \in [Client -> Int] /\ target' \in [Client -> Seq(Action)]
    BY <1>9, <2>2 DEF OnSyncResponse, TypeOK
  <2>. QED  BY <1>9, <2>1, <2>3, <2>4 DEF OnSyncResponse, serverVars, TypeOK
<1>10. ASSUME NEW c \in Client, SyncTimeout(c)
       PROVE  TypeOK'
  <2>1. count' \in [{"action", "call", "switch", "timeout"} -> Nat]
    BY <1>10, CountType DEF SyncTimeout, TimedOut
  <2>. QED  BY <1>10, <2>1, SettledType DEF SyncTimeout, serverVars, TypeOK
<1>11. ASSUME NEW c \in Client, Execute(c)
       PROVE  TypeOK'
  <2> DEFINE m == [type |-> "execute", id |-> lastId[c] + 1]
  <2>1. m \in ServerMsg
    BY DEF TypeOK, ServerMsg, ExecuteMsg
  <2>2. toServer' = [toServer EXCEPT ![c] = Append(@, m)]
    BY <1>11 DEF Execute
  <2> HIDE DEF m
  <2>3. toServer' \in [Client -> Seq(ServerMsg)]
    BY <2>1, <2>2, SeqOps DEF TypeOK
  <2>4. count' \in [{"action", "call", "switch", "timeout"} -> Nat]
    BY <1>11, CountType DEF Execute
  <2>5. lastId[c] + 1 \in Nat /\ calls[c] \cup {lastId[c] + 1} \in SUBSET Nat
    BY DEF TypeOK
  <2>6. /\ lastId' = [lastId EXCEPT ![c] = lastId[c] + 1]
        /\ calls' = [calls EXCEPT ![c] = calls[c] \cup {lastId[c] + 1}]
    BY <1>11 DEF Execute
  <2>7. lastId' \in [Client -> Nat] /\ calls' \in [Client -> SUBSET Nat]
    BY <2>5, <2>6, Update DEF TypeOK
  <2>8. UNCHANGED <<serverVars, phase, toClient, number, target, syncing, waiting, resumed>>
    BY <1>11 DEF Execute
  <2>. QED  BY <2>3, <2>4, <2>7, <2>8 DEF serverVars, TypeOK
<1>12. ASSUME NEW c \in Client, OnReturn(c)
       PROVE  TypeOK'
  BY <1>12, HandlesType DEF OnReturn, serverVars, TypeOK
<1>. QED
  BY <1>1, <1>2, <1>3, <1>4, <1>5, <1>6, <1>7, <1>8, <1>9, <1>10, <1>11, <1>12 DEF Next

-----------------------------------------------------------------------------
(* What a step does to one client *)

\* Sequences seen through their elements.
LEMMA Element ==
  ASSUME NEW S, NEW s \in Seq(S), NEW i \in DOMAIN s
  PROVE  s[i] \in S
OBVIOUS

LEMMA TailElements ==
  ASSUME NEW S, NEW s \in Seq(S), s # <<>>
  PROVE  /\ DOMAIN Tail(s) = 1..(Len(s) - 1)
         /\ \A i \in DOMAIN Tail(s) : Tail(s)[i] = s[i + 1]
         /\ 1 \in DOMAIN s /\ Head(s) = s[1]
OBVIOUS

LEMMA AppendElements ==
  ASSUME NEW S, NEW s \in Seq(S), NEW x
  PROVE  /\ DOMAIN Append(s, x) = 1..(Len(s) + 1)
         /\ DOMAIN s = 1..Len(s) /\ Len(s) \in Nat
         /\ \A i \in DOMAIN s : Append(s, x)[i] = s[i]
         /\ Append(s, x)[Len(s) + 1] = x
OBVIOUS

LEMMA LogPrefix ==
  ASSUME NEW l \in Seq(Action)
  PROVE  l = Prefix(l, Len(l)) /\ Len(l) \in Nat
BY DEF Prefix

\* A copy of the first n + 1 actions has n + 1 actions.
LEMMA CopyFacts ==
  ASSUME NEW l \in Seq(Action), NEW n \in -1..(Len(l) - 1), NEW t \in Seq(Action),
         t = Prefix(l, n + 1)
  PROVE  n \in Int /\ n + 1 \in 0..Len(l) /\ Len(t) = n + 1
<1>1. Len(l) \in Nat
  OBVIOUS
<1>2. n \in Int /\ n + 1 \in 0..Len(l) /\ n + 1 \in Nat
  BY <1>1
<1>3. DOMAIN t = 1..(n + 1)
  BY DEF Prefix
<1>4. Len(t) = n + 1
  BY <1>2, <1>3
<1>. QED  BY <1>2, <1>4

LEMMA AppendPrefix ==
  ASSUME NEW l \in Seq(Action), NEW n \in Nat, n < Len(l), NEW t \in Seq(Action),
         t = Prefix(l, n)
  PROVE  Append(t, l[n + 1]) = Prefix(l, n + 1)
<1>1. Len(t) = n
  BY DEF Prefix
<1>2. \A i \in 1..n : t[i] = l[i]
  BY DEF Prefix
<1> DEFINE u == Append(t, l[n + 1])
<1>3. DOMAIN u = 1..(n + 1) /\ u = [i \in 1..(n + 1) |-> u[i]]
  BY <1>1
<1>4. \A i \in 1..(n + 1) : u[i] = l[i]
  BY <1>1, <1>2
<1>. QED  BY <1>3, <1>4 DEF Prefix

LEMMA Unaffected ==
  ASSUME NEW c \in Client, ClientInv(c), log' = log,
         number'[c] = number[c], target'[c] = target[c],
         waiting'[c] = waiting[c], resumed'[c] = resumed[c], toClient'[c] = toClient[c]
  PROVE  ClientInv(c)'
<1>1. Copies(c)'
  BY DEF ClientInv, Copies, Prefix
<1>2. Messages(c)'
  BY DEF ClientInv, Messages, Sound, SoundPush, SoundState, Prefix
<1>3. Ordered(c)'
  BY DEF ClientInv, Ordered
<1>. QED  BY <1>1, <1>2, <1>3 DEF ClientInv

\* The client takes a message from its port: what stays is sound, in order, and
\* no older than what the client had and what it took.
LEMMA Delivered ==
  ASSUME TypeOK, NEW c \in Client, ClientInv(c), toClient[c] # <<>>,
         toClient'[c] = Tail(toClient[c])
  PROVE  /\ Sound(log, Head(toClient[c]))
         /\ \A i \in DOMAIN toClient'[c] : Sound(log, toClient'[c][i])
         /\ \A j \in DOMAIN toClient'[c] : toClient'[c][j].type = "state" =>
              /\ number[c] <= toClient'[c][j].number
              /\ \A i \in DOMAIN waiting[c] : waiting[c][i].number <= toClient'[c][j].number
              /\ \A i \in DOMAIN resumed[c] : resumed[c][i].number <= toClient'[c][j].number
              /\ \A i \in 1..(j - 1) : toClient'[c][i].type \in {"push", "state"} =>
                   toClient'[c][i].number <= toClient'[c][j].number
              /\ Head(toClient[c]).type \in {"push", "state"} =>
                   Head(toClient[c]).number <= toClient'[c][j].number
<1>1. /\ DOMAIN toClient'[c] = 1..(Len(toClient[c]) - 1)
      /\ DOMAIN toClient[c] = 1..Len(toClient[c])
      /\ \A i \in DOMAIN toClient'[c] : toClient'[c][i] = toClient[c][i + 1]
      /\ 1 \in DOMAIN toClient[c] /\ Head(toClient[c]) = toClient[c][1]
  BY TailElements DEF TypeOK
<1>2. Len(toClient[c]) \in Nat
  BY DEF TypeOK
<1>3. \A i \in DOMAIN toClient'[c] : i + 1 \in DOMAIN toClient[c]
  BY <1>1, <1>2
<1>4. /\ Sound(log, Head(toClient[c]))
      /\ \A i \in DOMAIN toClient'[c] : Sound(log, toClient'[c][i])
  BY <1>1, <1>3 DEF ClientInv, Messages
<1>5. ASSUME NEW j \in DOMAIN toClient'[c], toClient'[c][j].type = "state"
      PROVE  /\ number[c] <= toClient'[c][j].number
             /\ \A i \in DOMAIN waiting[c] : waiting[c][i].number <= toClient'[c][j].number
             /\ \A i \in DOMAIN resumed[c] : resumed[c][i].number <= toClient'[c][j].number
             /\ \A i \in 1..(j - 1) : toClient'[c][i].type \in {"push", "state"} =>
                  toClient'[c][i].number <= toClient'[c][j].number
             /\ Head(toClient[c]).type \in {"push", "state"} =>
                  Head(toClient[c]).number <= toClient'[c][j].number
  <2>1. toClient'[c][j] = toClient[c][j + 1] /\ j + 1 \in DOMAIN toClient[c]
    BY <1>1, <1>3
  <2>2. \A i \in 1..(j - 1) : i \in DOMAIN toClient'[c] /\ i + 1 \in 1..j
    BY <1>1, <1>2
  <2>3. /\ number[c] <= toClient[c][j + 1].number
        /\ \A i \in DOMAIN waiting[c] : waiting[c][i].number <= toClient[c][j + 1].number
        /\ \A i \in DOMAIN resumed[c] : resumed[c][i].number <= toClient[c][j + 1].number
        /\ \A i \in 1..j : toClient[c][i].type \in {"push", "state"} =>
             toClient[c][i].number <= toClient[c][j + 1].number
    <3>1. (j + 1) - 1 = j
      BY <1>1, <1>2
    <3>. QED  BY <1>5, <2>1, <3>1 DEF ClientInv, Ordered
  <2>4. 1 \in 1..j
    BY <1>1, <1>2
  <2>. QED  BY <1>1, <2>1, <2>2, <2>3, <2>4
<1>. QED  BY <1>4, <1>5

\* The server adds a message that is no older than anything before it.
LEMMA Appended ==
  ASSUME TypeOK, NEW c \in Client, ClientInv(c), log' = log, NEW m,
         Sound(log, m), m.type = "state" => m.number = ServerNumber,
         number'[c] = number[c], target'[c] = target[c],
         waiting'[c] = waiting[c], resumed'[c] = resumed[c],
         toClient'[c] = Append(toClient[c], m)
  PROVE  ClientInv(c)'
<1> DEFINE n == Len(toClient[c])
<1>1. /\ DOMAIN toClient'[c] = 1..(n + 1) /\ DOMAIN toClient[c] = 1..n /\ n \in Nat
      /\ \A i \in 1..n : toClient'[c][i] = toClient[c][i]
      /\ toClient'[c][n + 1] = m
  BY AppendElements DEF TypeOK
<1> HIDE DEF n
<1>2. Copies(c)'
  BY DEF ClientInv, Copies, Prefix
<1>3. Messages(c)'
  <2>1. \A i \in DOMAIN toClient'[c] : Sound(log, toClient'[c][i])
    BY <1>1 DEF ClientInv, Messages
  <2>. QED  BY <2>1 DEF ClientInv, Messages, Sound, SoundPush, SoundState, Prefix
<1>4. ASSUME NEW j \in DOMAIN toClient'[c], toClient'[c][j].type = "state"
      PROVE  /\ number[c] <= toClient'[c][j].number
             /\ \A i \in DOMAIN waiting[c] : waiting[c][i].number <= toClient'[c][j].number
             /\ \A i \in DOMAIN resumed[c] : resumed[c][i].number <= toClient'[c][j].number
             /\ \A i \in 1..(j - 1) : toClient'[c][i].type \in {"push", "state"} =>
                  toClient'[c][i].number <= toClient'[c][j].number
  <2>1. CASE j \in 1..n
    BY <1>1, <1>4, <2>1 DEF ClientInv, Ordered
  <2>2. CASE j = n + 1
    <3>1. toClient'[c][j].number = Len(log) - 1 /\ Len(log) \in Nat
      BY <1>1, <1>4, <2>2 DEF ServerNumber, TypeOK
    <3>2. number[c] <= Len(log) - 1
      BY DEF ClientInv, Copies, TypeOK
    <3>3. ASSUME NEW p \in PushMsg, SoundPush(log, p)
          PROVE  p.number <= Len(log) - 1
      BY <3>3, <3>1 DEF SoundPush, PushMsg
    <3>a. waiting[c] \in Seq(PushMsg) /\ resumed[c] \in Seq(PushMsg)
          /\ toClient[c] \in Seq(ClientMsg)
      BY DEF TypeOK
    <3>b. Messages(c)
      BY DEF ClientInv
    <3>4. \A i \in DOMAIN waiting[c] : waiting[c][i].number <= Len(log) - 1
      BY <3>a, <3>b, <3>3, Element DEF Messages
    <3>5. \A i \in DOMAIN resumed[c] : resumed[c][i].number <= Len(log) - 1
      BY <3>a, <3>b, <3>3, Element DEF Messages
    <3>6. ASSUME NEW i \in 1..(j - 1), toClient'[c][i].type \in {"push", "state"}
          PROVE  toClient'[c][i].number <= Len(log) - 1
      <4>1. i \in DOMAIN toClient[c] /\ toClient'[c][i] = toClient[c][i]
        BY <1>1, <2>2
      <4>2. toClient[c][i] \in ClientMsg /\ Sound(log, toClient[c][i])
        BY <3>a, <3>b, <4>1, Element DEF Messages
      <4>3. CASE toClient[c][i].type = "push"
        BY <3>3, <4>1, <4>2, <4>3, MsgTypes DEF Sound
      <4>4. CASE toClient[c][i].type = "state"
        BY <3>1, <4>1, <4>2, <4>4 DEF Sound, SoundState
      <4>. QED  BY <3>6, <4>1, <4>3, <4>4
    <3>. QED  BY <3>1, <3>2, <3>4, <3>5, <3>6
  <2>. QED  BY <1>1, <2>1, <2>2
<1>5. Ordered(c)'
  BY <1>4 DEF Ordered
<1>. QED  BY <1>2, <1>3, <1>5 DEF ClientInv

\* What was sound stays sound when the server reduces another action.
LEMMA Grown ==
  ASSUME NEW l \in Seq(Action), NEW a
  PROVE  /\ \A p \in PushMsg : SoundPush(l, p) => SoundPush(Append(l, a), p)
         /\ \A m : SoundState(l, m) => SoundState(Append(l, a), m)
         /\ \A n \in Int : n <= Len(l) => Prefix(Append(l, a), n) = Prefix(l, n)
<1> DEFINE k == Append(l, a)
<1>1. /\ Len(k) = Len(l) + 1 /\ Len(l) \in Nat
      /\ \A i \in 1..Len(l) : k[i] = l[i]
  OBVIOUS
<1> HIDE DEF k
<1>2. \A n \in Int : n <= Len(l) => Prefix(k, n) = Prefix(l, n)
  BY <1>1 DEF Prefix
<1>3. ASSUME NEW p \in PushMsg, SoundPush(l, p)
      PROVE  SoundPush(k, p)
  <2>1. p.number \in Nat /\ p.number + 1 \in 1..Len(l)
    BY <1>1, <1>3 DEF SoundPush, PushMsg
  <2>. QED  BY <1>1, <1>3, <2>1 DEF SoundPush
<1>4. ASSUME NEW m, SoundState(l, m)
      PROVE  SoundState(k, m)
  <2>1. m.number \in Int /\ m.number + 1 <= Len(l) /\ m.number + 1 \in Int
    BY <1>1, <1>4 DEF SoundState
  <2>2. Prefix(k, m.number + 1) = Prefix(l, m.number + 1)
    BY <1>2, <2>1
  <2>. QED  BY <1>1, <1>4, <2>1, <2>2 DEF SoundState
<1>. QED  BY <1>2, <1>3, <1>4 DEF k

LEMMA ReducedClient ==
  ASSUME TypeOK, NEW c \in Client, ClientInv(c), NEW a \in Action, Reduce(a),
         UNCHANGED <<number, target, waiting, resumed>>
  PROVE  ClientInv(c)'
<1> DEFINE p == [type |-> "push", action |-> a, number |-> ServerNumber + 1]
           n == Len(toClient[c])
<1>1. log' = Append(log, a) /\ toClient' = Pushed(a)
  BY DEF Reduce
<1>2. /\ Len(log') = Len(log) + 1 /\ Len(log) \in Nat /\ log'[Len(log) + 1] = a
  BY <1>1 DEF TypeOK
<1>3. SoundPush(log', p) /\ p.type = "push"
  BY <1>2 DEF SoundPush, ServerNumber
<1>4. toClient'[c] = toClient[c] \/ toClient'[c] = Append(toClient[c], p)
  BY <1>1 DEF Pushed
<1>. HIDE DEF p, n
<1>5. Copies(c)'
  <2>1. number[c] \in Int /\ number[c] + 1 <= Len(log) /\ number[c] + 1 \in Int
    BY <1>2 DEF ClientInv, Copies
  <2>2. Prefix(log', number[c] + 1) = Prefix(log, number[c] + 1)
    BY <1>1, <2>1, Grown DEF TypeOK
  <2>. QED  BY <1>2, <2>1, <2>2 DEF ClientInv, Copies
<1>6. /\ \A i \in DOMAIN waiting[c] : SoundPush(log', waiting[c][i])
      /\ \A i \in DOMAIN resumed[c] : SoundPush(log', resumed[c][i])
  BY <1>1, Grown DEF ClientInv, Messages, TypeOK
<1>7. ASSUME NEW i \in DOMAIN toClient[c]
      PROVE  Sound(log', toClient[c][i])
  <2>1. toClient[c][i] \in ClientMsg /\ Sound(log, toClient[c][i])
    BY DEF ClientInv, Messages, TypeOK
  <2>. QED  BY <1>1, <2>1, Grown, MsgTypes DEF Sound, TypeOK
<1>8. CASE toClient'[c] = toClient[c]
  BY <1>5, <1>6, <1>7, <1>8 DEF ClientInv, Messages, Ordered
<1>9. CASE toClient'[c] = Append(toClient[c], p)
  <2>1. /\ DOMAIN toClient'[c] = 1..(n + 1) /\ DOMAIN toClient[c] = 1..n /\ n \in Nat
        /\ \A i \in 1..n : toClient'[c][i] = toClient[c][i]
        /\ toClient'[c][n + 1] = p
    BY <1>9, AppendElements DEF TypeOK, n
  <2>2. Sound(log', p)
    BY <1>3 DEF Sound
  <2>3. \A i \in DOMAIN toClient'[c] : Sound(log', toClient'[c][i])
    BY <1>7, <2>1, <2>2
  <2>4. Messages(c)'
    BY <1>6, <2>3 DEF Messages
  <2>5. ASSUME NEW j \in DOMAIN toClient'[c], toClient'[c][j].type = "state"
        PROVE  j \in 1..n
    BY <1>3, <2>1, <2>5
  <2>6. ASSUME NEW j \in DOMAIN toClient'[c], toClient'[c][j].type = "state"
        PROVE  /\ number[c] <= toClient'[c][j].number
               /\ \A i \in DOMAIN waiting[c] : waiting[c][i].number <= toClient'[c][j].number
               /\ \A i \in DOMAIN resumed[c] : resumed[c][i].number <= toClient'[c][j].number
               /\ \A i \in 1..(j - 1) : toClient'[c][i].type \in {"push", "state"} =>
                    toClient'[c][i].number <= toClient'[c][j].number
    <3>1. j \in 1..n /\ toClient'[c][j] = toClient[c][j]
      BY <2>1, <2>5, <2>6
    <3>2. \A i \in 1..(j - 1) : toClient'[c][i] = toClient[c][i]
      BY <2>1, <3>1
    <3>. QED  BY <2>1, <2>6, <3>1, <3>2 DEF ClientInv, Ordered
  <2>7. Ordered(c)'
    BY <2>6 DEF Ordered
  <2>. QED  BY <1>5, <2>4, <2>7 DEF ClientInv
<1>. QED  BY <1>4, <1>8, <1>9

\* The rest of a push handler moves the client one action forward or not at all.
LEMMA AppliedCopy ==
  ASSUME TypeOK, NEW c \in Client, ClientInv(c), log' = log,
         NEW p \in PushMsg, SoundPush(log, p), Apply(c, p)
  PROVE  /\ Copies(c)'
         /\ number'[c] = number[c] \/ number'[c] = p.number
         /\ number[c] <= number'[c]
<1>1. CASE Follows(c, p)
  <2>1. /\ number'[c] = p.number /\ p.number = number[c] + 1 /\ p.number \in Nat
        /\ target'[c] = Append(target[c], p.action)
    BY <1>1 DEF Apply, Follows, TypeOK, PushMsg
  <2>2. /\ p.number < Len(log) /\ p.action = log[p.number + 1] /\ Len(log) \in Nat
    BY DEF SoundPush, TypeOK
  <2>3. target[c] = Prefix(log, p.number) /\ target[c] \in Seq(Action) /\ log \in Seq(Action)
    BY <2>1 DEF ClientInv, Copies, TypeOK
  <2>4. Append(target[c], p.action) = Prefix(log, p.number + 1)
    BY <2>1, <2>2, <2>3, AppendPrefix
  <2>5. target'[c] = Prefix(log', number'[c] + 1)
    BY <2>1, <2>4
  <2>6. number'[c] \in -1..(Len(log') - 1) /\ number[c] <= number'[c]
    <3>1. number[c] \in Int
      BY DEF TypeOK
    <3>. QED  BY <2>1, <2>2, <3>1
  <2>. QED  BY <2>1, <2>5, <2>6 DEF Copies
<1>2. CASE ~Follows(c, p)
  <2>1. number' = number /\ target' = target
    BY <1>2 DEF Apply
  <2>. QED  BY <2>1 DEF ClientInv, Copies, Prefix, TypeOK
<1>. QED  BY <1>1, <1>2

LEMMA SettledClient ==
  ASSUME TypeOK, NEW c \in Client, ClientInv(c), resumed[c] = <<>>, Settled(c)
  PROVE  resumed'[c] = waiting[c] /\ waiting'[c] = <<>>
BY DEF Settled, TypeOK

-----------------------------------------------------------------------------
(* Every step preserves ClientInv of every client. *)

LEMMA NextClientInv ==
  ASSUME IInv, Next, NEW d \in Client
  PROVE  ClientInv(d)'
<1> USE DEF IInv
<1>1. ASSUME NEW a \in Action, Dispatch(a)
      PROVE  ClientInv(d)'
  BY <1>1, ReducedClient DEF Dispatch, clientVars
<1>2. ASSUME NEW e \in executing, Return(e)
      PROVE  ClientInv(d)'
  <2> DEFINE m == [type |-> "return", id |-> e.id, number |-> e.number, pushed |-> e.pushed]
  <2>1. Sound(log, m) /\ m.type # "state"
    BY DEF Sound
  <2>2. toClient'[d] = toClient[d] \/ toClient'[d] = Append(toClient[d], m)
    BY <1>2 DEF Return, TypeOK, Call
  <2>3. UNCHANGED <<log, number, target, waiting, resumed>>
    BY <1>2 DEF Return, clientVars
  <2> HIDE DEF m
  <2>. QED  BY <2>1, <2>2, <2>3, Appended, Unaffected
<1>3. ASSUME NEW c \in Client,
             SwitchTab(c) \/ CallTimeout(c) \/ Connect(c) \/ Execute(c)
      PROVE  ClientInv(d)'
  <2>1. UNCHANGED <<log, number, target, waiting, resumed, toClient>>
    BY <1>3 DEF SwitchTab, CallTimeout, Connect, Execute, clientVars, serverVars
  <2>. QED  BY <2>1, Unaffected
<1>4. ASSUME NEW c \in Client, OnExecute(c)
      PROVE  ClientInv(d)'
  <2>1. PICK a \in Action : Reduce(a)
    BY <1>4 DEF OnExecute
  <2>. QED  BY <1>4, <2>1, ReducedClient DEF OnExecute, clientVars
<1>5. ASSUME NEW c \in Client, OnSync(c)
      PROVE  ClientInv(d)'
  <2> DEFINE m == SyncResult(Head(toServer[c]))
  <2>1. UNCHANGED <<log, number, target, waiting, resumed>>
    BY <1>5 DEF OnSync, clientVars, serverVars
  <2>2. Sound(log, m) /\ (m.type = "state" => m.number = ServerNumber)
    <3>1. log = Prefix(log, Len(log)) /\ Len(log) \in Nat
      BY LogPrefix DEF TypeOK
    <3>2. m.type # "push"
      BY DEF SyncResult
    <3>3. CASE m.type = "state"
      <4>1. m.number = Len(log) - 1 /\ m.target = log
        BY <3>3 DEF SyncResult, ServerNumber
      <4>2. m.number + 1 = Len(log) /\ m.number \in -1..(Len(log) - 1)
        BY <3>1, <4>1
      <4>. QED  BY <3>1, <3>2, <4>1, <4>2 DEF Sound, SoundState, ServerNumber
    <3>. QED  BY <3>2, <3>3 DEF Sound
  <2>3. toClient'[d] = toClient[d] \/ toClient'[d] = Append(toClient[d], m)
    BY <1>5 DEF OnSync, TypeOK
  <2> HIDE DEF m
  <2>. QED  BY <2>1, <2>2, <2>3, Appended, Unaffected
<1>6. ASSUME NEW c \in Client, d # c,
             OnPush(c) \/ Resume(c) \/ OnSyncResponse(c) \/ SyncTimeout(c)
               \/ OnReturn(c) \/ Disconnect(c)
      PROVE  ClientInv(d)'
  <2>1. /\ log' = log /\ number'[d] = number[d] /\ target'[d] = target[d]
        /\ waiting'[d] = waiting[d] /\ resumed'[d] = resumed[d]
    <3>1. CASE OnPush(c)
      BY <1>6, <3>1 DEF OnPush, Apply, serverVars, TypeOK
    <3>2. CASE Resume(c)
      BY <1>6, <3>2 DEF Resume, Apply, serverVars, TypeOK
    <3>3. CASE OnSyncResponse(c)
      <4>1. log' = log /\ (Settled(c) \/ UNCHANGED <<waiting, resumed>>)
        BY <3>3 DEF OnSyncResponse, serverVars
      <4>2. waiting'[d] = waiting[d] /\ resumed'[d] = resumed[d]
        BY <1>6, <4>1 DEF Settled, TypeOK
      <4>3. number'[d] = number[d] /\ target'[d] = target[d]
        BY <1>6, <3>3 DEF OnSyncResponse, TypeOK
      <4>. QED  BY <4>1, <4>2, <4>3
    <3>4. CASE SyncTimeout(c)
      <4>1. UNCHANGED <<log, number, target>> /\ Settled(c)
        BY <3>4 DEF SyncTimeout, serverVars
      <4>. QED  BY <1>6, <4>1 DEF Settled, TypeOK
    <3>5. CASE OnReturn(c)
      BY <1>6, <3>5 DEF OnReturn, serverVars
    <3>6. CASE Disconnect(c)
      <4>1. /\ UNCHANGED <<log, number, target>>
            /\ waiting' = [waiting EXCEPT ![c] = <<>>]
            /\ resumed' = [resumed EXCEPT ![c] = <<>>]
        BY <3>6 DEF Disconnect, serverVars
      <4>. QED  BY <1>6, <4>1 DEF TypeOK
    <3>. QED  BY <1>6, <3>1, <3>2, <3>3, <3>4, <3>5, <3>6
  <2>2. toClient'[d] = toClient[d]
    BY <1>6 DEF OnPush, Resume, OnSyncResponse, SyncTimeout, OnReturn, Disconnect,
         Handles, TypeOK
  <2>. QED  BY <2>1, <2>2, Unaffected
<1>7. ASSUME OnPush(d)
      PROVE  ClientInv(d)'
  <2> DEFINE p == Head(toClient[d])
  <2>1. /\ toClient[d] # <<>> /\ toClient'[d] = Tail(toClient[d])
        /\ log' = log /\ resumed' = resumed
        /\ p \in PushMsg /\ p.type = "push"
    BY <1>7, HandlesType, MsgTypes DEF OnPush, Handles, serverVars, TypeOK
  <2>2. SoundPush(log, p)
    BY <2>1, Delivered DEF Sound
  <2> HIDE DEF p
  <2>3. CASE syncing[d] # 0
    <3>1. /\ waiting'[d] = Append(waiting[d], p)
          /\ number' = number /\ target' = target
      BY <1>7, <2>3 DEF OnPush, TypeOK, p
    <3>2. Copies(d)'
      BY <2>1, <3>1 DEF ClientInv, Copies, Prefix
    <3>3. \A i \in DOMAIN waiting'[d] : waiting'[d][i] = p \/
            (i \in DOMAIN waiting[d] /\ waiting'[d][i] = waiting[d][i])
      BY <3>1, AppendElements DEF TypeOK
    <3>4. Messages(d)'
      BY <2>1, <2>2, <3>3, Delivered DEF ClientInv, Messages
    <3>5. Ordered(d)'
      BY <2>1, <3>1, <3>3, Delivered DEF Ordered, p
    <3>. QED  BY <3>2, <3>4, <3>5 DEF ClientInv
  <2>4. CASE syncing[d] = 0
    <3>1. Apply(d, p) /\ waiting' = waiting
      BY <1>7, <2>4 DEF OnPush, p
    <3>2. Copies(d)' /\ (number'[d] = number[d] \/ number'[d] = p.number)
      BY <2>1, <2>2, <3>1, AppliedCopy
    <3>3. Messages(d)'
      BY <2>1, <3>1, Delivered DEF ClientInv, Messages
    <3>4. Ordered(d)'
      BY <2>1, <3>1, <3>2, Delivered DEF Ordered, p
    <3>. QED  BY <3>2, <3>3, <3>4 DEF ClientInv
  <2>. QED  BY <2>3, <2>4 DEF TypeOK
<1>8. ASSUME Resume(d)
      PROVE  ClientInv(d)'
  <2> DEFINE p == Head(resumed[d])
  <2>1. /\ resumed[d] # <<>> /\ resumed'[d] = Tail(resumed[d])
        /\ log' = log /\ toClient' = toClient /\ waiting' = waiting
        /\ resumed[d] \in Seq(PushMsg) /\ p \in PushMsg /\ Apply(d, p)
    BY <1>8 DEF Resume, serverVars, TypeOK
  <2>2. 1 \in DOMAIN resumed[d] /\ p = resumed[d][1]
    BY <2>1
  <2>3. \A i \in DOMAIN resumed'[d] :
          i + 1 \in DOMAIN resumed[d] /\ resumed'[d][i] = resumed[d][i + 1]
    BY <2>1
  <2>4. SoundPush(log, p)
    BY <2>2 DEF ClientInv, Messages
  <2> HIDE DEF p
  <2>5. Copies(d)' /\ (number'[d] = number[d] \/ number'[d] = p.number)
    BY <2>1, <2>4, AppliedCopy
  <2>6. Messages(d)'
    BY <2>1, <2>3 DEF ClientInv, Messages
  <2>7. Ordered(d)'
    BY <2>1, <2>2, <2>3, <2>5 DEF ClientInv, Ordered
  <2>. QED  BY <2>5, <2>6, <2>7 DEF ClientInv
<1>9. ASSUME OnSyncResponse(d)
      PROVE  ClientInv(d)'
  <2> DEFINE m == Head(toClient[d])
  <2>1. /\ toClient[d] # <<>> /\ toClient'[d] = Tail(toClient[d])
        /\ log' = log /\ resumed[d] = <<>>
        /\ m \in ClientMsg
    BY <1>9, HandlesType DEF OnSyncResponse, Handles, serverVars, TypeOK
  <2>2. \/ waiting'[d] = waiting[d] /\ resumed'[d] = resumed[d]
        \/ waiting'[d] = <<>> /\ resumed'[d] = waiting[d]
    BY <1>9, <2>1, SettledClient DEF OnSyncResponse
  <2>3. \/ number'[d] = number[d] /\ target'[d] = target[d]
        \/ m.type = "state" /\ number'[d] = m.number /\ target'[d] = m.target
    BY <1>9 DEF OnSyncResponse, TypeOK
  <2>4. Sound(log, m)
    BY <2>1, Delivered
  <2>5. Copies(d)'
    BY <2>1, <2>3, <2>4 DEF Sound, SoundState, ClientInv, Copies, Prefix
  <2>6. Messages(d)'
    BY <2>1, <2>2, Delivered DEF ClientInv, Messages
  <2>7. Ordered(d)'
    BY <2>1, <2>2, <2>3, Delivered DEF Ordered
  <2>. QED  BY <2>5, <2>6, <2>7 DEF ClientInv
<1>10. ASSUME SyncTimeout(d)
       PROVE  ClientInv(d)'
  <2>1. /\ waiting'[d] = <<>> /\ resumed'[d] = waiting[d] /\ log' = log
        /\ UNCHANGED <<number, target, toClient>>
    BY <1>10, SettledClient DEF SyncTimeout, serverVars
  <2>2. Copies(d)'
    BY <2>1 DEF ClientInv, Copies, Prefix
  <2>3. Messages(d)'
    BY <2>1 DEF ClientInv, Messages
  <2>4. Ordered(d)'
    BY <2>1 DEF ClientInv, Ordered
  <2>. QED  BY <2>2, <2>3, <2>4 DEF ClientInv
<1>11. ASSUME OnReturn(d)
       PROVE  ClientInv(d)'
  <2>1. /\ toClient[d] # <<>> /\ toClient'[d] = Tail(toClient[d]) /\ log' = log
        /\ UNCHANGED <<number, target, waiting, resumed>>
    BY <1>11 DEF OnReturn, Handles, serverVars, TypeOK
  <2>2. Copies(d)'
    BY <2>1 DEF ClientInv, Copies, Prefix
  <2>3. Messages(d)'
    BY <2>1, Delivered DEF ClientInv, Messages
  <2>4. Ordered(d)'
    BY <2>1, Delivered DEF Ordered
  <2>. QED  BY <2>2, <2>3, <2>4 DEF ClientInv
<1>12. ASSUME Disconnect(d)
       PROVE  ClientInv(d)'
  <2>1. /\ toClient'[d] = <<>> /\ waiting'[d] = <<>> /\ resumed'[d] = <<>>
        /\ UNCHANGED <<log, number, target>>
    BY <1>12 DEF Disconnect, serverVars, TypeOK
  <2>2. Copies(d)'
    BY <2>1 DEF ClientInv, Copies, Prefix
  <2>. QED  BY <2>1, <2>2 DEF ClientInv, Messages, Ordered
<1>. QED
  BY <1>1, <1>2, <1>3, <1>4, <1>5, <1>6, <1>7, <1>8, <1>9, <1>10, <1>11, <1>12 DEF Next

LEMMA InductiveInvariant == Spec => []IInv
<1>1. Init => IInv
  <2> SUFFICES ASSUME Init PROVE IInv
    OBVIOUS
  <2>1. TypeOK
    BY DEF Init, TypeOK
  <2>2. ASSUME NEW c \in Client PROVE ClientInv(c)
    BY DEF Init, ClientInv, Copies, Messages, Ordered, Prefix
  <2>. QED  BY <2>1, <2>2 DEF IInv
<1>2. IInv /\ [Next]_vars => IInv'
  <2> SUFFICES ASSUME IInv, [Next]_vars PROVE IInv'
    OBVIOUS
  <2>1. CASE Next
    BY <2>1, NextTypeOK, NextClientInv DEF IInv
  <2>2. CASE UNCHANGED vars
    <3>1. TypeOK'
      BY <2>2 DEF vars, IInv, TypeOK
    <3>2. ASSUME NEW c \in Client PROVE ClientInv(c)'
      BY <2>2, Unaffected DEF vars, IInv
    <3>. QED  BY <3>1, <3>2 DEF IInv
  <2>. QED  BY <2>1, <2>2
<1>. QED  BY <1>1, <1>2, PTL DEF Spec

\* The state and the messages of server and clients keep their types.
THEOREM TypeCorrect == Spec => []TypeOK
<1>1. IInv => TypeOK
  BY DEF IInv
<1>. QED  BY <1>1, InductiveInvariant, PTL

\* The number a client compares pushes with is the one of the state it holds.
THEOREM NumbersCorrect == Spec => []NumberedState
<1>1. IInv => NumberedState
  <2> SUFFICES ASSUME IInv, NEW c \in Client PROVE number[c] = Len(target[c]) - 1
    BY DEF NumberedState
  <2>1. /\ log \in Seq(Action) /\ target[c] \in Seq(Action)
        /\ number[c] \in -1..(Len(log) - 1) /\ target[c] = Prefix(log, number[c] + 1)
    BY DEF IInv, ClientInv, Copies, TypeOK
  <2>2. number[c] \in Int /\ Len(target[c]) = number[c] + 1
    BY <2>1, CopyFacts
  <2>. QED  BY <2>2
<1>. QED  BY <1>1, InductiveInvariant, PTL

-----------------------------------------------------------------------------
(* The refinement *)

\* A client whose number becomes n moves forward to the server's state n.
LEMMA MovesForward ==
  ASSUME IInv, IInv', NEW c \in Client, log' = log,
         target' = [target EXCEPT ![c] = target'[c]], number[c] <= number'[c]
  PROVE  R!CatchUp(c)
<1> DEFINE n == number'[c] + 1
<1>1. /\ log \in Seq(Action) /\ target[c] \in Seq(Action)
      /\ number[c] \in -1..(Len(log) - 1) /\ target[c] = Prefix(log, number[c] + 1)
  BY DEF IInv, ClientInv, Copies, TypeOK
<1>2. /\ target'[c] \in Seq(Action)
      /\ number'[c] \in -1..(Len(log) - 1) /\ target'[c] = Prefix(log, n)
  BY DEF IInv, ClientInv, Copies, TypeOK
<1>3. number[c] \in Int /\ Len(target[c]) = number[c] + 1
  BY <1>1, CopyFacts
<1>4. number'[c] \in Int /\ n \in 0..Len(log)
  BY <1>1, <1>2, CopyFacts
<1>5. n \in Len(target[c])..Len(log)
  BY <1>3, <1>4
<1>6. target'[c] = R!Prefix(n)
  BY <1>2 DEF Prefix, R!Prefix
<1>. QED  BY <1>5, <1>6 DEF R!CatchUp

LEMMA StepRefines ==
  ASSUME IInv, IInv', Next
  PROVE  R!Next \/ UNCHANGED R!vars
<1>1. ASSUME NEW a \in Action, Dispatch(a)
      PROVE  R!Reduce
  BY <1>1 DEF Dispatch, Reduce, clientVars, R!Reduce
<1>2. ASSUME NEW c \in Client, OnExecute(c)
      PROVE  R!Reduce
  BY <1>2 DEF OnExecute, Reduce, clientVars, R!Reduce
<1>3. ASSUME NEW e \in executing, Return(e)
      PROVE  UNCHANGED R!vars
  BY <1>3 DEF Return, clientVars, R!vars
<1>4. ASSUME NEW c \in Client,
             \/ SwitchTab(c) \/ Connect(c) \/ Disconnect(c) \/ OnSync(c) \/ SyncTimeout(c)
             \/ Execute(c) \/ OnReturn(c) \/ CallTimeout(c)
      PROVE  UNCHANGED R!vars
  BY <1>4 DEF SwitchTab, Connect, Disconnect, OnSync, SyncTimeout, Execute, OnReturn,
       CallTimeout, clientVars, serverVars, R!vars
<1>5. ASSUME NEW c \in Client, NEW p \in PushMsg, Apply(c, p), log' = log
      PROVE  R!CatchUp(c) \/ UNCHANGED R!vars
  <2>1. CASE Follows(c, p)
    <3>1. number'[c] = number[c] + 1 /\ target' = [target EXCEPT ![c] = Append(@, p.action)]
      BY <1>5, <2>1 DEF Apply, Follows, IInv, TypeOK
    <3>2. number[c] <= number'[c]
      <4>1. number[c] \in Int
        BY DEF IInv, TypeOK
      <4>. QED  BY <3>1, <4>1
    <3>3. target' = [target EXCEPT ![c] = target'[c]]
      BY <3>1 DEF IInv, TypeOK
    <3>. QED  BY <1>5, <3>2, <3>3, MovesForward
  <2>2. CASE ~Follows(c, p)
    BY <1>5, <2>2 DEF Apply, R!vars
  <2>. QED  BY <2>1, <2>2
<1>6. ASSUME NEW c \in Client, OnPush(c)
      PROVE  R!CatchUp(c) \/ UNCHANGED R!vars
  <2>1. Head(toClient[c]) \in PushMsg
    BY <1>6, HandlesType, MsgTypes DEF OnPush, IInv
  <2>. QED  BY <1>5, <1>6, <2>1 DEF OnPush, serverVars, R!vars
<1>7. ASSUME NEW c \in Client, Resume(c)
      PROVE  R!CatchUp(c) \/ UNCHANGED R!vars
  <2>1. resumed[c] \in Seq(PushMsg) /\ resumed[c] # <<>>
    BY <1>7 DEF Resume, IInv, TypeOK
  <2>2. Head(resumed[c]) \in PushMsg
    BY <2>1, SeqOps
  <2>. QED  BY <1>5, <1>7, <2>2 DEF Resume, serverVars
<1>8. ASSUME NEW c \in Client, OnSyncResponse(c)
      PROVE  R!CatchUp(c) \/ UNCHANGED R!vars
  <2> DEFINE m == Head(toClient[c])
  <2>1. log' = log
    BY <1>8 DEF OnSyncResponse, serverVars
  <2>2. CASE UNCHANGED <<number, target>>
    BY <2>1, <2>2 DEF R!vars
  <2>3. CASE /\ m.type = "state"
             /\ number' = [number EXCEPT ![c] = m.number]
             /\ target' = [target EXCEPT ![c] = m.target]
    <3>0. toClient[c] # <<>> /\ toClient[c] \in Seq(ClientMsg)
      BY <1>8 DEF OnSyncResponse, Handles, IInv, TypeOK
    <3>1. 1 \in DOMAIN toClient[c] /\ m = toClient[c][1]
      BY <3>0, HeadIsFirst
    <3>2. number[c] <= m.number
      BY <2>3, <3>0, <3>1 DEF IInv, ClientInv, Ordered
    <3>3. number'[c] = m.number /\ target' = [target EXCEPT ![c] = target'[c]]
      BY <2>3 DEF IInv, TypeOK
    <3>. QED  BY <2>1, <3>2, <3>3, MovesForward
  <2>. QED  BY <1>8, <2>2, <2>3 DEF OnSyncResponse
<1>. QED
  BY <1>1, <1>2, <1>3, <1>4, <1>6, <1>7, <1>8 DEF Next, R!Next

\* The proxy implements Replica: every client's target is the server's after
\* some number of actions, and only moves forward.
THEOREM ProxyImplementsReplica == Spec => ImplementsReplica
<1>1. Init => R!Init
  BY DEF Init, R!Init
<1>2. IInv /\ IInv' /\ [Next]_vars => [R!Next]_(R!vars)
  <2>1. IInv /\ IInv' /\ Next => R!Next \/ UNCHANGED R!vars
    BY StepRefines
  <2>2. UNCHANGED vars => UNCHANGED R!vars
    BY DEF vars, R!vars
  <2>. QED  BY <2>1, <2>2
<1>. QED  BY <1>1, <1>2, InductiveInvariant, PTL DEF Spec, ImplementsReplica, R!Spec
-----------------------------------------------------------------------------
(***************************************************************************)
(* A page that has the answer to a call is up to date with what it did.    *)
(***************************************************************************)

\* The push of action n is ahead of place k of the port, or its handler waits.
OnItsWay(c, n, k) ==
  \/ \E i \in DOMAIN toClient[c] : i < k /\ toClient[c][i].type = "push" /\ toClient[c][i].number = n
  \/ \E i \in DOMAIN waiting[c] : waiting[c][i].number = n
  \/ \E i \in DOMAIN resumed[c] : resumed[c][i].number = n

\* A sync is under way, and it will bring action n.
Covered(c, n) ==
  /\ syncing[c] # 0
  /\ \A j \in DOMAIN toServer[c] :
       toServer[c][j].type = "sync" /\ toServer[c][j].id = syncing[c] => toServer[c][j].number < n
  /\ \A j \in DOMAIN toClient[c] :
       toClient[c][j].type \in {"state", "upToDate"} /\ toClient[c][j].id = syncing[c] =>
         toClient[c][j].type = "state" /\ n <= toClient[c][j].number

Assured(c, n, k) ==
  n < Len(log) /\ (n <= number[c] \/ OnItsWay(c, n, k) \/ Covered(c, n))

\* What a call did is assured from the time it is made until the caller has the answer.
CallsAssured(c) ==
  /\ \A e \in executing : e.client = c /\ e.pushed => \E k \in Nat : Assured(c, e.number, k)
  /\ \A k \in DOMAIN toClient[c] :
       toClient[c][k].type = "return" /\ toClient[c][k].pushed => Assured(c, toClient[c][k].number, k)

\* A request for a sync, or its answer, is of an id the client has given out, and asks
\* for what is newer than a state the client had.
Requests(c) ==
  /\ \A j \in DOMAIN toServer[c] : toServer[c][j].type = "sync" =>
       toServer[c][j].id <= lastId[c] /\ toServer[c][j].number <= number[c]
  /\ \A j \in DOMAIN toClient[c] : toClient[c][j].type \in {"state", "upToDate"} =>
       toClient[c][j].id <= lastId[c]

\* The client that is told it is up to date holds no newer push.
UpToDate(c) ==
  \A j \in DOMAIN toClient[c] :
    toClient[c][j].type = "upToDate" /\ syncing[c] # 0 /\ toClient[c][j].id = syncing[c] =>
      /\ \A i \in DOMAIN waiting[c] : waiting[c][i].number <= number[c]
      /\ \A i \in DOMAIN resumed[c] : resumed[c][i].number <= number[c]
      /\ \A i \in DOMAIN toClient[c] : i < j /\ toClient[c][i].type = "push" =>
           toClient[c][i].number <= number[c]

Waiters(c) == waiting[c] # <<>> => syncing[c] # 0

NotConnected(c) ==
  phase[c] = "new" => toClient[c] = <<>> /\ \A e \in executing : e.client # c

WriteInv(c) ==
  /\ Requests(c) /\ UpToDate(c) /\ Waiters(c) /\ NotConnected(c)
  /\ (phase[c] = "connected" /\ count["timeout"] = 0 => CallsAssured(c))

\* Client c will have action n, or be past it, unless its port closes.
Pledged(c, n) == \E k \in Nat : Assured(c, n, k)

\* A step keeps the invariant and, without timeouts, what a connected client is pledged.
Kept(c) ==
  /\ WriteInv(c)'
  /\ phase[c] = "connected" /\ phase'[c] = "connected" /\ count'["timeout"] = 0 =>
       \A n \in Nat : Pledged(c, n) => Pledged(c, n)'

-----------------------------------------------------------------------------
(* Assurances, step by step *)

LEMMA ReturnType ==
  ASSUME NEW m \in ClientMsg, m.type = "return"
  PROVE  m.number \in Nat /\ m.pushed \in BOOLEAN
BY DEF ClientMsg, PushMsg, StateMsg, ErrorMsg, ReturnMsg

LEMMA Numbers ==
  ASSUME TypeOK, NEW c \in Client
  PROVE  /\ number[c] \in Int /\ syncing[c] \in Nat /\ lastId[c] \in Nat /\ Len(log) \in Nat
         /\ Len(toClient[c]) \in Nat /\ DOMAIN toClient[c] = 1..Len(toClient[c])
         /\ \A i \in DOMAIN waiting[c] : waiting[c][i].number \in Nat
         /\ \A i \in DOMAIN resumed[c] : resumed[c][i].number \in Nat
         /\ \A i \in DOMAIN toClient[c] :
              /\ toClient[c][i].type = "push" => toClient[c][i].number \in Nat
              /\ toClient[c][i].type = "state" => toClient[c][i].number \in Int
              /\ toClient[c][i].type \in {"state", "upToDate"} => toClient[c][i].id \in Nat
              /\ toClient[c][i].type = "return" => toClient[c][i].number \in Nat
         /\ \A i \in DOMAIN toServer[c] :
              toServer[c][i].id \in Nat /\ (toServer[c][i].type = "sync" => toServer[c][i].number \in Int)
<1>1. /\ number[c] \in Int /\ syncing[c] \in Nat /\ lastId[c] \in Nat /\ log \in Seq(Action)
      /\ toClient[c] \in Seq(ClientMsg) /\ toServer[c] \in Seq(ServerMsg)
      /\ waiting[c] \in Seq(PushMsg) /\ resumed[c] \in Seq(PushMsg)
  BY DEF TypeOK
<1>2. \A p \in PushMsg : p.number \in Nat
  BY DEF PushMsg
<1>3. \A m \in StateMsg : m.id \in Nat /\ m.number \in Int
  BY DEF StateMsg
<1>4. /\ \A i \in DOMAIN waiting[c] : waiting[c][i] \in PushMsg
      /\ \A i \in DOMAIN resumed[c] : resumed[c][i] \in PushMsg
      /\ \A i \in DOMAIN toClient[c] : toClient[c][i] \in ClientMsg
      /\ \A i \in DOMAIN toServer[c] : toServer[c][i] \in ServerMsg
  BY <1>1, Element
<1>5. Len(log) \in Nat /\ Len(toClient[c]) \in Nat /\ DOMAIN toClient[c] = 1..Len(toClient[c])
  <2>1. Len(log) \in Nat
    BY <1>1
  <2>2. Len(toClient[c]) \in Nat /\ DOMAIN toClient[c] = 1..Len(toClient[c])
    BY <1>1
  <2>. QED  BY <2>1, <2>2
<1>6. \A m \in ClientMsg :
        /\ m.type = "push" => m.number \in Nat
        /\ m.type = "state" => m.number \in Int
        /\ m.type \in {"state", "upToDate"} => m.id \in Nat
        /\ m.type = "return" => m.number \in Nat
  BY <1>2, <1>3, MsgTypes, ReturnType
<1>. QED  BY <1>1, <1>2, <1>4, <1>5, <1>6, RequestTypes

\* The port after its first message was taken.
LEMMA Shift ==
  ASSUME TypeOK, NEW c \in Client, toClient[c] # <<>>, toClient'[c] = Tail(toClient[c])
  PROVE  /\ \A i \in DOMAIN toClient'[c] :
              i \in Nat /\ i + 1 \in DOMAIN toClient[c] /\ toClient'[c][i] = toClient[c][i + 1]
         /\ \A i \in DOMAIN toClient[c] :
              i = 1 \/ (i - 1 \in DOMAIN toClient'[c] /\ toClient'[c][i - 1] = toClient[c][i])
         /\ 1 \in DOMAIN toClient[c] /\ Head(toClient[c]) = toClient[c][1]
<1>1. toClient[c] \in Seq(ClientMsg)
  BY DEF TypeOK
<1>2. /\ DOMAIN toClient'[c] = 1..(Len(toClient[c]) - 1) /\ DOMAIN toClient[c] = 1..Len(toClient[c])
      /\ Len(toClient[c]) \in Nat
      /\ \A i \in DOMAIN toClient'[c] : toClient'[c][i] = toClient[c][i + 1]
      /\ 1 \in DOMAIN toClient[c] /\ Head(toClient[c]) = toClient[c][1]
  BY <1>1, TailElements
<1>3. \A i \in DOMAIN toClient'[c] : i \in Nat /\ i + 1 \in DOMAIN toClient[c]
  BY <1>2
<1>4. ASSUME NEW i \in DOMAIN toClient[c], i # 1
      PROVE  i - 1 \in DOMAIN toClient'[c] /\ toClient'[c][i - 1] = toClient[c][i]
  <2>1. i - 1 \in DOMAIN toClient'[c] /\ (i - 1) + 1 = i
    BY <1>2, <1>4
  <2>. QED  BY <1>2, <2>1
<1>. QED  BY <1>2, <1>3, <1>4

\* What is new on the ports of a client that itself does nothing is not an answer to
\* its sync that would leave out what the sync is to bring.
LEMMA AssuredBeside ==
  ASSUME TypeOK, NEW c \in Client, NEW n \in Nat, NEW k \in Nat, NEW l \in Nat, k <= l,
         Assured(c, n, k), NEW m,
         toClient'[c] = toClient[c] \/ toClient'[c] = Append(toClient[c], m),
         Covered(c, n) /\ m.type \in {"state", "upToDate"} /\ m.id = syncing[c]
           => m.type = "state" /\ n <= m.number,
         \A j \in DOMAIN toServer'[c] : toServer'[c][j].type = "sync" =>
           \E i \in DOMAIN toServer[c] : toServer'[c][j] = toServer[c][i],
         Len(log) <= Len(log'), Len(log') \in Nat, number'[c] = number[c],
         waiting'[c] = waiting[c], resumed'[c] = resumed[c], syncing'[c] = syncing[c]
  PROVE  Assured(c, n, l)'
<1>1. n < Len(log')
  BY Numbers DEF Assured
<1>2. /\ \A i \in DOMAIN toClient[c] : i \in DOMAIN toClient'[c] /\ toClient'[c][i] = toClient[c][i]
      /\ \A i \in DOMAIN toClient'[c] :
           toClient'[c][i] = m \/ (i \in DOMAIN toClient[c] /\ toClient'[c][i] = toClient[c][i])
      /\ DOMAIN toClient[c] \subseteq Nat
  <2>1. toClient[c] \in Seq(ClientMsg)
    BY DEF TypeOK
  <2>2. CASE toClient'[c] = toClient[c]
    BY <2>1, <2>2
  <2>3. CASE toClient'[c] = Append(toClient[c], m)
    BY <2>1, <2>3, AppendElements
  <2>. QED  BY <2>2, <2>3
<1>3. CASE n <= number[c]
  BY <1>1, <1>3 DEF Assured
<1>4. CASE OnItsWay(c, n, k)
  <2>1. OnItsWay(c, n, l)'
    <3>1. CASE \E i \in DOMAIN toClient[c] : i < k /\ toClient[c][i].type = "push"
                                               /\ toClient[c][i].number = n
      <4>1. PICK i \in DOMAIN toClient[c] : i < k /\ toClient[c][i].type = "push"
                                              /\ toClient[c][i].number = n
        BY <3>1
      <4>2. i < l /\ i \in DOMAIN toClient'[c] /\ toClient'[c][i] = toClient[c][i]
        BY <1>2, <4>1
      <4>. QED  BY <4>1, <4>2 DEF OnItsWay
    <3>. QED  BY <1>4, <3>1 DEF OnItsWay
  <2>. QED  BY <1>1, <2>1 DEF Assured
<1>5. CASE Covered(c, n)
  <2>1. Covered(c, n)'
    BY <1>2, <1>5 DEF Covered
  <2>. QED  BY <1>1, <2>1 DEF Assured
<1>. QED  BY <1>3, <1>4, <1>5 DEF Assured

\* Assurances kept for each place keep those of the calls: when the port is as it was ...
LEMMA CallsKept ==
  ASSUME TypeOK, NEW c \in Client, CallsAssured(c), toClient'[c] = toClient[c],
         \A e \in executing' : e.client = c /\ e.pushed => e \in executing,
         \A n \in Nat, k \in Nat : Assured(c, n, k) => Assured(c, n, k)'
  PROVE  CallsAssured(c)'
<1>1. ASSUME NEW e \in executing', e.client = c, e.pushed
      PROVE  \E k \in Nat : Assured(c, e.number, k)'
  <2>1. e \in executing /\ e.number \in Nat
    BY <1>1 DEF TypeOK, Call
  <2>2. PICK k \in Nat : Assured(c, e.number, k)
    BY <1>1, <2>1 DEF CallsAssured
  <2>. QED  BY <2>1, <2>2
<1>2. ASSUME NEW k \in DOMAIN toClient'[c], toClient'[c][k].type = "return", toClient'[c][k].pushed
      PROVE  Assured(c, toClient[c][k].number, k)'
  <2>1. k \in DOMAIN toClient[c] /\ k \in Nat /\ toClient[c][k].number \in Nat
    BY <1>2, Numbers
  <2>2. PICK n \in Nat : n = toClient[c][k].number
    BY <2>1
  <2>3. Assured(c, n, k)'
    BY <1>2, <2>1, <2>2 DEF CallsAssured
  <2>. QED  BY <2>2, <2>3 DEF Assured, OnItsWay, Covered
<1>. QED  BY <1>1, <1>2 DEF CallsAssured

\* ... and when its first message was taken.
LEMMA CallsPopped ==
  ASSUME TypeOK, NEW c \in Client, CallsAssured(c), toClient[c] # <<>>,
         toClient'[c] = Tail(toClient[c]), executing' = executing,
         \A n \in Nat, k \in Nat : Assured(c, n, k + 1) => Assured(c, n, k)'
  PROVE  CallsAssured(c)'
<1>1. ASSUME NEW e \in executing', e.client = c, e.pushed
      PROVE  \E k \in Nat : Assured(c, e.number, k)'
  <2>1. e \in executing /\ e.number \in Nat
    BY <1>1 DEF TypeOK, Call
  <2>2. PICK k \in Nat : Assured(c, e.number, k)
    BY <1>1, <2>1 DEF CallsAssured
  <2>3. Assured(c, e.number, k + 1)
    <3>1. OnItsWay(c, e.number, k) => OnItsWay(c, e.number, k + 1)
      <4>1. \A i \in DOMAIN toClient[c] : i < k => i < k + 1
        BY Numbers
      <4>. QED  BY <4>1 DEF OnItsWay
    <3>. QED  BY <2>2, <3>1 DEF Assured
  <2>. QED  BY <2>1, <2>3
<1>2. ASSUME NEW k \in DOMAIN toClient'[c], toClient'[c][k].type = "return", toClient'[c][k].pushed
      PROVE  Assured(c, toClient[c][k].number, k)'
  <2>1. /\ k \in Nat /\ k + 1 \in DOMAIN toClient[c] /\ toClient'[c][k] = toClient[c][k + 1]
    BY Shift
  <2>2. PICK n \in Nat : n = toClient[c][k + 1].number
    BY <1>2, <2>1, Numbers
  <2>3. Assured(c, n, k + 1)
    BY <1>2, <2>1, <2>2 DEF CallsAssured
  <2>4. Assured(c, n, k)'
    BY <2>1, <2>3
  <2>. QED  BY <2>1, <2>2, <2>4 DEF Assured, OnItsWay, Covered
<1>. QED  BY <1>1, <1>2 DEF CallsAssured

\* So it is for what the client is pledged.
LEMMA PledgesPopped ==
  ASSUME TypeOK, NEW c \in Client, \A n \in Nat, k \in Nat : Assured(c, n, k + 1) => Assured(c, n, k)'
  PROVE  \A n \in Nat : Pledged(c, n) => Pledged(c, n)'
<1>. SUFFICES ASSUME NEW n \in Nat, NEW k \in Nat, Assured(c, n, k)
              PROVE  Pledged(c, n)'
  BY DEF Pledged
<1>1. \A i \in DOMAIN toClient[c] : i < k => i < k + 1
  BY Numbers
<1>2. Assured(c, n, k + 1)
  BY <1>1 DEF Assured, OnItsWay
<1>. QED  BY <1>2 DEF Pledged

\* A client that takes in nothing, and about which nothing is pushed.
LEMMA Bystander ==
  ASSUME TypeOK, NEW c \in Client, WriteInv(c), Len(log) <= Len(log'), Len(log') \in Nat,
         number'[c] = number[c], waiting'[c] = waiting[c], resumed'[c] = resumed[c],
         toClient'[c] = toClient[c], syncing'[c] = syncing[c], phase'[c] = phase[c],
         \A j \in DOMAIN toServer'[c] : toServer'[c][j].type = "sync" =>
           \E i \in DOMAIN toServer[c] : toServer'[c][j] = toServer[c][i],
         lastId'[c] \in Nat, lastId[c] <= lastId'[c],
         \A e \in executing' : e.client = c =>
           e \in executing \/ (phase[c] = "connected" /\ ~e.pushed),
         count'["timeout"] = 0 => count["timeout"] = 0
  PROVE  Kept(c)
<1>1. UpToDate(c)' /\ Waiters(c)' /\ NotConnected(c)'
  BY DEF WriteInv, UpToDate, Waiters, NotConnected
<1>2. Requests(c)'
  <2>1. \A i \in Nat : i <= lastId[c] => i <= lastId'[c]
    BY Numbers
  <2>2. \A j \in DOMAIN toServer[c] : toServer[c][j].type = "sync" =>
          toServer[c][j].id <= lastId'[c] /\ toServer[c][j].number <= number[c]
    BY <2>1, Numbers DEF WriteInv, Requests
  <2>3. \A j \in DOMAIN toClient[c] : toClient[c][j].type \in {"state", "upToDate"} =>
          toClient[c][j].id <= lastId'[c]
    BY <2>1, Numbers DEF WriteInv, Requests
  <2>. QED  BY <2>2, <2>3 DEF Requests
<1>3. ASSUME NEW n \in Nat, NEW k \in Nat, Assured(c, n, k)
      PROVE  Assured(c, n, k)'
  <2>1. n < Len(log')
    BY <1>3, Numbers DEF Assured
  <2>2. Covered(c, n) => Covered(c, n)'
    BY DEF Covered
  <2>. QED  BY <1>3, <2>1, <2>2 DEF Assured, OnItsWay
<1>4. CallsAssured(c) => CallsAssured(c)'
  BY <1>3, CallsKept
<1>5. \A n \in Nat : Pledged(c, n) => Pledged(c, n)'
  BY <1>3 DEF Pledged
<1>6. WriteInv(c)'
  BY <1>1, <1>2, <1>4 DEF WriteInv
<1>. QED  BY <1>5, <1>6 DEF Kept

\* The rest of a push handler: the client has the push's action or a sync brings it.
LEMMA AppliedWrite ==
  ASSUME TypeOK, NEW c \in Client, ClientInv(c), Requests(c), UpToDate(c),
         NEW p \in PushMsg, Apply(c, p),
         syncing[c] = 0 \/ \E i \in DOMAIN resumed[c] : resumed[c][i] = p,
         \A j \in DOMAIN toClient'[c] : \E i \in DOMAIN toClient[c] : toClient'[c][j] = toClient[c][i]
  PROVE  /\ p.number <= number'[c] \/ Covered(c, p.number)'
         /\ number[c] <= number'[c]
         /\ \A n \in Nat : Covered(c, n) => Covered(c, n)'
         /\ Requests(c)'
         /\ syncing'[c] = syncing[c]
              \/ \A j \in DOMAIN toClient'[c] :
                   toClient'[c][j].type \in {"state", "upToDate"} => toClient'[c][j].id # syncing'[c]
         /\ syncing[c] # 0 => syncing'[c] # 0
<1>1. /\ number[c] \in Int /\ syncing[c] \in Nat /\ lastId[c] \in Nat /\ p.number \in Nat
  BY Numbers DEF PushMsg
<1>2. \A j \in DOMAIN toClient'[c] : toClient'[c][j].type \in {"state", "upToDate"} =>
        toClient'[c][j].id <= lastId[c]
  BY DEF Requests
<1>3. CASE Follows(c, p)
  <2>1. /\ number'[c] = p.number /\ p.number = number[c] + 1
        /\ UNCHANGED <<syncing, lastId, toServer>>
    BY <1>3 DEF Apply, Follows, TypeOK
  <2>2. Requests(c)'
    <3>1. ASSUME NEW j \in DOMAIN toServer[c], toServer[c][j].type = "sync"
          PROVE  toServer[c][j].number <= number'[c]
      <4>1. toServer[c][j].number \in Int /\ toServer[c][j].number <= number[c]
        BY <3>1, Numbers DEF Requests
      <4>. QED  BY <1>1, <2>1, <4>1
    <3>. QED  BY <1>2, <2>1, <3>1 DEF Requests
  <2>3. \A n \in Nat : Covered(c, n) => Covered(c, n)'
    BY <2>1 DEF Covered
  <2>4. p.number <= number'[c] /\ number[c] <= number'[c]
    BY <1>1, <2>1
  <2>. QED  BY <2>1, <2>2, <2>3, <2>4
<1>4. CASE ~Follows(c, p) /\ syncing[c] # 0
  <2>1. UNCHANGED <<number, syncing, lastId, toServer>>
    BY <1>4 DEF Apply, Resync, Sync
  <2>2. Requests(c)'
    BY <1>2, <2>1 DEF Requests
  <2>3. \A n \in Nat : Covered(c, n) => Covered(c, n)'
    BY <2>1 DEF Covered
  <2>4. ASSUME ~(p.number <= number[c])
        PROVE  Covered(c, p.number)
    <3>1. PICK i \in DOMAIN resumed[c] : resumed[c][i] = p
      BY <1>4
    <3>2. ASSUME NEW j \in DOMAIN toServer[c], toServer[c][j].type = "sync"
          PROVE  toServer[c][j].number < p.number
      <4>1. toServer[c][j].number \in Int /\ toServer[c][j].number <= number[c]
        BY <3>2, Numbers DEF Requests
      <4>. QED  BY <1>1, <2>4, <4>1
    <3>3. ASSUME NEW j \in DOMAIN toClient[c], toClient[c][j].type \in {"state", "upToDate"},
                 toClient[c][j].id = syncing[c]
          PROVE  toClient[c][j].type = "state" /\ p.number <= toClient[c][j].number
      <4>1. toClient[c][j].type # "upToDate"
        BY <1>4, <2>4, <3>1, <3>3 DEF UpToDate
      <4>2. toClient[c][j].type = "state"
        BY <3>3, <4>1
      <4>. QED  BY <3>1, <4>2 DEF ClientInv, Ordered
    <3>. QED  BY <1>4, <3>2, <3>3 DEF Covered
  <2>5. number[c] <= number'[c]
    BY <1>1, <2>1
  <2>. QED  BY <1>1, <2>1, <2>2, <2>3, <2>4, <2>5
<1>5. CASE ~Follows(c, p) /\ syncing[c] = 0
  <2> DEFINE q == [type |-> "sync", id |-> lastId[c] + 1, number |-> number[c]]
  <2>1. /\ number' = number /\ syncing'[c] = lastId[c] + 1 /\ lastId'[c] = lastId[c] + 1
        /\ toServer'[c] = Append(toServer[c], q)
    BY <1>5 DEF Apply, Resync, Sync, TypeOK
  <2>2. q.type = "sync" /\ q.id = lastId[c] + 1 /\ q.number = number[c]
    OBVIOUS
  <2> HIDE DEF q
  <2>3. \A j \in DOMAIN toServer'[c] : toServer'[c][j] = q \/
          (j \in DOMAIN toServer[c] /\ toServer'[c][j] = toServer[c][j])
    <3>1. toServer[c] \in Seq(ServerMsg)
      BY DEF TypeOK
    <3>2. /\ DOMAIN toServer'[c] = 1..(Len(toServer[c]) + 1)
          /\ DOMAIN toServer[c] = 1..Len(toServer[c]) /\ Len(toServer[c]) \in Nat
          /\ \A i \in DOMAIN toServer[c] : toServer'[c][i] = toServer[c][i]
          /\ toServer'[c][Len(toServer[c]) + 1] = q
      <4>1. toServer'[c] = Append(toServer[c], q)
        BY <2>1
      <4>. QED  BY <3>1, <4>1, AppendElements
    <3>. QED  BY <3>2
  <2>4. \A j \in DOMAIN toServer[c] : toServer[c][j].type = "sync" =>
          toServer[c][j].id \in Nat /\ toServer[c][j].id <= lastId[c]
            /\ toServer[c][j].number <= number[c]
    BY Numbers DEF Requests
  <2>5. \A j \in DOMAIN toClient'[c] : toClient'[c][j].type \in {"state", "upToDate"} =>
          toClient'[c][j].id \in Nat /\ toClient'[c][j].id <= lastId[c]
    BY Numbers DEF Requests
  <2>6. Requests(c)'
    <3>1. ASSUME NEW j \in DOMAIN toServer'[c], toServer'[c][j].type = "sync"
          PROVE  toServer'[c][j].id <= lastId[c] + 1 /\ toServer'[c][j].number <= number[c]
      <4>1. CASE toServer'[c][j] = q
        BY <1>1, <2>2, <4>1
      <4>2. CASE j \in DOMAIN toServer[c] /\ toServer'[c][j] = toServer[c][j]
        BY <1>1, <2>4, <3>1, <4>2
      <4>. QED  BY <2>3, <4>1, <4>2
    <3>2. \A j \in DOMAIN toClient'[c] : toClient'[c][j].type \in {"state", "upToDate"} =>
            toClient'[c][j].id <= lastId[c] + 1
      BY <1>1, <2>5
    <3>. QED  BY <2>1, <3>1, <3>2 DEF Requests
  <2>7. \A j \in DOMAIN toClient'[c] : toClient'[c][j].type \in {"state", "upToDate"} =>
          toClient'[c][j].id # syncing'[c]
    BY <1>1, <2>1, <2>5
  <2>8. ASSUME ~(p.number <= number[c])
        PROVE  Covered(c, p.number)'
    <3>1. ASSUME NEW j \in DOMAIN toServer'[c], toServer'[c][j].type = "sync",
                 toServer'[c][j].id = syncing'[c]
          PROVE  toServer'[c][j].number < p.number
      <4>1. toServer'[c][j] = q
        BY <1>1, <2>1, <2>3, <2>4, <3>1
      <4>. QED  BY <1>1, <2>2, <2>8, <4>1
    <3>2. syncing'[c] # 0
      BY <1>1, <2>1
    <3>. QED  BY <2>7, <3>1, <3>2 DEF Covered
  <2>9. /\ number[c] <= number'[c] /\ syncing[c] = 0
        /\ \A n \in Nat : ~Covered(c, n)
    BY <1>1, <1>5, <2>1 DEF Covered
  <2>. QED  BY <1>1, <2>1, <2>6, <2>7, <2>8, <2>9
<1>. QED  BY <1>3, <1>4, <1>5

\* The server adds a message to the port of a client that does nothing itself, and may
\* begin or end its calls.
LEMMA Added ==
  ASSUME TypeOK, NEW c \in Client, WriteInv(c), Len(log) <= Len(log'), Len(log') \in Nat, NEW m,
         number'[c] = number[c], waiting'[c] = waiting[c], resumed'[c] = resumed[c],
         toClient'[c] = Append(toClient[c], m),
         \A j \in DOMAIN toServer'[c] : \E i \in DOMAIN toServer[c] : toServer'[c][j] = toServer[c][i],
         syncing'[c] = syncing[c], lastId'[c] = lastId[c], phase' = phase,
         phase[c] = "connected", count'["timeout"] = count["timeout"],
         m.type \in {"state", "upToDate"} => m.id \in Nat /\ m.id <= lastId[c],
         m.type = "upToDate" =>
           /\ \A i \in DOMAIN waiting[c] : waiting[c][i].number <= number[c]
           /\ \A i \in DOMAIN resumed[c] : resumed[c][i].number <= number[c]
           /\ \A i \in DOMAIN toClient[c] : toClient[c][i].type = "push" =>
                toClient[c][i].number <= number[c],
         \A n \in Nat : n < Len(log) /\ Covered(c, n)
             /\ m.type \in {"state", "upToDate"} /\ m.id = syncing[c]
           => m.type = "state" /\ n <= m.number,
         m.type = "return" /\ m.pushed =>
           m.number \in Nat /\ (CallsAssured(c) => \E k \in Nat : Assured(c, m.number, k)),
         \A e \in executing' : e.client = c /\ e.pushed =>
           e \in executing \/ (m.type = "push" /\ m.number = e.number /\ e.number < Len(log'))
  PROVE  Kept(c)
<1> DEFINE l == Len(toClient[c])
<1>1. /\ DOMAIN toClient'[c] = 1..(l + 1) /\ DOMAIN toClient[c] = 1..l /\ l \in Nat
      /\ \A i \in 1..l : toClient'[c][i] = toClient[c][i]
      /\ toClient'[c][l + 1] = m
  <2>1. toClient[c] \in Seq(ClientMsg)
    BY DEF TypeOK
  <2>2. toClient'[c] = Append(toClient[c], m)
    OBVIOUS
  <2>. QED  BY <2>1, <2>2, AppendElements
<1> HIDE DEF l
<1>2. Requests(c)'
  BY <1>1 DEF WriteInv, Requests
<1>3. UpToDate(c)'
  <2> SUFFICES ASSUME NEW j \in 1..(l + 1), toClient'[c][j].type = "upToDate", syncing[c] # 0,
                      toClient'[c][j].id = syncing[c]
               PROVE  /\ \A i \in DOMAIN waiting[c] : waiting[c][i].number <= number[c]
                      /\ \A i \in DOMAIN resumed[c] : resumed[c][i].number <= number[c]
                      /\ \A i \in 1..(l + 1) : i < j /\ toClient'[c][i].type = "push" =>
                           toClient'[c][i].number <= number[c]
    BY <1>1 DEF UpToDate
  <2>1. \A i \in 1..(l + 1) : i < j => i \in 1..l
    BY <1>1
  <2>2. CASE j \in 1..l
    BY <1>1, <2>1, <2>2 DEF WriteInv, UpToDate
  <2>3. CASE j = l + 1
    BY <1>1, <2>1, <2>3
  <2>4. l \in Nat
    BY <1>1
  <2>5. j \in 1..l \/ j = l + 1
    BY <2>4
  <2>. QED  BY <2>2, <2>3, <2>5
<1>4. Waiters(c)' /\ NotConnected(c)'
  BY DEF WriteInv, Waiters, NotConnected
<1>5. ASSUME NEW n \in Nat, NEW k \in Nat, NEW h \in Nat, k <= h, Assured(c, n, k)
      PROVE  Assured(c, n, h)'
  <2>1. n < Len(log)
    BY <1>5 DEF Assured
  <2>2. \A j \in DOMAIN toServer'[c] : toServer'[c][j].type = "sync" =>
          \E i \in DOMAIN toServer[c] : toServer'[c][j] = toServer[c][i]
    OBVIOUS
  <2>. QED  BY <1>5, <2>1, <2>2, AssuredBeside
<1>6. ASSUME CallsAssured(c)
      PROVE  CallsAssured(c)'
  <2>1. ASSUME NEW e \in executing', e.client = c, e.pushed
        PROVE  \E k \in Nat : Assured(c, e.number, k)'
    <3>1. CASE e \in executing
      <4>1. e.number \in Nat
        BY <3>1 DEF TypeOK, Call
      <4>2. PICK k \in Nat : Assured(c, e.number, k)
        BY <1>6, <2>1, <3>1 DEF CallsAssured
      <4>. QED  BY <1>5, <4>1, <4>2
    <3>2. CASE m.type = "push" /\ m.number = e.number /\ e.number < Len(log')
      <4>1. PICK k \in Nat : k = l + 2
        BY <1>1
      <4>2. l + 1 < k /\ l + 1 \in DOMAIN toClient'[c]
        BY <1>1, <4>1
      <4>3. OnItsWay(c, e.number, k)'
        BY <1>1, <3>2, <4>2 DEF OnItsWay
      <4>. QED  BY <3>2, <4>3 DEF Assured
    <3>. QED  BY <2>1, <3>1, <3>2
  <2>2. ASSUME NEW k \in 1..l, toClient[c][k].type = "return", toClient[c][k].pushed
        PROVE  Assured(c, toClient[c][k].number, k)'
    <3>1. PICK n \in Nat : n = toClient[c][k].number
      BY <1>1, <2>2, Numbers
    <3>2. Assured(c, n, k) /\ k \in Nat
      BY <1>1, <1>6, <2>2, <3>1 DEF CallsAssured
    <3>3. Assured(c, n, k)' /\ n = toClient'[c][k].number
      BY <1>1, <1>5, <3>1, <3>2
    <3>. QED  BY <3>3 DEF Assured, OnItsWay, Covered
  <2>3. ASSUME NEW k \in Nat, k = l + 1, m.type = "return", m.pushed
        PROVE  Assured(c, m.number, k)'
    <3>1. PICK n \in Nat : n = m.number
      BY <2>3
    <3>2. PICK h \in Nat : Assured(c, n, h)
      BY <1>6, <2>3, <3>1
    <3>3. Assured(c, n, k)
      <4>1. \A i \in DOMAIN toClient[c] : i < k
        BY <1>1, <2>3
      <4>. QED  BY <3>2, <4>1 DEF Assured, OnItsWay
    <3>4. Assured(c, n, k)'
      BY <1>5, <3>3
    <3>. QED  BY <3>1, <3>4
  <2>4. ASSUME NEW k \in DOMAIN toClient'[c], toClient'[c][k].type = "return", toClient'[c][k].pushed
        PROVE  Assured(c, toClient[c][k].number, k)'
    <3>1. CASE k \in 1..l
      BY <1>1, <2>2, <2>4, <3>1
    <3>2. CASE k = l + 1
      <4>1. k \in Nat /\ toClient'[c][k] = m
        BY <1>1, <3>2
      <4>. QED  BY <2>3, <2>4, <3>2, <4>1
    <3>. QED  BY <1>1, <3>1, <3>2
  <2>. QED  BY <2>1, <2>4 DEF CallsAssured
<1>7. WriteInv(c)'
  BY <1>2, <1>3, <1>4, <1>6 DEF WriteInv
<1>8. \A n \in Nat : Pledged(c, n) => Pledged(c, n)'
  <2>1. \A k \in Nat : k <= k
    OBVIOUS
  <2>. QED  BY <1>5, <2>1 DEF Pledged
<1>. QED  BY <1>7, <1>8 DEF Kept

\* What is behind the first message, when that was no push and no answer waited for.
LEMMA Skipped ==
  ASSUME TypeOK, NEW c \in Client, WriteInv(c), log' = log, executing' = executing,
         toClient[c] # <<>>, toClient'[c] = Tail(toClient[c]), Head(toClient[c]).type # "push",
         number'[c] = number[c], waiting'[c] = waiting[c], resumed'[c] = resumed[c],
         toServer'[c] = toServer[c], syncing'[c] = syncing[c], lastId'[c] = lastId[c],
         phase' = phase, count'["timeout"] = count["timeout"]
  PROVE  Kept(c)
<1>1. /\ \A i \in DOMAIN toClient'[c] :
           i \in Nat /\ i + 1 \in DOMAIN toClient[c] /\ toClient'[c][i] = toClient[c][i + 1]
      /\ \A i \in DOMAIN toClient[c] :
           i = 1 \/ (i - 1 \in DOMAIN toClient'[c] /\ toClient'[c][i - 1] = toClient[c][i])
      /\ 1 \in DOMAIN toClient[c] /\ Head(toClient[c]) = toClient[c][1]
      /\ DOMAIN toClient[c] \subseteq Nat
  <2>1. DOMAIN toClient[c] \subseteq Nat
    BY Numbers
  <2>. QED  BY <2>1, Shift
<1>2. Requests(c)'
  BY <1>1 DEF WriteInv, Requests
<1>3. UpToDate(c)'
  <2> SUFFICES ASSUME NEW j \in DOMAIN toClient'[c], toClient'[c][j].type = "upToDate",
                      syncing[c] # 0, toClient'[c][j].id = syncing[c]
               PROVE  /\ \A i \in DOMAIN waiting[c] : waiting[c][i].number <= number[c]
                      /\ \A i \in DOMAIN resumed[c] : resumed[c][i].number <= number[c]
                      /\ \A i \in DOMAIN toClient'[c] : i < j /\ toClient'[c][i].type = "push" =>
                           toClient'[c][i].number <= number[c]
    BY DEF UpToDate
  <2>1. \A i \in DOMAIN toClient'[c] : i < j => i + 1 < j + 1
    BY <1>1
  <2>. QED  BY <1>1, <2>1 DEF WriteInv, UpToDate
<1>4. Waiters(c)' /\ NotConnected(c)'
  BY <1>1 DEF WriteInv, Waiters, NotConnected
<1>5. ASSUME NEW n \in Nat, NEW k \in Nat, Assured(c, n, k + 1)
      PROVE  Assured(c, n, k)'
  <2>1. CASE \E i \in DOMAIN toClient[c] :
               i < k + 1 /\ toClient[c][i].type = "push" /\ toClient[c][i].number = n
    <3>1. PICK i \in DOMAIN toClient[c] :
            i < k + 1 /\ toClient[c][i].type = "push" /\ toClient[c][i].number = n
      BY <2>1
    <3>2. i # 1
      BY <1>1, <3>1
    <3>3. i - 1 \in DOMAIN toClient'[c] /\ toClient'[c][i - 1] = toClient[c][i] /\ i - 1 < k
      BY <1>1, <3>1, <3>2
    <3>. QED  BY <1>5, <3>1, <3>3 DEF Assured, OnItsWay
  <2>2. CASE Covered(c, n)
    <3>1. Covered(c, n)'
      BY <1>1, <2>2 DEF Covered
    <3>. QED  BY <1>5, <3>1 DEF Assured
  <2>. QED  BY <1>5, <2>1, <2>2 DEF Assured, OnItsWay
<1>6. \A n \in Nat, k \in Nat : Assured(c, n, k + 1) => Assured(c, n, k)'
  BY <1>5
<1>7. CallsAssured(c) => CallsAssured(c)'
  BY <1>6, CallsPopped, Zenon
<1>8. \A n \in Nat : Pledged(c, n) => Pledged(c, n)'
  BY <1>6, PledgesPopped, Zenon
<1>9. WriteInv(c)'
  BY <1>2, <1>3, <1>4, <1>7 DEF WriteInv
<1>. QED  BY <1>8, <1>9 DEF Kept

\* A push is taken, or the handler of one continues: what it brings is assured.
LEMMA PushWrite ==
  ASSUME IInv, NEW c \in Client, WriteInv(c), OnPush(c)
  PROVE  Kept(c)
<1>0. PICK p \in PushMsg : p = Head(toClient[c]) /\ p.type = "push"
  BY HandlesType, MsgTypes DEF OnPush, IInv
<1>1. /\ toClient[c] # <<>> /\ toClient'[c] = Tail(toClient[c])
      /\ log' = log /\ resumed' = resumed /\ resumed[c] = <<>>
      /\ executing' = executing /\ phase' = phase /\ count' = count /\ phase[c] = "connected"
      /\ TypeOK /\ ClientInv(c)
  BY DEF OnPush, Handles, serverVars, TypeOK, IInv
<1>2. /\ \A i \in DOMAIN toClient'[c] :
           i \in Nat /\ i + 1 \in DOMAIN toClient[c] /\ toClient'[c][i] = toClient[c][i + 1]
      /\ \A i \in DOMAIN toClient[c] :
           i = 1 \/ (i - 1 \in DOMAIN toClient'[c] /\ toClient'[c][i - 1] = toClient[c][i])
      /\ 1 \in DOMAIN toClient[c] /\ p = toClient[c][1]
  BY <1>0, <1>1, Shift
<1>3. DOMAIN toClient[c] \subseteq Nat /\ p.number \in Nat
  BY <1>1, Numbers DEF PushMsg
<1>4. \A j \in DOMAIN toClient'[c] : \E i \in DOMAIN toClient[c] : toClient'[c][j] = toClient[c][i]
  BY <1>2
<1>5. \A n \in Nat, k \in Nat : OnItsWay(c, n, k + 1) /\ ~OnItsWay(c, n, k)'
        => n = p.number \/ \E i \in DOMAIN waiting[c] : waiting[c][i].number = n
  <2> SUFFICES ASSUME NEW n \in Nat, NEW k \in Nat, n # p.number,
                      NEW i \in DOMAIN toClient[c], i < k + 1,
                      toClient[c][i].type = "push", toClient[c][i].number = n
               PROVE  OnItsWay(c, n, k)'
    BY <1>1 DEF OnItsWay
  <2>1. i # 1
    BY <1>2
  <2>2. i - 1 \in DOMAIN toClient'[c] /\ toClient'[c][i - 1] = toClient[c][i] /\ i - 1 < k
    BY <1>2, <1>3, <2>1
  <2>. QED  BY <2>2 DEF OnItsWay
<1>6. CASE syncing[c] # 0
  <2>1. /\ waiting'[c] = Append(waiting[c], p) /\ waiting[c] \in Seq(PushMsg)
        /\ UNCHANGED <<number, syncing, lastId, toServer>>
    BY <1>0, <1>6 DEF OnPush, TypeOK, IInv
  <2>2. /\ \A i \in DOMAIN waiting'[c] : waiting'[c][i] = p \/
             (i \in DOMAIN waiting[c] /\ waiting'[c][i] = waiting[c][i])
        /\ \A i \in DOMAIN waiting[c] : i \in DOMAIN waiting'[c] /\ waiting'[c][i] = waiting[c][i]
        /\ \E i \in DOMAIN waiting'[c] : waiting'[c][i] = p
    <3>1. /\ DOMAIN waiting'[c] = 1..(Len(waiting[c]) + 1) /\ DOMAIN waiting[c] = 1..Len(waiting[c])
          /\ Len(waiting[c]) \in Nat
          /\ \A i \in DOMAIN waiting[c] : waiting'[c][i] = waiting[c][i]
          /\ waiting'[c][Len(waiting[c]) + 1] = p
      BY <2>1, AppendElements
    <3>. QED  BY <3>1
  <2>3. Requests(c)'
    BY <1>4, <2>1 DEF WriteInv, Requests
  <2>4. UpToDate(c)'
    <3> SUFFICES ASSUME NEW j \in DOMAIN toClient'[c], toClient'[c][j].type = "upToDate",
                        toClient'[c][j].id = syncing[c]
                 PROVE  /\ \A i \in DOMAIN waiting'[c] : waiting'[c][i].number <= number[c]
                        /\ \A i \in DOMAIN resumed[c] : resumed[c][i].number <= number[c]
                        /\ \A i \in DOMAIN toClient'[c] : i < j /\ toClient'[c][i].type = "push" =>
                             toClient'[c][i].number <= number[c]
      BY <1>1, <2>1 DEF UpToDate
    <3>1. j + 1 \in DOMAIN toClient[c] /\ toClient'[c][j] = toClient[c][j + 1] /\ 1 < j + 1
          /\ \A i \in DOMAIN toClient'[c] : i < j => i + 1 < j + 1
      <4>1. j \in Nat /\ j + 1 \in DOMAIN toClient[c] /\ toClient'[c][j] = toClient[c][j + 1]
        BY <1>2
      <4>2. 1 < j + 1
        <5>1. j + 1 # 1
          BY <1>0, <1>2, <4>1
        <5>. QED  BY <1>3, <4>1, <5>1, Numbers, <1>1
      <4>3. \A i \in DOMAIN toClient'[c] : i < j => i + 1 < j + 1
        BY <1>2, <4>1
      <4>. QED  BY <4>1, <4>2, <4>3
    <3>2. /\ \A i \in DOMAIN waiting[c] : waiting[c][i].number <= number[c]
          /\ \A i \in DOMAIN resumed[c] : resumed[c][i].number <= number[c]
          /\ \A i \in DOMAIN toClient[c] : i < j + 1 /\ toClient[c][i].type = "push" =>
               toClient[c][i].number <= number[c]
      BY <1>6, <3>1 DEF WriteInv, UpToDate
    <3>3. p.number <= number[c]
      BY <1>0, <1>2, <3>1, <3>2
    <3>. QED  BY <1>2, <2>2, <3>1, <3>2, <3>3
  <2>5. Waiters(c)' /\ NotConnected(c)'
    BY <1>1, <1>6, <2>1 DEF Waiters, NotConnected
  <2>6. ASSUME NEW n \in Nat, NEW k \in Nat, Assured(c, n, k + 1)
        PROVE  Assured(c, n, k)'
    <3>0. n < Len(log')
      BY <1>1, <2>6 DEF Assured
    <3>1. CASE OnItsWay(c, n, k + 1)
      <4>1. OnItsWay(c, n, k)'
        BY <1>5, <2>2, <3>1 DEF OnItsWay
      <4>. QED  BY <3>0, <4>1 DEF Assured
    <3>2. CASE Covered(c, n)
      <4>1. Covered(c, n)'
        BY <1>4, <2>1, <3>2 DEF Covered
      <4>. QED  BY <3>0, <4>1 DEF Assured
    <3>. QED  BY <2>1, <2>6, <3>0, <3>1, <3>2 DEF Assured
  <2>7. \A n \in Nat, k \in Nat : Assured(c, n, k + 1) => Assured(c, n, k)'
    BY <2>6
  <2>8. CallsAssured(c) => CallsAssured(c)'
    BY <1>1, <2>7, CallsPopped, Zenon
  <2>9. WriteInv(c)'
    BY <1>1, <2>3, <2>4, <2>5, <2>8 DEF WriteInv
  <2>10. \A n \in Nat : Pledged(c, n) => Pledged(c, n)'
    BY <1>1, <2>7, PledgesPopped, Zenon
  <2>. QED  BY <2>9, <2>10 DEF Kept
<1>7. CASE syncing[c] = 0
  <2>1. Apply(c, p) /\ waiting' = waiting
    BY <1>0, <1>7 DEF OnPush
  <2>2. Requests(c) /\ UpToDate(c) /\ waiting[c] = <<>>
    BY <1>7 DEF WriteInv, Waiters
  <2>3. /\ p.number <= number'[c] \/ Covered(c, p.number)'
        /\ number[c] <= number'[c]
        /\ \A n \in Nat : Covered(c, n) => Covered(c, n)'
        /\ Requests(c)'
        /\ syncing'[c] = syncing[c]
             \/ \A j \in DOMAIN toClient'[c] :
                  toClient'[c][j].type \in {"state", "upToDate"} => toClient'[c][j].id # syncing'[c]
    BY <1>1, <1>4, <1>7, <2>1, <2>2, AppliedWrite
  <2>4. UpToDate(c)'
    BY <1>7, <2>3 DEF UpToDate
  <2>5. Waiters(c)' /\ NotConnected(c)'
    BY <1>1, <2>1, <2>2 DEF Waiters, NotConnected
  <2>6. ASSUME NEW n \in Nat, NEW k \in Nat, Assured(c, n, k + 1)
        PROVE  Assured(c, n, k)'
    <3>0. n < Len(log')
      BY <1>1, <2>6 DEF Assured
    <3>1. CASE OnItsWay(c, n, k)'
      BY <3>0, <3>1 DEF Assured
    <3>2. CASE OnItsWay(c, n, k + 1) /\ ~OnItsWay(c, n, k)'
      <4>1. n = p.number
        BY <1>5, <2>2, <3>2
      <4>. QED  BY <2>3, <3>0, <4>1 DEF Assured
    <3>3. CASE Covered(c, n)
      BY <2>3, <3>0, <3>3 DEF Assured
    <3>4. CASE n <= number[c]
      <4>1. number[c] \in Int /\ number'[c] \in Int
        BY <1>1, <2>1, ApplyType, Numbers
      <4>2. n <= number'[c]
        BY <2>3, <3>4, <4>1
      <4>. QED  BY <3>0, <4>2 DEF Assured
    <3>. QED  BY <2>6, <3>1, <3>2, <3>3, <3>4 DEF Assured
  <2>7. \A n \in Nat, k \in Nat : Assured(c, n, k + 1) => Assured(c, n, k)'
    BY <2>6
  <2>8. CallsAssured(c) => CallsAssured(c)'
    BY <1>1, <2>7, CallsPopped, Zenon
  <2>9. WriteInv(c)'
    BY <1>1, <2>3, <2>4, <2>5, <2>8 DEF WriteInv
  <2>10. \A n \in Nat : Pledged(c, n) => Pledged(c, n)'
    BY <1>1, <2>7, PledgesPopped, Zenon
  <2>. QED  BY <2>9, <2>10 DEF Kept
<1>. QED  BY <1>3, <1>6, <1>7 DEF IInv, TypeOK

LEMMA ResumeWrite ==
  ASSUME IInv, NEW c \in Client, WriteInv(c), Resume(c)
  PROVE  Kept(c)
<1>0. PICK p \in PushMsg : p = Head(resumed[c])
  BY SeqOps DEF Resume, IInv, TypeOK
<1>1. /\ resumed[c] # <<>> /\ resumed'[c] = Tail(resumed[c]) /\ resumed[c] \in Seq(PushMsg)
      /\ log' = log /\ toClient' = toClient /\ waiting' = waiting
      /\ executing' = executing /\ phase' = phase /\ count' = count /\ phase[c] = "connected"
      /\ Apply(c, p) /\ TypeOK /\ ClientInv(c)
  BY <1>0 DEF Resume, serverVars, TypeOK, IInv
<1>2. /\ \A i \in DOMAIN resumed'[c] : \E h \in DOMAIN resumed[c] : resumed'[c][i] = resumed[c][h]
      /\ \A i \in DOMAIN resumed[c] : resumed[c][i] = p \/
           \E h \in DOMAIN resumed'[c] : resumed'[c][h] = resumed[c][i]
      /\ 1 \in DOMAIN resumed[c] /\ p = resumed[c][1]
  <2>1. /\ DOMAIN resumed'[c] = 1..(Len(resumed[c]) - 1)
        /\ \A i \in DOMAIN resumed'[c] : resumed'[c][i] = resumed[c][i + 1]
        /\ 1 \in DOMAIN resumed[c] /\ p = resumed[c][1]
    BY <1>0, <1>1, TailElements
  <2>2. DOMAIN resumed[c] = 1..Len(resumed[c]) /\ Len(resumed[c]) \in Nat
    BY <1>1
  <2>3. \A i \in DOMAIN resumed'[c] : i + 1 \in DOMAIN resumed[c]
    BY <2>1, <2>2
  <2>4. ASSUME NEW i \in DOMAIN resumed[c], i # 1
        PROVE  i - 1 \in DOMAIN resumed'[c] /\ resumed'[c][i - 1] = resumed[c][i]
    <3>1. i - 1 \in DOMAIN resumed'[c] /\ (i - 1) + 1 = i
      BY <2>1, <2>2, <2>4
    <3>. QED  BY <2>1, <3>1
  <2>. QED  BY <2>1, <2>3, <2>4
<1>4. \A j \in DOMAIN toClient'[c] : \E i \in DOMAIN toClient[c] : toClient'[c][j] = toClient[c][i]
  BY <1>1
<1>5. \E i \in DOMAIN resumed[c] : resumed[c][i] = p
  BY <1>2
<1>6. /\ p.number <= number'[c] \/ Covered(c, p.number)'
      /\ number[c] <= number'[c]
      /\ \A n \in Nat : Covered(c, n) => Covered(c, n)'
      /\ Requests(c)'
      /\ syncing'[c] = syncing[c]
           \/ \A j \in DOMAIN toClient'[c] :
                toClient'[c][j].type \in {"state", "upToDate"} => toClient'[c][j].id # syncing'[c]
      /\ syncing[c] # 0 => syncing'[c] # 0
  BY <1>1, <1>4, <1>5, AppliedWrite DEF WriteInv
<1>7. number[c] \in Int /\ number'[c] \in Int
  BY <1>1, ApplyType, Numbers
<1>8. UpToDate(c)'
  <2> SUFFICES ASSUME NEW j \in DOMAIN toClient[c], toClient[c][j].type = "upToDate",
                      syncing'[c] = syncing[c], syncing[c] # 0, toClient[c][j].id = syncing[c]
               PROVE  /\ \A i \in DOMAIN waiting[c] : waiting[c][i].number <= number'[c]
                      /\ \A i \in DOMAIN resumed'[c] : resumed'[c][i].number <= number'[c]
                      /\ \A i \in DOMAIN toClient[c] : i < j /\ toClient[c][i].type = "push" =>
                           toClient[c][i].number <= number'[c]
    BY <1>1, <1>6 DEF UpToDate
  <2>1. \A n \in Nat : n <= number[c] => n <= number'[c]
    BY <1>6, <1>7
  <2>2. /\ \A i \in DOMAIN waiting[c] : waiting[c][i].number <= number'[c]
        /\ \A i \in DOMAIN resumed[c] : resumed[c][i].number <= number'[c]
        /\ \A i \in DOMAIN toClient[c] : i < j /\ toClient[c][i].type = "push" =>
             toClient[c][i].number <= number'[c]
    BY <1>1, <2>1, Numbers DEF WriteInv, UpToDate
  <2>. QED  BY <1>2, <2>2
<1>9. Waiters(c)' /\ NotConnected(c)'
  BY <1>1, <1>6 DEF WriteInv, Waiters, NotConnected
<1>10. ASSUME NEW n \in Nat, NEW k \in Nat, Assured(c, n, k)
       PROVE  Assured(c, n, k)'
  <2>1. CASE OnItsWay(c, n, k)
    <3>1. n = p.number \/ OnItsWay(c, n, k)'
      <4>1. CASE \E i \in DOMAIN resumed[c] : resumed[c][i].number = n
        BY <1>2, <4>1 DEF OnItsWay
      <4>. QED  BY <1>1, <2>1, <4>1 DEF OnItsWay
    <3>. QED  BY <1>1, <1>6, <1>10, <3>1 DEF Assured
  <2>2. CASE Covered(c, n)
    BY <1>1, <1>6, <1>10, <2>2 DEF Assured
  <2>3. CASE n <= number[c]
    <3>1. n <= number'[c]
      BY <1>6, <1>7, <2>3
    <3>. QED  BY <1>1, <1>10, <3>1 DEF Assured
  <2>. QED  BY <1>10, <2>1, <2>2, <2>3 DEF Assured
<1>11. CallsAssured(c) => CallsAssured(c)'
  BY <1>1, <1>10, CallsKept
<1>12. \A n \in Nat : Pledged(c, n) => Pledged(c, n)'
  BY <1>10 DEF Pledged
<1>13. WriteInv(c)'
  BY <1>1, <1>6, <1>8, <1>9, <1>11 DEF WriteInv
<1>. QED  BY <1>12, <1>13 DEF Kept

\* The sync that is waited for ends: it brings what was covered, and its waiters go on.
LEMMA SyncedWrite ==
  ASSUME IInv, NEW c \in Client, WriteInv(c), OnSyncResponse(c), Expected(c, Head(toClient[c]))
  PROVE  Kept(c)
<1> DEFINE m == Head(toClient[c])
<1>1. /\ toClient[c] # <<>> /\ toClient'[c] = Tail(toClient[c])
      /\ log' = log /\ resumed[c] = <<>> /\ waiting'[c] = <<>> /\ resumed'[c] = waiting[c]
      /\ executing' = executing /\ phase' = phase /\ count' = count /\ phase[c] = "connected"
      /\ UNCHANGED <<toServer, lastId>> /\ syncing'[c] = 0
      /\ m \in ClientMsg /\ m.type \in {"state", "upToDate"} /\ m.id = syncing[c]
      /\ TypeOK /\ ClientInv(c)
  BY HandlesType, SettledClient DEF OnSyncResponse, Handles, serverVars, TypeOK, IInv, Settled, Expected
<1>2. \/ m.type = "upToDate" /\ number'[c] = number[c]
      \/ m.type = "state" /\ number'[c] = m.number
  BY <1>1 DEF OnSyncResponse, TypeOK
<1>3. /\ \A i \in DOMAIN toClient'[c] :
           i \in Nat /\ i + 1 \in DOMAIN toClient[c] /\ toClient'[c][i] = toClient[c][i + 1]
      /\ \A i \in DOMAIN toClient[c] :
           i = 1 \/ (i - 1 \in DOMAIN toClient'[c] /\ toClient'[c][i - 1] = toClient[c][i])
      /\ 1 \in DOMAIN toClient[c] /\ m = toClient[c][1]
  BY <1>1, Shift
<1> HIDE DEF m
<1>4. /\ number[c] \in Int /\ number'[c] \in Int /\ DOMAIN toClient[c] \subseteq Nat
      /\ \A i \in DOMAIN toServer[c] :
           toServer[c][i].type = "sync" => toServer[c][i].number \in Int
  BY <1>1, <1>2, <1>3, Numbers
<1>5. number[c] <= number'[c]
  BY <1>1, <1>2, <1>3, <1>4 DEF ClientInv, Ordered
<1>6. Requests(c)'
  <2>1. \A j \in DOMAIN toServer[c] : toServer[c][j].type = "sync" =>
          toServer[c][j].id <= lastId[c] /\ toServer[c][j].number <= number'[c]
    BY <1>4, <1>5 DEF WriteInv, Requests
  <2>. QED  BY <1>1, <1>3, <2>1 DEF WriteInv, Requests
<1>7. UpToDate(c)' /\ Waiters(c)' /\ NotConnected(c)'
  BY <1>1 DEF UpToDate, Waiters, NotConnected
<1>8. ASSUME NEW n \in Nat, NEW k \in Nat, Assured(c, n, k + 1)
      PROVE  Assured(c, n, k)'
  <2>1. CASE \E i \in DOMAIN toClient[c] :
               i < k + 1 /\ toClient[c][i].type = "push" /\ toClient[c][i].number = n
    <3>1. PICK i \in DOMAIN toClient[c] :
            i < k + 1 /\ toClient[c][i].type = "push" /\ toClient[c][i].number = n
      BY <2>1
    <3>2. i # 1
      BY <1>1, <1>3, <3>1
    <3>3. i - 1 \in DOMAIN toClient'[c] /\ toClient'[c][i - 1] = toClient[c][i] /\ i - 1 < k
      BY <1>3, <1>4, <3>1, <3>2
    <3>. QED  BY <1>1, <1>8, <3>1, <3>3 DEF Assured, OnItsWay
  <2>2. CASE \E i \in DOMAIN waiting[c] : waiting[c][i].number = n
    BY <1>1, <1>8, <2>2 DEF Assured, OnItsWay
  <2>3. CASE Covered(c, n)
    <3>1. m.type = "state" /\ n <= m.number
      BY <1>1, <1>3, <2>3 DEF Covered
    <3>. QED  BY <1>1, <1>2, <1>8, <3>1 DEF Assured
  <2>4. CASE n <= number[c]
    <3>1. n <= number'[c]
      BY <1>4, <1>5, <2>4
    <3>. QED  BY <1>1, <1>8, <3>1 DEF Assured
  <2>. QED  BY <1>1, <1>8, <2>1, <2>2, <2>3, <2>4 DEF Assured, OnItsWay
<1>9. \A n \in Nat, k \in Nat : Assured(c, n, k + 1) => Assured(c, n, k)'
  BY <1>8
<1>10. CallsAssured(c) => CallsAssured(c)'
  <2>1. TypeOK /\ toClient[c] # <<>> /\ toClient'[c] = Tail(toClient[c]) /\ executing' = executing
    BY <1>1
  <2>. QED  BY <1>9, <2>1, CallsPopped, Zenon
<1>11. \A n \in Nat : Pledged(c, n) => Pledged(c, n)'
  BY <1>1, <1>9, PledgesPopped, Zenon
<1>12. WriteInv(c)'
  BY <1>1, <1>6, <1>7, <1>10 DEF WriteInv
<1>. QED  BY <1>11, <1>12 DEF Kept

\* The server reduces an action, and may take a call of the client for it.
LEMMA ReducedWrite ==
  ASSUME IInv, NEW c \in Client, WriteInv(c), NEW a \in Action, Reduce(a),
         UNCHANGED <<phase, clientVars>>, count'["timeout"] = count["timeout"],
         \A j \in DOMAIN toServer'[c] : \E i \in DOMAIN toServer[c] : toServer'[c][j] = toServer[c][i],
         \A e \in executing' : e.client = c =>
           \/ e \in executing
           \/ phase[c] = "connected" /\ e.number = ServerNumber + 1 /\ (e.pushed => c \in active)
  PROVE  Kept(c)
<1> DEFINE m == [type |-> "push", action |-> a, number |-> ServerNumber + 1]
<1>1. log' = Append(log, a) /\ toClient' = Pushed(a) /\ TypeOK
  BY DEF Reduce, IInv
<1>2. /\ Len(log') = Len(log) + 1 /\ Len(log) \in Nat /\ ServerNumber + 1 = Len(log)
      /\ Len(log') \in Nat /\ Len(log) <= Len(log')
  BY <1>1 DEF TypeOK, ServerNumber
<1>3. UNCHANGED <<number, waiting, resumed, syncing, lastId>> /\ lastId[c] \in Nat /\ lastId[c] <= lastId[c]
  BY <1>1, Numbers DEF clientVars
<1>4. m.type = "push" /\ m.number = ServerNumber + 1
  OBVIOUS
<1>5. toClient'[c] = IF c \in active \cap Connected THEN Append(toClient[c], m) ELSE toClient[c]
  BY <1>1 DEF Pushed
<1> HIDE DEF m
<1>6. CASE c \in active \cap Connected
  <2>1. toClient'[c] = Append(toClient[c], m) /\ phase[c] = "connected"
    BY <1>5, <1>6 DEF Connected
  <2>2. \A e \in executing' : e.client = c /\ e.pushed =>
          e \in executing \/ (m.type = "push" /\ m.number = e.number /\ e.number < Len(log'))
    BY <1>2, <1>4
  <2>. QED  BY <1>1, <1>2, <1>3, <1>4, <2>1, <2>2, Added
<1>7. CASE c \notin active \cap Connected
  <2>1. toClient'[c] = toClient[c]
    BY <1>5, <1>7
  <2>2. \A e \in executing' : e.client = c =>
          e \in executing \/ (phase[c] = "connected" /\ ~e.pushed)
    BY <1>7 DEF Connected
  <2>. QED  BY <1>1, <1>2, <1>3, <2>1, <2>2, Bystander
<1>. QED  BY <1>6, <1>7

\* What one client does with its requests and its copy is nothing to another one.
LEMMA SyncElsewhere ==
  ASSUME TypeOK, NEW c \in Client, NEW d \in Client, d # c, Sync(c)
  PROVE  toServer'[d] = toServer[d] /\ syncing'[d] = syncing[d] /\ lastId'[d] = lastId[d]
<1>1. CASE syncing[c] # 0
  BY <1>1 DEF Sync
<1>2. CASE syncing[c] = 0
  BY <1>2 DEF Sync, TypeOK
<1>. QED  BY <1>1, <1>2

LEMMA ApplyElsewhere ==
  ASSUME TypeOK, NEW c \in Client, NEW d \in Client, d # c, NEW p, Apply(c, p)
  PROVE  /\ toServer'[d] = toServer[d] /\ syncing'[d] = syncing[d] /\ lastId'[d] = lastId[d]
         /\ number'[d] = number[d]
<1>1. CASE Follows(c, p)
  BY <1>1 DEF Apply, TypeOK
<1>2. CASE ~Follows(c, p)
  BY <1>2, SyncElsewhere DEF Apply, Resync
<1>. QED  BY <1>1, <1>2

\* A timeout is remembered.
LEMMA Counts ==
  ASSUME TypeOK, NEW x \in {"action", "call", "switch", "timeout"},
         count' = [count EXCEPT ![x] = @ + 1]
  PROVE  count'["timeout"] = 0 => count["timeout"] = 0
<1>1. count["timeout"] \in Nat /\ count'["timeout"] \in {count["timeout"], count["timeout"] + 1}
  BY DEF TypeOK
<1>. QED  BY <1>1

LEMMA NextWriteInv ==
  ASSUME IInv, Next, NEW d \in Client, WriteInv(d)
  PROVE  Kept(d)
<1>1. TypeOK /\ ClientInv(d) /\ Len(log) \in Nat /\ Len(log) <= Len(log)
      /\ lastId[d] \in Nat /\ lastId[d] <= lastId[d]
  BY Numbers DEF IInv
<1>2. ASSUME NEW a \in Action, Dispatch(a)
      PROVE  Kept(d)
  <2>1. /\ Reduce(a) /\ UNCHANGED <<phase, clientVars>> /\ executing' = executing /\ toServer' = toServer
        /\ count'["timeout"] = count["timeout"]
    BY <1>1, <1>2 DEF Dispatch, TypeOK
  <2>2. \A j \in DOMAIN toServer'[d] : \E i \in DOMAIN toServer[d] : toServer'[d][j] = toServer[d][i]
    BY <2>1
  <2>. QED  BY <2>1, <2>2, ReducedWrite
<1>3. ASSUME NEW c \in Client, OnExecute(c)
      PROVE  Kept(d)
  <2>1. PICK a \in Action : Reduce(a)
    BY <1>3 DEF OnExecute
  <2>2. /\ UNCHANGED <<phase, clientVars, count>> /\ phase[c] = "connected"
        /\ toServer[c] # <<>> /\ toServer[c] \in Seq(ServerMsg)
        /\ toServer'[d] = (IF d = c THEN Tail(toServer[c]) ELSE toServer[d])
        /\ executing' = executing \cup
             {[client |-> c, id |-> Head(toServer[c]).id,
               number |-> ServerNumber + 1, pushed |-> c \in active]}
    BY <1>1, <1>3 DEF OnExecute, TypeOK
  <2>3. \A j \in DOMAIN toServer'[d] : \E i \in DOMAIN toServer[d] : toServer'[d][j] = toServer[d][i]
    <3>1. CASE d = c
      <4>1. /\ DOMAIN toServer'[d] = 1..(Len(toServer[d]) - 1) /\ DOMAIN toServer[d] = 1..Len(toServer[d])
            /\ Len(toServer[d]) \in Nat
            /\ \A j \in DOMAIN toServer'[d] : toServer'[d][j] = toServer[d][j + 1]
        BY <2>2, <3>1, TailElements
      <4>2. \A j \in DOMAIN toServer'[d] : j + 1 \in DOMAIN toServer[d]
        BY <4>1
      <4>. QED  BY <4>1, <4>2
    <3>2. CASE d # c
      BY <2>2, <3>2
    <3>. QED  BY <3>1, <3>2
  <2>4. \A e \in executing' : e.client = d =>
          \/ e \in executing
          \/ phase[d] = "connected" /\ e.number = ServerNumber + 1 /\ (e.pushed => d \in active)
    <3>1. ASSUME NEW e \in executing', e \notin executing
          PROVE  e.client = c /\ e.number = ServerNumber + 1 /\ e.pushed = (c \in active)
      BY <2>2, <3>1
    <3>. QED  BY <2>2, <3>1
  <2>. QED  BY <2>1, <2>2, <2>3, <2>4, ReducedWrite
<1>4. ASSUME NEW e \in executing, Return(e)
      PROVE  Kept(d)
  <2> DEFINE m == [type |-> "return", id |-> e.id, number |-> e.number, pushed |-> e.pushed]
  <2>1. /\ executing' = executing \ {e} /\ e \in Call /\ e.client \in Client /\ e.number \in Nat
    BY <1>1, <1>4 DEF Return, TypeOK, Call
  <2>2. /\ m.type = "return" /\ m.number = e.number /\ m.pushed = e.pushed
        /\ toClient'[d] = IF d = e.client /\ phase[d] = "connected" THEN Append(toClient[d], m) ELSE toClient[d]
    BY <1>1, <1>4, <2>1 DEF Return, RespondsTo, TypeOK
  <2>3. UNCHANGED <<number, waiting, resumed, syncing, lastId>> /\ UNCHANGED <<log, phase, toServer, count>>
    BY <1>4 DEF Return, clientVars
  <2> HIDE DEF m
  <2>4. CASE d = e.client /\ phase[d] = "connected"
    <3>1. toClient'[d] = Append(toClient[d], m)
      BY <2>2, <2>4
    <3>2. m.pushed /\ CallsAssured(d) => \E k \in Nat : Assured(d, m.number, k)
      BY <2>2, <2>4 DEF CallsAssured
    <3>3. \A x \in executing' : x.client = d /\ x.pushed => x \in executing
      BY <2>1
    <3>. QED  BY <1>1, <2>1, <2>2, <2>3, <2>4, <3>1, <3>2, <3>3, Added
  <2>5. CASE ~(d = e.client /\ phase[d] = "connected")
    <3>1. toClient'[d] = toClient[d]
      BY <2>2, <2>5
    <3>2. \A x \in executing' : x.client = d => x \in executing
      BY <2>1
    <3>. QED  BY <1>1, <2>3, <3>1, <3>2, Bystander
  <2>. QED  BY <2>4, <2>5
<1>5. ASSUME NEW c \in Client, OnSync(c)
      PROVE  Kept(d)
  <2> DEFINE h == Head(toServer[c])
             m == SyncResult(h)
  <2>1. /\ UNCHANGED <<log, executing, phase, count>> /\ phase[c] = "connected"
        /\ UNCHANGED <<number, waiting, resumed, syncing, lastId>>
        /\ toServer[c] # <<>> /\ toServer[c] \in Seq(ServerMsg) /\ h.type = "sync"
        /\ toServer'[d] = (IF d = c THEN Tail(toServer[c]) ELSE toServer[d])
        /\ toClient'[d] = (IF d = c THEN Append(toClient[c], m) ELSE toClient[d])
    BY <1>1, <1>5 DEF OnSync, TypeOK, clientVars, serverVars
  <2>2. /\ h.number # Len(log) - 1 => m.type = "state" /\ m.number = Len(log) - 1
        /\ h.number = Len(log) - 1 => m.type = "upToDate"
        /\ m.id = h.id
    BY DEF SyncResult, ServerNumber
  <2>3. h \in ServerMsg /\ h.id \in Nat /\ h.number \in Int
    BY <2>1, SeqOps, RequestTypes
  <2> HIDE DEF m, h
  <2>4. CASE d # c
    BY <1>1, <2>1, <2>4, Bystander
  <2>5. CASE d = c
    <3>1. /\ \A j \in DOMAIN toServer'[d] : \E i \in DOMAIN toServer[d] : toServer'[d][j] = toServer[d][i]
          /\ \E i \in DOMAIN toServer[d] : toServer[d][i] = h
      <4>1. /\ DOMAIN toServer'[d] = 1..(Len(toServer[d]) - 1)
            /\ \A j \in DOMAIN toServer'[d] : toServer'[d][j] = toServer[d][j + 1]
            /\ 1 \in DOMAIN toServer[d] /\ h = toServer[d][1]
        BY <2>1, <2>5, TailElements DEF h
      <4>2. \A j \in DOMAIN toServer'[d] : j + 1 \in DOMAIN toServer[d]
        BY <2>1, <2>5, <4>1
      <4>. QED  BY <4>1, <4>2
    <3>2. h.id <= lastId[d] /\ h.number <= number[d]
      BY <2>1, <3>1 DEF WriteInv, Requests
    <3>3. ASSUME m.type = "upToDate"
          PROVE  /\ \A i \in DOMAIN waiting[d] : waiting[d][i].number <= number[d]
                 /\ \A i \in DOMAIN resumed[d] : resumed[d][i].number <= number[d]
                 /\ \A i \in DOMAIN toClient[d] : toClient[d][i].type = "push" =>
                      toClient[d][i].number <= number[d]
      <4>1. Len(log) - 1 <= number[d] /\ number[d] \in Int
        BY <1>1, <2>2, <3>2, <3>3, Numbers
      <4>2. \A n \in Nat : n < Len(log) => n <= number[d]
        BY <1>1, <4>1
      <4>. QED  BY <1>1, <4>2, Numbers DEF ClientInv, Messages, Sound, SoundPush
    <3>4. ASSUME NEW n \in Nat, n < Len(log), Covered(d, n), m.id = syncing[d]
          PROVE  m.type = "state" /\ n <= m.number
      <4>1. h.number < n
        BY <2>1, <2>2, <3>1, <3>4 DEF Covered
      <4>. QED  BY <1>1, <2>2, <2>3, <3>4, <4>1
    <3>5. m.type \in {"state", "upToDate"} /\ m.id \in Nat /\ m.id <= lastId[d]
      BY <2>2, <2>3, <3>2
    <3>6. \A x \in executing' : x.client = d /\ x.pushed => x \in executing
      BY <2>1
    <3>. QED  BY <1>1, <2>1, <2>5, <3>1, <3>3, <3>4, <3>5, <3>6, Added
  <2>. QED  BY <2>4, <2>5
<1>6. ASSUME NEW c \in Client,
             SwitchTab(c) \/ Execute(c) \/ CallTimeout(c)
      PROVE  Kept(d)
  <2>1. UNCHANGED <<log, executing, phase, toClient, number, waiting, resumed, syncing>>
    BY <1>6 DEF SwitchTab, Execute, CallTimeout, clientVars, serverVars
  <2>a. count'["timeout"] = 0 => count["timeout"] = 0
    <3>1. PICK x \in {"switch", "call", "timeout"} : count' = [count EXCEPT ![x] = @ + 1]
      BY <1>6 DEF SwitchTab, Execute, CallTimeout, TimedOut
    <3>. QED  BY <1>1, <3>1, Counts
  <2>2. lastId'[d] \in Nat /\ lastId[d] <= lastId'[d]
    <3>1. lastId' = lastId \/ lastId' = [lastId EXCEPT ![c] = @ + 1]
      BY <1>6 DEF SwitchTab, Execute, CallTimeout, clientVars
    <3>2. lastId'[d] = lastId[d] \/ lastId'[d] = lastId[d] + 1
      BY <1>1, <3>1 DEF TypeOK
    <3>. QED  BY <1>1, <3>2
  <2>3. \A j \in DOMAIN toServer'[d] : toServer'[d][j].type = "sync" =>
          \E i \in DOMAIN toServer[d] : toServer'[d][j] = toServer[d][i]
    <3>1. CASE toServer' = toServer
      BY <3>1
    <3>2. CASE toServer' # toServer
      <4> DEFINE q == [type |-> "execute", id |-> lastId[c] + 1]
      <4>1. toServer' = [toServer EXCEPT ![c] = Append(@, q)]
        BY <1>6, <3>2 DEF SwitchTab, CallTimeout, Execute, clientVars
      <4>2. q.type = "execute"
        OBVIOUS
      <4> HIDE DEF q
      <4>3. toServer'[d] = toServer[d] \/ toServer'[d] = Append(toServer[d], q)
        BY <1>1, <4>1 DEF TypeOK
      <4>4. \A j \in DOMAIN toServer'[d] : toServer'[d][j] = q \/
              (j \in DOMAIN toServer[d] /\ toServer'[d][j] = toServer[d][j])
        <5>1. CASE toServer'[d] = toServer[d]
          BY <5>1
        <5>2. CASE toServer'[d] = Append(toServer[d], q)
          <6>1. toServer[d] \in Seq(ServerMsg)
            BY <1>1 DEF TypeOK
          <6>. QED  BY <5>2, <6>1, AppendElements
        <5>. QED  BY <4>3, <5>1, <5>2
      <4>. QED  BY <4>2, <4>4
    <3>. QED  BY <3>1, <3>2
  <2>. QED  BY <1>1, <2>1, <2>a, <2>2, <2>3, Bystander
<1>7. ASSUME NEW c \in Client, d # c,
             \/ Connect(c) \/ Disconnect(c) \/ OnPush(c) \/ Resume(c) \/ OnSyncResponse(c)
             \/ SyncTimeout(c) \/ OnReturn(c)
      PROVE  Kept(d)
  <2>1. log' = log /\ executing' = executing
    BY <1>7 DEF Connect, Disconnect, OnPush, Resume, OnSyncResponse, SyncTimeout, OnReturn, serverVars
  <2>a. count'["timeout"] = 0 => count["timeout"] = 0
    <3>1. count' = count \/ count' = [count EXCEPT !["timeout"] = @ + 1]
      BY <1>7 DEF Connect, Disconnect, OnPush, Resume, OnSyncResponse, SyncTimeout, OnReturn, TimedOut
    <3>. QED  BY <1>1, <3>1, Counts
  <2>2. phase'[d] = phase[d] /\ toClient'[d] = toClient[d]
    BY <1>1, <1>7 DEF Connect, Disconnect, OnPush, Resume, OnSyncResponse, SyncTimeout, OnReturn,
         Handles, TypeOK
  <2>3. /\ number'[d] = number[d] /\ waiting'[d] = waiting[d] /\ resumed'[d] = resumed[d]
        /\ toServer'[d] = toServer[d] /\ syncing'[d] = syncing[d] /\ lastId'[d] = lastId[d]
    <3>1. CASE Connect(c)
      BY <1>1, <1>7, <3>1, SyncElsewhere DEF Connect
    <3>2. CASE Disconnect(c)
      BY <1>1, <1>7, <3>2 DEF Disconnect, TypeOK
    <3>3. CASE OnPush(c)
      <4>1. resumed' = resumed /\ waiting'[d] = waiting[d]
        BY <1>1, <1>7, <3>3 DEF OnPush, TypeOK
      <4>2. CASE syncing[c] # 0
        BY <3>3, <4>1, <4>2 DEF OnPush
      <4>3. CASE syncing[c] = 0
        <5>1. PICK p : p = Head(toClient[c]) /\ Apply(c, p)
          BY <3>3, <4>3 DEF OnPush
        <5>. QED  BY <1>1, <1>7, <4>1, <5>1, ApplyElsewhere
      <4>. QED  BY <4>2, <4>3
    <3>4. CASE Resume(c)
      <4>1. waiting' = waiting /\ resumed'[d] = resumed[d]
        BY <1>1, <1>7, <3>4 DEF Resume, TypeOK
      <4>2. PICK p : p = Head(resumed[c]) /\ Apply(c, p)
        BY <3>4 DEF Resume
      <4>. QED  BY <1>1, <1>7, <4>1, <4>2, ApplyElsewhere
    <3>5. CASE OnSyncResponse(c)
      <4>1. UNCHANGED <<toServer, lastId>> /\ number'[d] = number[d]
        BY <1>1, <1>7, <3>5 DEF OnSyncResponse, TypeOK
      <4>2. Settled(c) \/ UNCHANGED <<syncing, waiting, resumed>>
        BY <3>5 DEF OnSyncResponse
      <4>3. waiting'[d] = waiting[d] /\ resumed'[d] = resumed[d] /\ syncing'[d] = syncing[d]
        BY <1>1, <1>7, <4>2 DEF Settled, TypeOK
      <4>. QED  BY <4>1, <4>3
    <3>6. CASE SyncTimeout(c)
      BY <1>1, <1>7, <3>6 DEF SyncTimeout, Settled, TypeOK
    <3>7. CASE OnReturn(c)
      BY <3>7 DEF OnReturn
    <3>. QED  BY <1>7, <3>1, <3>2, <3>3, <3>4, <3>5, <3>6, <3>7
  <2>4. \A j \in DOMAIN toServer'[d] : toServer'[d][j].type = "sync" =>
          \E i \in DOMAIN toServer[d] : toServer'[d][j] = toServer[d][i]
    BY <2>3
  <2>. QED  BY <1>1, <2>1, <2>a, <2>2, <2>3, <2>4, Bystander
<1>8. ASSUME Connect(d)
      PROVE  Kept(d)
  <2>1. /\ UNCHANGED <<log, executing, toClient, number, waiting, resumed, count>>
        /\ phase[d] = "new" /\ phase'[d] = "connected" /\ Sync(d)
    BY <1>1, <1>8 DEF Connect, serverVars, TypeOK
  <2>2. toClient[d] = <<>> /\ \A e \in executing : e.client # d
    BY <2>1 DEF WriteInv, NotConnected
  <2>3. /\ lastId'[d] \in Nat /\ lastId[d] <= lastId'[d] /\ (syncing[d] # 0 => syncing'[d] # 0)
        /\ \A j \in DOMAIN toServer'[d] : \/ j \in DOMAIN toServer[d] /\ toServer'[d][j] = toServer[d][j]
                                          \/ toServer'[d][j].id = lastId'[d] /\ toServer'[d][j].number = number[d]
    <3>1. CASE syncing[d] # 0
      BY <1>1, <2>1, <3>1 DEF Sync
    <3>2. CASE syncing[d] = 0
      <4> DEFINE q == [type |-> "sync", id |-> lastId[d] + 1, number |-> number[d]]
      <4>1. lastId'[d] = lastId[d] + 1 /\ toServer'[d] = Append(toServer[d], q)
        BY <1>1, <2>1, <3>2 DEF Sync, TypeOK
      <4>2. q.id = lastId[d] + 1 /\ q.number = number[d]
        OBVIOUS
      <4> HIDE DEF q
      <4>3. \A j \in DOMAIN toServer'[d] : toServer'[d][j] = q \/
              (j \in DOMAIN toServer[d] /\ toServer'[d][j] = toServer[d][j])
        <5>1. toServer[d] \in Seq(ServerMsg)
          BY <1>1 DEF TypeOK
        <5>. QED  BY <4>1, <5>1, AppendElements
      <4>4. lastId'[d] \in Nat /\ lastId[d] <= lastId'[d]
        BY <1>1, <4>1
      <4>. QED  BY <3>2, <4>1, <4>2, <4>3, <4>4
    <3>. QED  BY <3>1, <3>2
  <2>4. Requests(d)'
    <3>1. ASSUME NEW j \in DOMAIN toServer'[d], toServer'[d][j].type = "sync"
          PROVE  toServer'[d][j].id <= lastId'[d] /\ toServer'[d][j].number <= number[d]
      <4>1. CASE j \in DOMAIN toServer[d] /\ toServer'[d][j] = toServer[d][j]
        <5>1. toServer[d][j].id \in Nat /\ toServer[d][j].id <= lastId[d]
              /\ toServer[d][j].number <= number[d]
          BY <1>1, <3>1, <4>1, Numbers DEF WriteInv, Requests
        <5>. QED  BY <1>1, <2>3, <4>1, <5>1
      <4>2. CASE toServer'[d][j].id = lastId'[d] /\ toServer'[d][j].number = number[d]
        <5>1. number[d] \in Int
          BY <1>1, Numbers
        <5>. QED  BY <2>3, <4>2, <5>1
      <4>. QED  BY <2>3, <4>1, <4>2
    <3>. QED  BY <2>1, <2>2, <3>1 DEF Requests
  <2>5. UpToDate(d)' /\ CallsAssured(d)' /\ NotConnected(d)'
    BY <2>1, <2>2 DEF UpToDate, CallsAssured, NotConnected
  <2>6. Waiters(d)'
    BY <2>1, <2>3 DEF WriteInv, Waiters
  <2>7. phase[d] # "connected"
    BY <2>1
  <2>. QED  BY <2>4, <2>5, <2>6, <2>7 DEF Kept, WriteInv
<1>9. ASSUME Disconnect(d)
      PROVE  Kept(d)
  <2>1. /\ toServer'[d] = <<>> /\ toClient'[d] = <<>> /\ waiting'[d] = <<>> /\ phase'[d] = "closed"
    BY <1>1, <1>9 DEF Disconnect, TypeOK
  <2>2. phase'[d] # "connected"
    BY <2>1
  <2>. QED  BY <2>1, <2>2 DEF Kept, WriteInv, Requests, UpToDate, Waiters, NotConnected
<1>10. ASSUME OnSyncResponse(d)
       PROVE  Kept(d)
  <2>1. CASE Expected(d, Head(toClient[d]))
    BY <1>10, <2>1, SyncedWrite
  <2>2. CASE ~Expected(d, Head(toClient[d]))
    <3>1. /\ toClient[d] # <<>> /\ toClient'[d] = Tail(toClient[d]) /\ Head(toClient[d]).type # "push"
          /\ UNCHANGED <<log, executing, number, waiting, resumed, toServer, syncing, lastId, phase, count>>
      BY <1>1, <1>10, <2>2 DEF OnSyncResponse, Handles, serverVars, TypeOK
    <3>. QED  BY <1>1, <3>1, Skipped
  <2>. QED  BY <2>1, <2>2
<1>11. ASSUME OnReturn(d)
       PROVE  Kept(d)
  <2>1. /\ toClient[d] # <<>> /\ toClient'[d] = Tail(toClient[d]) /\ Head(toClient[d]).type # "push"
        /\ UNCHANGED <<log, executing, number, waiting, resumed, toServer, syncing, lastId, phase, count>>
    BY <1>1, <1>11 DEF OnReturn, Handles, serverVars, TypeOK
  <2>. QED  BY <1>1, <2>1, Skipped
<1>12. ASSUME SyncTimeout(d)
       PROVE  Kept(d)
  <2>1. /\ UNCHANGED <<log, executing, number, toClient, toServer, lastId, phase>>
        /\ waiting'[d] = <<>> /\ syncing'[d] = 0 /\ phase[d] = "connected"
    BY <1>1, <1>12 DEF SyncTimeout, Settled, serverVars, TypeOK
  <2>2. count'["timeout"] # 0
    BY <1>1, <1>12 DEF SyncTimeout, TimedOut, TypeOK
  <2>3. Requests(d)' /\ UpToDate(d)' /\ Waiters(d)' /\ NotConnected(d)'
    BY <2>1 DEF WriteInv, Requests, UpToDate, Waiters, NotConnected
  <2>. QED  BY <2>2, <2>3 DEF Kept, WriteInv
<1>. QED
  BY <1>2, <1>3, <1>4, <1>5, <1>6, <1>7, <1>8, <1>9, <1>10, <1>11, <1>12, PushWrite, ResumeWrite DEF Next

WInv == \A c \in Client : WriteInv(c)

LEMMA WriteInvariant == Spec => []WInv
<1>1. Init => WInv
  BY DEF Init, WInv, WriteInv, Requests, UpToDate, Waiters, NotConnected
<1>2. IInv /\ WInv /\ [Next]_vars => WInv'
  <2> USE DEF WInv
  <2> SUFFICES ASSUME IInv, WInv, [Next]_vars PROVE WInv'
    OBVIOUS
  <2>1. CASE Next
    <3>1. ASSUME NEW c \in Client PROVE WriteInv(c)'
      BY <2>1, NextWriteInv DEF Kept
    <3>. QED  BY <3>1
  <2>2. CASE UNCHANGED vars
    <3> SUFFICES ASSUME NEW c \in Client PROVE WriteInv(c)'
      OBVIOUS
    <3>1. WriteInv(c)
      OBVIOUS
    <3>. QED  BY <2>2, <3>1 DEF vars, WriteInv, Requests, UpToDate, Waiters, NotConnected,
                CallsAssured, Assured, OnItsWay, Covered
  <2>. QED  BY <2>1, <2>2
<1>. QED  BY <1>1, <1>2, InductiveInvariant, PTL DEF Spec

\* A page in the foreground that has the answer to its call shows what the call did, or
\* is syncing: the assurance of an answer that is first on its port is one of the two.
THEOREM OwnWritesRead == Spec => []ReadsOwnWrites
<1>1. IInv /\ WInv => ReadsOwnWrites
  <2> SUFFICES ASSUME IInv, NEW c \in Client, WriteInv(c), phase[c] = "connected",
                      toClient[c] # <<>>, resumed[c] = <<>>, Head(toClient[c]).type = "return",
                      Head(toClient[c]).pushed, count["timeout"] = 0, syncing[c] = 0
               PROVE  Head(toClient[c]).number <= number[c]
    BY DEF WInv, ReadsOwnWrites, Connected
  <2>1. TypeOK /\ toClient[c] \in Seq(ClientMsg)
    BY DEF IInv, TypeOK
  <2>2. 1 \in DOMAIN toClient[c] /\ Head(toClient[c]) = toClient[c][1]
    BY <2>1, HeadIsFirst
  <2>3. waiting[c] = <<>> /\ Assured(c, toClient[c][1].number, 1)
    BY <2>2 DEF WriteInv, Waiters, CallsAssured
  <2>4. \A i \in DOMAIN toClient[c] : ~(i < 1)
    <3>1. DOMAIN toClient[c] = 1..Len(toClient[c]) /\ Len(toClient[c]) \in Nat
      BY <2>1
    <3>. QED  BY <3>1
  <2>. QED  BY <2>2, <2>3, <2>4 DEF Assured, OnItsWay, Covered
<1>. QED  BY <1>1, WriteInvariant, InductiveInvariant, PTL
-----------------------------------------------------------------------------
(***************************************************************************)
(* A push that reaches a page is not lost.                                 *)
(***************************************************************************)

\* A message of one of types T and of id n is on port s.
Carries(s, T, n) == \E j \in DOMAIN s : s[j].type \in T /\ s[j].id = n

\* The sync that is under way will end: its request or its answer is on the way.
Answering(c) ==
  syncing[c] # 0 =>
    \/ Carries(toServer[c], {"sync"}, syncing[c])
    \/ Carries(toClient[c], {"state", "upToDate"}, syncing[c])

LEMMA CarriesOn ==
  ASSUME NEW S, NEW s \in Seq(S), NEW T, NEW n
  PROVE  /\ \A x : /\ Carries(s, T, n) => Carries(Append(s, x), T, n)
                   /\ x.type \in T /\ x.id = n => Carries(Append(s, x), T, n)
         /\ s # <<>> /\ Carries(s, T, n) /\ ~(Head(s).type \in T /\ Head(s).id = n)
              => Carries(Tail(s), T, n)
<1>1. ASSUME NEW x
      PROVE  /\ Carries(s, T, n) => Carries(Append(s, x), T, n)
             /\ x.type \in T /\ x.id = n => Carries(Append(s, x), T, n)
  <2>1. /\ \A i \in DOMAIN s : i \in DOMAIN Append(s, x) /\ Append(s, x)[i] = s[i]
        /\ \E i \in DOMAIN Append(s, x) : Append(s, x)[i] = x
    <3>1. /\ DOMAIN Append(s, x) = 1..(Len(s) + 1) /\ DOMAIN s = 1..Len(s) /\ Len(s) \in Nat
          /\ \A i \in DOMAIN s : Append(s, x)[i] = s[i]
          /\ Append(s, x)[Len(s) + 1] = x
      BY AppendElements
    <3>. QED  BY <3>1
  <2>. QED  BY <2>1 DEF Carries
<1>2. ASSUME s # <<>>, Carries(s, T, n), ~(Head(s).type \in T /\ Head(s).id = n)
      PROVE  Carries(Tail(s), T, n)
  <2>1. /\ DOMAIN Tail(s) = 1..(Len(s) - 1) /\ DOMAIN s = 1..Len(s) /\ Len(s) \in Nat
        /\ \A i \in DOMAIN Tail(s) : Tail(s)[i] = s[i + 1]
        /\ Head(s) = s[1]
    BY <1>2, TailElements
  <2>2. PICK i \in DOMAIN s : s[i].type \in T /\ s[i].id = n
    BY <1>2 DEF Carries
  <2>3. i # 1
    BY <1>2, <2>1, <2>2
  <2>4. i - 1 \in DOMAIN Tail(s) /\ (i - 1) + 1 = i
    BY <2>1, <2>3
  <2>. QED  BY <2>1, <2>2, <2>4 DEF Carries
<1>. QED  BY <1>1, <1>2

\* A client that neither begins nor ends a sync.
LEMMA AnsweringKept ==
  ASSUME TypeOK, NEW c \in Client, Answering(c), syncing'[c] = syncing[c],
         \/ toServer'[c] = toServer[c] \/ \E x : toServer'[c] = Append(toServer[c], x)
         \/ /\ toServer[c] # <<>> /\ toServer'[c] = Tail(toServer[c])
            /\ ~(Head(toServer[c]).type = "sync" /\ Head(toServer[c]).id = syncing[c]),
         \/ toClient'[c] = toClient[c] \/ \E x : toClient'[c] = Append(toClient[c], x)
         \/ /\ toClient[c] # <<>> /\ toClient'[c] = Tail(toClient[c])
            /\ ~(Head(toClient[c]).type \in {"state", "upToDate"} /\ Head(toClient[c]).id = syncing[c])
  PROVE  Answering(c)'
<1>1. toServer[c] \in Seq(ServerMsg) /\ toClient[c] \in Seq(ClientMsg)
  BY DEF TypeOK
<1>2. Carries(toServer[c], {"sync"}, syncing[c]) => Carries(toServer'[c], {"sync"}, syncing[c])
  BY <1>1, CarriesOn
<1>3. Carries(toClient[c], {"state", "upToDate"}, syncing[c])
        => Carries(toClient'[c], {"state", "upToDate"}, syncing[c])
  BY <1>1, CarriesOn
<1>. QED  BY <1>2, <1>3 DEF Answering

\* A sync that begins sends its request.
LEMMA SyncRequests ==
  ASSUME TypeOK, NEW c \in Client, Sync(c)
  PROVE  \/ syncing'[c] = syncing[c] /\ toServer'[c] = toServer[c]
         \/ Carries(toServer'[c], {"sync"}, syncing'[c])
<1>1. CASE syncing[c] # 0
  BY <1>1 DEF Sync
<1>2. CASE syncing[c] = 0
  <2> DEFINE q == [type |-> "sync", id |-> lastId[c] + 1, number |-> number[c]]
  <2>1. toServer'[c] = Append(toServer[c], q) /\ syncing'[c] = lastId[c] + 1
    BY <1>2 DEF Sync, TypeOK
  <2>2. q.type \in {"sync"} /\ q.id = lastId[c] + 1
    OBVIOUS
  <2> HIDE DEF q
  <2>3. toServer[c] \in Seq(ServerMsg)
    BY DEF TypeOK
  <2>. QED  BY <2>1, <2>2, <2>3, CarriesOn
<1>. QED  BY <1>1, <1>2

LEMMA ApplyRequests ==
  ASSUME TypeOK, NEW c \in Client, NEW p, Apply(c, p)
  PROVE  \/ syncing'[c] = syncing[c] /\ toServer'[c] = toServer[c]
         \/ Carries(toServer'[c], {"sync"}, syncing'[c])
<1>1. CASE Follows(c, p)
  BY <1>1 DEF Apply
<1>2. CASE ~Follows(c, p)
  BY <1>2, SyncRequests DEF Apply, Resync
<1>. QED  BY <1>1, <1>2

LEMMA NextAnswering ==
  ASSUME TypeOK, Next, NEW d \in Client, Answering(d)
  PROVE  Answering(d)'
<1>1. ASSUME NEW a \in Action, Reduce(a), UNCHANGED clientVars,
             \/ toServer'[d] = toServer[d]
             \/ /\ toServer[d] # <<>> /\ toServer'[d] = Tail(toServer[d])
                /\ Head(toServer[d]).type = "execute"
      PROVE  Answering(d)'
  <2>1. toClient'[d] = toClient[d] \/ \E x : toClient'[d] = Append(toClient[d], x)
    BY <1>1 DEF Reduce, Pushed
  <2>2. syncing' = syncing
    BY <1>1 DEF clientVars
  <2>. QED  BY <1>1, <2>1, <2>2, AnsweringKept
<1>2. ASSUME NEW a \in Action, Dispatch(a)
      PROVE  Answering(d)'
  BY <1>1, <1>2 DEF Dispatch
<1>3. ASSUME NEW c \in Client, OnExecute(c)
      PROVE  Answering(d)'
  <2>1. PICK a \in Action : Reduce(a)
    BY <1>3 DEF OnExecute
  <2>2. /\ UNCHANGED clientVars
        /\ toServer[c] # <<>> /\ Head(toServer[c]).type = "execute"
        /\ toServer'[d] = IF d = c THEN Tail(toServer[c]) ELSE toServer[d]
    BY <1>3 DEF OnExecute, TypeOK
  <2>. QED  BY <1>1, <2>1, <2>2
<1>4. ASSUME NEW e \in executing, Return(e)
      PROVE  Answering(d)'
  <2>1. toClient'[d] = toClient[d] \/ \E x : toClient'[d] = Append(toClient[d], x)
    BY <1>4 DEF Return, TypeOK
  <2>2. syncing' = syncing /\ toServer' = toServer
    BY <1>4 DEF Return, clientVars
  <2>. QED  BY <2>1, <2>2, AnsweringKept
<1>5. ASSUME NEW c \in Client, OnSync(c)
      PROVE  Answering(d)'
  <2> DEFINE h == Head(toServer[c])
             m == SyncResult(h)
  <2>1. /\ syncing' = syncing /\ toServer[c] # <<>>
        /\ toServer'[d] = (IF d = c THEN Tail(toServer[c]) ELSE toServer[d])
        /\ toClient'[d] = (IF d = c THEN Append(toClient[c], m) ELSE toClient[d])
    BY <1>5 DEF OnSync, TypeOK, clientVars
  <2>2. m.type \in {"state", "upToDate"} /\ m.id = h.id
    BY DEF SyncResult
  <2> HIDE DEF m
  <2>3. CASE d = c /\ h.id = syncing[d]
    <3>1. toClient[d] \in Seq(ClientMsg)
      BY DEF TypeOK
    <3>2. Carries(toClient'[d], {"state", "upToDate"}, syncing[d])
      BY <2>1, <2>2, <2>3, <3>1, CarriesOn
    <3>. QED  BY <2>1, <3>2 DEF Answering
  <2>4. CASE d = c /\ h.id # syncing[d]
    BY <2>1, <2>4, AnsweringKept
  <2>5. CASE d # c
    BY <2>1, <2>5, AnsweringKept
  <2>. QED  BY <2>3, <2>4, <2>5
<1>6. ASSUME NEW c \in Client, SwitchTab(c) \/ Execute(c) \/ CallTimeout(c)
      PROVE  Answering(d)'
  <2>1. syncing' = syncing /\ toClient' = toClient
    BY <1>6 DEF SwitchTab, Execute, CallTimeout, clientVars
  <2>2. toServer' = toServer \/ \E x : toServer' = [toServer EXCEPT ![c] = Append(@, x)]
    BY <1>6 DEF SwitchTab, Execute, CallTimeout, clientVars
  <2>3. toServer'[d] = toServer[d] \/ \E x : toServer'[d] = Append(toServer[d], x)
    BY <2>2 DEF TypeOK
  <2>. QED  BY <2>1, <2>3, AnsweringKept
<1>7. ASSUME NEW c \in Client, Connect(c)
      PROVE  Answering(d)'
  <2>1. toClient' = toClient /\ Sync(c)
    BY <1>7 DEF Connect
  <2>2. CASE d = c
    BY <2>1, <2>2, SyncRequests, AnsweringKept DEF Answering
  <2>3. CASE d # c
    BY <2>1, <2>3, SyncElsewhere, AnsweringKept
  <2>. QED  BY <2>2, <2>3
<1>8. ASSUME NEW c \in Client, OnPush(c)
      PROVE  Answering(d)'
  <2>1. /\ toClient[c] # <<>> /\ Head(toClient[c]).type = "push"
        /\ toClient'[d] = IF d = c THEN Tail(toClient[c]) ELSE toClient[d]
    BY <1>8 DEF OnPush, Handles, TypeOK
  <2>2. \/ UNCHANGED <<syncing, toServer>>
        \/ Apply(c, Head(toClient[c]))
    BY <1>8 DEF OnPush
  <2>3. CASE syncing'[d] = syncing[d] /\ toServer'[d] = toServer[d]
    BY <2>1, <2>3, AnsweringKept
  <2>4. CASE d = c
    BY <2>2, <2>3, <2>4, ApplyRequests DEF Answering
  <2>5. CASE d # c
    BY <2>2, <2>3, <2>5, ApplyElsewhere
  <2>. QED  BY <2>4, <2>5
<1>9. ASSUME NEW c \in Client, Resume(c)
      PROVE  Answering(d)'
  <2>1. toClient' = toClient /\ Apply(c, Head(resumed[c]))
    BY <1>9 DEF Resume
  <2>2. CASE d = c
    BY <2>1, <2>2, ApplyRequests, AnsweringKept DEF Answering
  <2>3. CASE d # c
    BY <2>1, <2>3, ApplyElsewhere, AnsweringKept
  <2>. QED  BY <2>2, <2>3
<1>10. ASSUME NEW c \in Client, OnSyncResponse(c) \/ SyncTimeout(c) \/ Disconnect(c) \/ OnReturn(c)
       PROVE  Answering(d)'
  <2>1. CASE d # c
    <3>1. toServer'[d] = toServer[d] /\ toClient'[d] = toClient[d]
      BY <1>10, <2>1 DEF OnSyncResponse, SyncTimeout, Disconnect, OnReturn, Handles, TypeOK
    <3>2. syncing'[d] = syncing[d]
      BY <1>10, <2>1 DEF OnSyncResponse, SyncTimeout, Disconnect, OnReturn, Settled, TypeOK
    <3>. QED  BY <3>1, <3>2, AnsweringKept
  <2>2. CASE d = c /\ syncing'[d] = 0
    BY <2>2 DEF Answering
  <2>3. CASE d = c /\ syncing'[d] # 0
    <3>1. /\ toClient[d] # <<>> /\ toClient'[d] = Tail(toClient[d]) /\ toServer' = toServer
          /\ syncing' = syncing
          /\ ~(Head(toClient[d]).type \in {"state", "upToDate"} /\ Head(toClient[d]).id = syncing[d])
      <4>1. CASE OnReturn(c)
        BY <2>3, <4>1 DEF OnReturn, Handles, TypeOK
      <4>2. CASE OnSyncResponse(c)
        <5>1. ~Expected(c, Head(toClient[c]))
          BY <2>3, <4>2 DEF OnSyncResponse, Settled, TypeOK
        <5>. QED  BY <2>3, <4>2, <5>1 DEF OnSyncResponse, Handles, Expected, TypeOK
      <4>3. CASE SyncTimeout(c) \/ Disconnect(c)
        BY <2>3, <4>3 DEF SyncTimeout, Disconnect, Settled, TypeOK
      <4>. QED  BY <1>10, <4>1, <4>2, <4>3
    <3>. QED  BY <3>1, AnsweringKept
  <2>. QED  BY <2>1, <2>2, <2>3
<1>. QED
  BY <1>2, <1>3, <1>4, <1>5, <1>6, <1>7, <1>8, <1>9, <1>10 DEF Next

\* While a sync is under way its request or its answer is on a port, and a push handler
\* waits only then (_syncPromise).
SyncsEnd == \A c \in Client : Answering(c) /\ Waiters(c)

\* For any clients, losses, timeouts and bounds: nobody waits for a sync in vain.
THEOREM SyncsAreAnswered == Spec => []SyncsEnd
<1> DEFINE AInv == \A c \in Client : Answering(c)
<1>1. Init => AInv
  BY DEF Init, Answering
<1>2. IInv /\ AInv /\ [Next]_vars => AInv'
  <2>1. IInv /\ AInv /\ Next => AInv'
    BY NextAnswering DEF IInv
  <2>2. AInv /\ UNCHANGED vars => AInv'
    BY DEF vars, Answering
  <2>. QED  BY <2>1, <2>2
<1>3. AInv /\ WInv => SyncsEnd
  BY DEF WInv, SyncsEnd, WriteInv
<1>. QED  BY <1>1, <1>2, <1>3, WriteInvariant, InductiveInvariant, PTL DEF Spec

\* The push of action n is on the port of client c.
PushComes(c, n) ==
  \E i \in DOMAIN toClient[c] : toClient[c][i].type = "push" /\ toClient[c][i].number = n

\* Client c is at action n or past it, or the push is on the way or waits in its handler,
\* or the sync under way will bring the action: its request asks for more than a state
\* before n, or the state it is answered with is as new.
Reaches(c, n) ==
  \/ phase[c] = "closed" \/ count["timeout"] > 0
  \/ n <= number[c]
  \/ PushComes(c, n)
  \/ \E i \in DOMAIN waiting[c] : waiting[c][i].number = n
  \/ \E i \in DOMAIN resumed[c] : resumed[c][i].number = n
  \/ \E j \in DOMAIN toServer[c] :
       /\ toServer[c][j].type = "sync" /\ toServer[c][j].id = syncing[c] /\ toServer[c][j].number < n
  \/ \E j \in DOMAIN toClient[c] :
       /\ toClient[c][j].type = "state" /\ toClient[c][j].id = syncing[c] /\ n <= toClient[c][j].number

LEMMA PortsStayClosed ==
  ASSUME TypeOK, Next, NEW c \in Client
  PROVE  /\ phase[c] = "closed" => phase'[c] = "closed"
         /\ phase[c] = "connected" => phase'[c] \in {"connected", "closed"}
         /\ count["timeout"] > 0 => count'["timeout"] > 0
<1>1. \/ phase' = phase
      \/ \E d \in Client : phase[d] = "new" /\ phase' = [phase EXCEPT ![d] = "connected"]
      \/ \E d \in Client : phase' = [phase EXCEPT ![d] = "closed"]
  BY DEF Next, Dispatch, Return, SwitchTab, Connect, Disconnect, OnSync, OnExecute, OnPush, Resume,
         OnSyncResponse, SyncTimeout, Execute, OnReturn, CallTimeout
<1>2. \/ count' = count
      \/ \E x \in {"action", "call", "switch", "timeout"} : count' = [count EXCEPT ![x] = @ + 1]
  BY DEF Next, Dispatch, Return, SwitchTab, Connect, Disconnect, OnSync, OnExecute, OnPush, Resume,
         OnSyncResponse, SyncTimeout, Execute, OnReturn, CallTimeout, TimedOut
<1>3. phase \in [Client -> {"new", "connected", "closed"}]
  BY DEF TypeOK
<1>4. count["timeout"] > 0 => count'["timeout"] > 0
  <2>1. count["timeout"] \in Nat /\ count'["timeout"] \in {count["timeout"], count["timeout"] + 1}
    BY <1>2 DEF TypeOK
  <2>. QED  BY <2>1
<1>. QED  BY <1>1, <1>3, <1>4

\* The safety half of PushCatchesUp, for every client, number and bound: from the time the
\* push of an action is on a client's port, the client never is without the action, the
\* push or a sync that brings it, unless its port closes or a request times out.
THEOREM PushesAreNotLost ==
  ASSUME NEW c \in Client, NEW n \in Nat
  PROVE  Spec => [](PushComes(c, n) => []Reaches(c, n))
<1> DEFINE J == phase[c] = "closed" \/ count["timeout"] > 0 \/ (phase[c] = "connected" /\ Pledged(c, n))
<1>1. IInv /\ WInv /\ PushComes(c, n) => J
  <2> SUFFICES ASSUME IInv, WriteInv(c), PushComes(c, n), phase[c] # "closed"
               PROVE  phase[c] = "connected" /\ Pledged(c, n)
    BY DEF WInv
  <2>1. PICK i \in DOMAIN toClient[c] : toClient[c][i].type = "push" /\ toClient[c][i].number = n
    BY DEF PushComes
  <2>2. TypeOK /\ ClientInv(c) /\ i \in Nat /\ i < i + 1
    BY <2>1, Numbers DEF IInv
  <2>3. n < Len(log)
    BY <2>1, <2>2 DEF ClientInv, Messages, Sound, SoundPush
  <2>4. phase[c] = "connected"
    <3>1. toClient[c] # <<>>
      BY <2>1, <2>2 DEF TypeOK
    <3>. QED  BY <2>2, <3>1 DEF WriteInv, NotConnected, TypeOK
  <2>5. Assured(c, n, i + 1)
    BY <2>1, <2>2, <2>3 DEF Assured, OnItsWay
  <2>. QED  BY <2>2, <2>4, <2>5 DEF Pledged
<1>2. IInv /\ WInv /\ J /\ [Next]_vars => J'
  <2>1. IInv /\ WInv /\ J /\ Next => J'
    <3> SUFFICES ASSUME IInv, WriteInv(c), J, Next PROVE J'
      BY DEF WInv
    <3>1. CASE phase[c] = "connected" /\ Pledged(c, n) /\ phase'[c] = "connected" /\ ~(count'["timeout"] > 0)
      <4>1. count'["timeout"] = 0
        <5>1. TypeOK'
          BY NextTypeOK DEF IInv
        <5>2. count'["timeout"] \in Nat
          BY <5>1 DEF TypeOK
        <5>. QED  BY <3>1, <5>2
      <4>2. Kept(c)
        BY NextWriteInv
      <4>3. Pledged(c, n)'
        BY <3>1, <4>1, <4>2 DEF Kept
      <4>. QED  BY <3>1, <4>3
    <3>2. CASE ~(phase[c] = "connected" /\ Pledged(c, n) /\ phase'[c] = "connected" /\ ~(count'["timeout"] > 0))
      BY <3>2, PortsStayClosed DEF IInv
    <3>. QED  BY <3>1, <3>2
  <2>2. J /\ UNCHANGED vars => J'
    BY DEF vars, Pledged, Assured, OnItsWay, Covered
  <2>. QED  BY <2>1, <2>2
<1>3. SyncsEnd /\ IInv /\ J => Reaches(c, n)
  <2> SUFFICES ASSUME Answering(c), TypeOK, NEW k \in Nat, Assured(c, n, k) PROVE Reaches(c, n)
    BY DEF SyncsEnd, IInv, Reaches, Pledged
  <2>1. CASE n <= number[c] \/ OnItsWay(c, n, k)
    BY <2>1 DEF OnItsWay, Reaches, PushComes
  <2>2. CASE Covered(c, n)
    <3>1. CASE Carries(toServer[c], {"sync"}, syncing[c])
      BY <2>2, <3>1 DEF Covered, Carries, Reaches
    <3>2. CASE Carries(toClient[c], {"state", "upToDate"}, syncing[c])
      BY <2>2, <3>2 DEF Covered, Carries, Reaches
    <3>. QED  BY <2>2, <3>1, <3>2 DEF Covered, Answering
  <2>. QED  BY <2>1, <2>2 DEF Assured
<1>. HIDE DEF J
<1>. QED  BY <1>1, <1>2, <1>3, WriteInvariant, SyncsAreAnswered, InductiveInvariant, PTL DEF Spec
=============================================================================
