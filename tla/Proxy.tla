------------------------------- MODULE Proxy -------------------------------
(***************************************************************************)
(* Replication of the store of a background page to the pages that show it *)
(* (lib/proxy over lib/ChromeTransport): the server pushes every action    *)
(* with a number to the ports of the active tabs; a client applies the     *)
(* action that follows its own number and asks for the whole state         *)
(* otherwise.  Calls of proxied functions travel over the same ports.      *)
(*                                                                         *)
(* A state of the target module is the sequence of actions that led to it. *)
(* A port delivers in order.  An action here is one event loop turn of one *)
(* page, except that the push handlers which awaited the same sync resume  *)
(* one by one (Resume), before the page handles another message.           *)
(***************************************************************************)
EXTENDS Integers, FiniteSets, Sequences

CONSTANTS
  Client,       \* client pages (a page that reloads is a new client)
  Action,       \* redux actions of the target module
  MaxActions,   \* bound: actions of the server's store that no call causes
  MaxCalls,     \* bound: calls of proxied functions
  MaxSwitch,    \* bound: changes of the tabs the server takes for active
  MaxTimeout    \* bound: requests that time out

ASSUME BoundsAssumption ==
  MaxActions \in Nat /\ MaxCalls \in Nat /\ MaxSwitch \in Nat /\ MaxTimeout \in Nat

VARIABLES
  log,          \* server: the actions reduced so far
  active,       \* server: clients whose tab is in _activeTabs
  executing,    \* server: calls that have not returned
  phase,        \* "new", "connected" or "closed" port of each client
  toServer,     \* requests on the way to the server
  toClient,     \* pushes and responses on the way to each client
  number,       \* client: state.actionNumber
  target,       \* client: state.target
  syncing,      \* client: request id of _syncPromise, 0 if null
  waiting,      \* client: push handlers that await _syncPromise
  resumed,      \* client: those whose promise has settled
  calls,        \* client: ids of the calls that await a response
  lastId,       \* client: the last request id (uuid)
  count         \* how often the bounded events happened

serverVars == <<log, active, executing>>
clientVars == <<number, target, syncing, waiting, resumed, calls, lastId>>
vars == <<log, active, executing, phase, toServer, toClient, number, target,
          syncing, waiting, resumed, calls, lastId, count>>

Connected    == {c \in Client : phase[c] = "connected"}
ServerNumber == Len(log) - 1

PushMsg    == [type : {"push"}, action : Action, number : Nat]
StateMsg   == [type : {"state"}, id : Nat, target : Seq(Action), number : Int]
ErrorMsg   == [type : {"upToDate"}, id : Nat]
\* The answer to a call names the action the call made, and whether it was
\* pushed to the caller.
ReturnMsg  == [type : {"return"}, id : Nat, number : Nat, pushed : BOOLEAN]
ClientMsg  == PushMsg \cup StateMsg \cup ErrorMsg \cup ReturnMsg
SyncMsg    == [type : {"sync"}, id : Nat, number : Int]
ExecuteMsg == [type : {"execute"}, id : Nat]
ServerMsg  == SyncMsg \cup ExecuteMsg
Call       == [client : Client, id : Nat, number : Nat, pushed : BOOLEAN]

TypeOK ==
  /\ log \in Seq(Action)
  /\ active \subseteq Client
  /\ executing \subseteq Call
  /\ phase \in [Client -> {"new", "connected", "closed"}]
  /\ toServer \in [Client -> Seq(ServerMsg)]
  /\ toClient \in [Client -> Seq(ClientMsg)]
  /\ number \in [Client -> Int]
  /\ target \in [Client -> Seq(Action)]
  /\ syncing \in [Client -> Nat]
  /\ waiting \in [Client -> Seq(PushMsg)]
  /\ resumed \in [Client -> Seq(PushMsg)]
  /\ calls \in [Client -> SUBSET Nat]
  /\ lastId \in [Client -> Nat]
  /\ count \in [{"action", "call", "switch", "timeout"} -> Nat]

Init ==
  /\ log = <<>>
  /\ active \in SUBSET Client
  /\ executing = {}
  /\ phase = [c \in Client |-> "new"]
  /\ toServer = [c \in Client |-> <<>>]
  /\ toClient = [c \in Client |-> <<>>]
  /\ number = [c \in Client |-> -1]
  /\ target = [c \in Client |-> <<>>]
  /\ syncing = [c \in Client |-> 0]
  /\ waiting = [c \in Client |-> <<>>]
  /\ resumed = [c \in Client |-> <<>>]
  /\ calls = [c \in Client |-> {}]
  /\ lastId = [c \in Client |-> 0]
  /\ count = [e \in {"action", "call", "switch", "timeout"} |-> 0]

-----------------------------------------------------------------------------
(* The server. *)

\* The server's reducer: push the action to the active ports, then reduce it.
Pushed_OldNumber(a) ==
  [c \in Client |->
     IF c \in active \cap Connected
     THEN Append(toClient[c], [type |-> "push", action |-> a, number |-> ServerNumber])
     ELSE toClient[c]]
Pushed(a) ==
  [c \in Client |->
     IF c \in active \cap Connected
     THEN Append(toClient[c], [type |-> "push", action |-> a, number |-> ServerNumber + 1])
     ELSE toClient[c]]

Reduce(a) ==
  /\ toClient' = Pushed(a)
  /\ log' = Append(log, a)

\* The background page's own activity.
Dispatch(a) ==
  /\ count["action"] < MaxActions
  /\ count' = [count EXCEPT !["action"] = @ + 1]
  /\ Reduce(a)
  /\ UNCHANGED <<active, executing, phase, toServer, clientVars>>

\* tabs.onActivated, with the answer of the query it starts.
SwitchTab(c) ==
  /\ count["switch"] < MaxSwitch
  /\ count' = [count EXCEPT !["switch"] = @ + 1]
  /\ active' = IF c \in active THEN active \ {c} ELSE active \cup {c}
  /\ UNCHANGED <<log, executing, phase, toServer, toClient, clientVars>>

\* A sync request: the whole state, unless the client has it already.
SyncResult(m) ==
  IF m.number # ServerNumber
  THEN [type |-> "state", id |-> m.id, target |-> log, number |-> ServerNumber]
  ELSE [type |-> "upToDate", id |-> m.id]

OnSync(c) ==
  /\ phase[c] = "connected" /\ toServer[c] # <<>> /\ Head(toServer[c]).type = "sync"
  /\ toServer' = [toServer EXCEPT ![c] = Tail(@)]
  /\ toClient' = [toClient EXCEPT ![c] = Append(@, SyncResult(Head(toServer[c])))]
  /\ UNCHANGED <<serverVars, phase, clientVars, count>>

\* An execute request: the function runs up to its first await and dispatches.
OnExecute(c) ==
  /\ phase[c] = "connected" /\ toServer[c] # <<>> /\ Head(toServer[c]).type = "execute"
  /\ toServer' = [toServer EXCEPT ![c] = Tail(@)]
  /\ \E a \in Action : Reduce(a)
  /\ executing' = executing \cup
       {[client |-> c, id |-> Head(toServer[c]).id,
         number |-> ServerNumber + 1, pushed |-> c \in active]}
  /\ UNCHANGED <<active, phase, clientVars, count>>

\* Responses go to the port the request came from, active or not.
RespondsTo(c) == phase[c] = "connected"

\* The call settles: respond, unless the port is gone.
Return(e) ==
  /\ executing' = executing \ {e}
  /\ toClient' = [toClient EXCEPT ![e.client] =
       IF RespondsTo(e.client)
       THEN Append(@, [type |-> "return", id |-> e.id,
                       number |-> e.number, pushed |-> e.pushed])
       ELSE @]
  /\ UNCHANGED <<log, active, phase, toServer, clientVars, count>>

-----------------------------------------------------------------------------
(* A client. *)

\* sync: share the request that is under way, or send one.
Sync(c) ==
  IF syncing[c] # 0
  THEN UNCHANGED <<syncing, lastId, toServer>>
  ELSE /\ lastId' = [lastId EXCEPT ![c] = @ + 1]
       /\ syncing' = [syncing EXCEPT ![c] = lastId[c] + 1]
       /\ toServer' = [toServer EXCEPT ![c] =
            Append(@, [type |-> "sync", id |-> lastId[c] + 1, number |-> number[c]])]

\* A page opens its port and initialize syncs.
Connect(c) ==
  /\ phase[c] = "new"
  /\ phase' = [phase EXCEPT ![c] = "connected"]
  /\ Sync(c)
  /\ UNCHANGED <<serverVars, toClient, number, target, waiting, resumed, calls, count>>

\* The rest of the push handler, once no sync is under way: apply the action
\* that is next in order, else sync.
Follows_Newer(c, p) == p.number > number[c]
Follows(c, p) == p.number = number[c] + 1

Resync_Omitted(c) == UNCHANGED <<syncing, lastId, toServer>>
Resync(c) == Sync(c)

Apply(c, p) ==
  IF Follows(c, p)
  THEN /\ number' = [number EXCEPT ![c] = p.number]
       /\ target' = [target EXCEPT ![c] = Append(@, p.action)]
       /\ UNCHANGED <<syncing, lastId, toServer>>
  ELSE /\ Resync(c)
       /\ UNCHANGED <<number, target>>

Handles(c, type) ==
  /\ phase[c] = "connected" /\ resumed[c] = <<>>
  /\ toClient[c] # <<>> /\ Head(toClient[c]).type \in type
  /\ toClient' = [toClient EXCEPT ![c] = Tail(@)]

OnPush(c) ==
  /\ Handles(c, {"push"})
  /\ IF syncing[c] # 0
     THEN /\ waiting' = [waiting EXCEPT ![c] = Append(@, Head(toClient[c]))]
          /\ UNCHANGED <<number, target, syncing, lastId, toServer>>
     ELSE /\ Apply(c, Head(toClient[c]))
          /\ UNCHANGED waiting
  /\ UNCHANGED <<serverVars, phase, resumed, calls, count>>

\* A push handler that awaited a sync continues.
Resume(c) ==
  /\ phase[c] = "connected" /\ resumed[c] # <<>>
  /\ Apply(c, Head(resumed[c]))
  /\ resumed' = [resumed EXCEPT ![c] = Tail(@)]
  /\ UNCHANGED <<serverVars, phase, toClient, waiting, calls, count>>

\* _sync is over: _syncPromise becomes null and whoever awaited it goes on.
Settled_PromiseKept(c) ==
  /\ resumed' = [resumed EXCEPT ![c] = waiting[c]]
  /\ waiting' = [waiting EXCEPT ![c] = <<>>]
  /\ UNCHANGED syncing
Settled(c) ==
  /\ syncing' = [syncing EXCEPT ![c] = 0]
  /\ resumed' = [resumed EXCEPT ![c] = waiting[c]]
  /\ waiting' = [waiting EXCEPT ![c] = <<>>]

\* The request a response belongs to may have timed out: it is dropped then.
Expected(c, m) == m.id = syncing[c]

OnSyncResponse(c) ==
  LET m == Head(toClient[c]) IN
  /\ Handles(c, {"state", "upToDate"})
  /\ IF Expected(c, m)
     THEN /\ Settled(c)
          /\ IF m.type = "state"
             THEN /\ number' = [number EXCEPT ![c] = m.number]
                  /\ target' = [target EXCEPT ![c] = m.target]
             ELSE UNCHANGED <<number, target>>
     ELSE UNCHANGED <<number, target, syncing, waiting, resumed>>
  /\ UNCHANGED <<serverVars, phase, toServer, calls, lastId, count>>

TimedOut ==
  /\ count["timeout"] < MaxTimeout
  /\ count' = [count EXCEPT !["timeout"] = @ + 1]

SyncTimeout(c) ==
  /\ phase[c] = "connected" /\ resumed[c] = <<>> /\ syncing[c] # 0
  /\ TimedOut
  /\ Settled(c)
  /\ UNCHANGED <<serverVars, phase, toServer, toClient, number, target, calls, lastId>>

\* proxify: a call of a proxied function becomes a request ...
Execute(c) ==
  /\ phase[c] = "connected" /\ resumed[c] = <<>>
  /\ count["call"] < MaxCalls
  /\ count' = [count EXCEPT !["call"] = @ + 1]
  /\ lastId' = [lastId EXCEPT ![c] = @ + 1]
  /\ calls' = [calls EXCEPT ![c] = @ \cup {lastId[c] + 1}]
  /\ toServer' = [toServer EXCEPT ![c] =
       Append(@, [type |-> "execute", id |-> lastId[c] + 1])]
  /\ UNCHANGED <<serverVars, phase, toClient, number, target, syncing, waiting, resumed>>

\* ... that its response or a timeout settles.
OnReturn(c) ==
  /\ Handles(c, {"return"})
  /\ calls' = [calls EXCEPT ![c] = @ \ {Head(toClient[c]).id}]
  /\ UNCHANGED <<serverVars, phase, toServer, number, target, syncing, waiting,
                 resumed, lastId, count>>

CallTimeout(c) ==
  /\ phase[c] = "connected" /\ resumed[c] = <<>>
  /\ TimedOut
  /\ \E id \in calls[c] : calls' = [calls EXCEPT ![c] = @ \ {id}]
  /\ UNCHANGED <<serverVars, phase, toServer, toClient, number, target, syncing,
                 waiting, resumed, lastId>>

\* The page goes away and its port disconnects.
Disconnect(c) ==
  /\ phase[c] = "connected"
  /\ phase' = [phase EXCEPT ![c] = "closed"]
  /\ toServer' = [toServer EXCEPT ![c] = <<>>]
  /\ toClient' = [toClient EXCEPT ![c] = <<>>]
  /\ syncing' = [syncing EXCEPT ![c] = 0]
  /\ waiting' = [waiting EXCEPT ![c] = <<>>]
  /\ resumed' = [resumed EXCEPT ![c] = <<>>]
  /\ calls' = [calls EXCEPT ![c] = {}]
  /\ UNCHANGED <<serverVars, number, target, lastId, count>>

-----------------------------------------------------------------------------
Next ==
  \/ \E a \in Action : Dispatch(a)
  \/ \E e \in executing : Return(e)
  \/ \E c \in Client :
       \/ SwitchTab(c) \/ Connect(c) \/ Disconnect(c)
       \/ OnSync(c) \/ OnExecute(c)
       \/ OnPush(c) \/ Resume(c) \/ OnSyncResponse(c) \/ SyncTimeout(c)
       \/ Execute(c) \/ OnReturn(c) \/ CallTimeout(c)

\* Ports deliver, event loops run, and proxied functions settle.
Fairness ==
  /\ \A c \in Client :
       /\ WF_vars(OnSync(c) \/ OnExecute(c))
       /\ WF_vars(OnPush(c) \/ OnSyncResponse(c) \/ OnReturn(c))
       /\ WF_vars(Resume(c))
  /\ WF_vars(\E e \in executing : Return(e))

Spec     == Init /\ [][Next]_vars
FairSpec == Spec /\ Fairness

-----------------------------------------------------------------------------
(***************************************************************************)
(* Properties                                                              *)
(***************************************************************************)

\* Every client's target is the server's as of its own actionNumber, and none
\* ever goes back, whatever pushes are skipped while its tab is in the
\* background and however syncs, pushes and timeouts cross (the push listener,
\* _sync, getProxyClientReducer).
R == INSTANCE Replica WITH copy <- target
ImplementsReplica == R!Spec

NumberedState ==
  \A c \in Client : number[c] = Len(target[c]) - 1

\* A page in the foreground that has the answer to its call of a proxied function
\* shows what the call did, or is about to (proxify, push before response).
ReadsOwnWrites ==
  \A c \in Connected :
    LET m == Head(toClient[c]) IN
    /\ toClient[c] # <<>> /\ resumed[c] = <<>>
    /\ m.type = "return" /\ m.pushed
    /\ count["timeout"] = 0
    => syncing[c] # 0 \/ number[c] >= m.number

\* A push that reaches a client brings it up to date at least to that action,
\* even if the one before was never pushed to it, unless a sync times out
\* (getProxyClient, sync).
PushCatchesUp ==
  \A c \in Client, n \in 0..(MaxActions + MaxCalls - 1) :
    (\E i \in DOMAIN toClient[c] : toClient[c][i].type = "push" /\ toClient[c][i].number = n)
      ~> (phase[c] = "closed" \/ number[c] >= n \/ count["timeout"] > 0)
=============================================================================
