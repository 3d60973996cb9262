-------------------------------- MODULE Connection --------------------------------
(***************************************************************************)
(* What stands between the application and the server: modules/Environment *)
(* chooses the server and replaces the client of the SDK for another,      *)
(* modules/ConnectivityMonitor and modules/RateLimiter listen to the       *)
(* requests of the client, whichever it is now, and modules/Alert shows    *)
(* what they have to say.                                                  *)
(*                                                                         *)
(* An action is one event loop turn; the store listeners run before        *)
(* anything else happens (Settled).  The handlers are on one client at a   *)
(* time, as each binding undoes the one before.                            *)
(***************************************************************************)
EXTENDS Naturals

CONSTANTS
  Server,       \* servers to choose from; that of sdkConfig is not one of them
  SdkServer,
  MaxChecks,    \* bound: checks of the connection under way
  MaxEvents     \* bound: requests, changes of the server, failures, dismissals

VARIABLES
  storageReady,  \* of GlobalStorage
  target,        \* what Environment has in it: server if enabled, else SdkServer
  client,        \* client.service: the number of the client, and its server
  environment,   \* whether it is ready, and changeCounter
  monitor,       \* ConnectivityMonitor and RateLimiter: ready, the client their handlers
  limiter,       \* are on, 0 if on none, and _lastEnvironmentCounter
  connectivity,
  timer,         \* _retryTimeoutId is set
  checks,        \* calls of _checkConnectionFunc under way
  throttling,    \* the timestamp in GlobalStorage is recent
  alerts,        \* messages of Alert
  requests,      \* clients with a request under way
  elsewhere,     \* history: another tab chose the server
  slipped,       \* history: a request was sent while throttling
  missed,        \* history: the monitor did not hear of an answer
  events

vars == <<storageReady, target, client, environment, monitor, limiter, connectivity, timer, checks,
          throttling, alerts, requests, elsewhere, slipped, missed, events>>

Listener == [ready : BOOLEAN, bound : Nat, counter : Nat]
Message  == {"disconnected", "rateLimitReached"}

TypeOK ==
  /\ storageReady \in BOOLEAN /\ target \in Server \cup {SdkServer}
  /\ client \in [id : Nat \ {0}, server : Server \cup {SdkServer}]
  /\ environment \in [ready : BOOLEAN, changeCounter : Nat]
  /\ monitor \in Listener /\ limiter \in Listener
  /\ connectivity \in BOOLEAN /\ timer \in BOOLEAN /\ checks \in 0..MaxChecks
  /\ throttling \in BOOLEAN /\ alerts \subseteq Message
  /\ requests \subseteq 1..client.id
  /\ elsewhere \in BOOLEAN /\ slipped \in BOOLEAN /\ missed \in BOOLEAN
  /\ events \in 0..MaxEvents

\* A page may be loaded while the requests of the one before are still too many.
Init ==
  /\ storageReady = FALSE /\ target \in Server \cup {SdkServer}
  /\ client = [id |-> 1, server |-> SdkServer]
  /\ environment = [ready |-> FALSE, changeCounter |-> 0]
  /\ monitor = [ready |-> FALSE, bound |-> 0, counter |-> 0] /\ limiter = monitor
  /\ connectivity = TRUE /\ timer = FALSE /\ checks = 0
  /\ throttling \in BOOLEAN /\ alerts = {} /\ requests = {}
  /\ elsewhere = FALSE /\ slipped = FALSE /\ missed = FALSE
  /\ events = 0

Counted == events < MaxEvents /\ events' = events + 1

watch == <<connectivity, timer, checks, throttling, alerts, requests>>
history == <<elsewhere, slipped, missed>>

-----------------------------------------------------------------------------
(* The store listeners. *)

EnvironmentTurns == storageReady /\ ~environment.ready

Rebinds_Never(l) == FALSE
Rebinds(l) == l.ready /\ environment.changeCounter # l.counter
Turns(l)   == (environment.ready /\ ~l.ready) \/ Rebinds(l)
Settled    == ~(EnvironmentTurns \/ Turns(monitor) \/ Turns(limiter))

\* _bindHandlers; the counter is not looked at when a module gets ready.
Bound(l) == [ready |-> TRUE, bound |-> client.id,
             counter |-> IF l.ready THEN environment.changeCounter ELSE l.counter]

\* _initClientService, if enabled.
InitClientService ==
  /\ EnvironmentTurns
  /\ environment' = [environment EXCEPT !.ready = TRUE]
  /\ client' = IF target = SdkServer THEN client ELSE [id |-> client.id + 1, server |-> target]
  /\ UNCHANGED <<storageReady, target, monitor, limiter, watch, history, events>>

BindMonitor ==
  /\ Turns(monitor)
  /\ monitor' = Bound(monitor)
  /\ timer' = (timer \/ ~monitor.ready)
  /\ UNCHANGED <<storageReady, target, client, environment, limiter, connectivity, checks, throttling,
                 alerts, requests, history, events>>

BindLimiter ==
  /\ Turns(limiter)
  /\ limiter' = Bound(limiter)
  /\ UNCHANGED <<storageReady, target, client, environment, monitor, watch, history, events>>

-----------------------------------------------------------------------------
(* What the handlers make of an answer, or of the window that goes offline. *)

Retry_OnChange(heard) == timer \/ (heard # connectivity)
\* _retry sets the timer, whatever was heard.
Retry(heard) == TRUE

\* _requestSuccessHandler, or _requestErrorHandler for an error without a response.
MonitorHears(success) ==
  /\ connectivity' = success
  /\ alerts' = IF success = connectivity THEN alerts
               ELSE IF success THEN alerts \ {"disconnected"} ELSE alerts \cup {"disconnected"}
  /\ timer' = Retry(success)

\* _requestErrorHandler of RateLimiter.
LimiterHears ==
  /\ throttling' = TRUE
  /\ alerts' = IF throttling THEN alerts ELSE alerts \cup {"rateLimitReached"}

\* The application asks the server.  A request that is refused was never sent, which for
\* the monitor may look like one that failed: that is up to the SDK.
Request ==
  /\ Settled /\ Counted
  /\ IF limiter.bound = client.id /\ throttling
     THEN /\ IF monitor.bound = client.id THEN MonitorHears(FALSE) \/ UNCHANGED <<connectivity, alerts, timer>>
             ELSE UNCHANGED <<connectivity, alerts, timer>>
          /\ UNCHANGED <<requests, slipped>>
     ELSE /\ requests' = requests \cup {client.id}
          /\ slipped' = (slipped \/ (limiter.ready /\ throttling))
          /\ UNCHANGED <<connectivity, alerts, timer>>
  /\ UNCHANGED <<storageReady, target, client, environment, monitor, limiter, checks, throttling,
                 elsewhere, missed>>

\* An answer comes, none does, or there are too many requests; any other error says
\* nothing to either module.
Answer(c) ==
  /\ Settled
  /\ requests' = requests \ {c}
  /\ \/ /\ IF monitor.bound = c THEN \E success \in BOOLEAN : MonitorHears(success)
           ELSE UNCHANGED <<connectivity, alerts, timer>>
        /\ missed' = (missed \/ (monitor.ready /\ c = client.id /\ monitor.bound # c))
        /\ UNCHANGED throttling
     \/ /\ IF limiter.bound = c THEN LimiterHears ELSE UNCHANGED <<throttling, alerts>>
        /\ UNCHANGED <<connectivity, timer, missed>>
     \/ UNCHANGED <<connectivity, alerts, timer, throttling, missed>>
  /\ UNCHANGED <<storageReady, target, client, environment, monitor, limiter, checks, elsewhere,
                 slipped, events>>

Offline ==
  /\ Settled /\ monitor.ready /\ Counted
  /\ MonitorHears(FALSE)
  /\ UNCHANGED <<storageReady, target, client, environment, monitor, limiter, checks, throttling,
                 requests, history>>

CheckConnection ==
  /\ Settled /\ timer /\ checks < MaxChecks
  /\ timer' = FALSE /\ checks' = checks + 1
  /\ UNCHANGED <<storageReady, target, client, environment, monitor, limiter, connectivity,
                 throttling, alerts, requests, history, events>>

Checked ==
  /\ Settled /\ checks > 0
  /\ checks' = checks - 1
  /\ \E success \in BOOLEAN : MonitorHears(success)
  /\ UNCHANGED <<storageReady, target, client, environment, monitor, limiter, throttling, requests,
                 history, events>>

-----------------------------------------------------------------------------
(* The user, other tabs, and time. *)

\* setData of Environment.
SetData(t) ==
  /\ Settled /\ environment.ready /\ Counted
  /\ target' = t
  /\ IF t = target
     THEN UNCHANGED <<client, environment>>
     ELSE /\ client' = [id |-> client.id + 1, server |-> t]
          /\ environment' = [environment EXCEPT !.changeCounter = @ + 1]
  /\ UNCHANGED <<storageReady, monitor, limiter, watch, history>>

\* Another tab does: GlobalStorage brings the server, but not the counter.
SetElsewhere(t) ==
  /\ Settled /\ storageReady /\ t # target /\ Counted
  /\ target' = t
  /\ elsewhere' = TRUE
  /\ UNCHANGED <<storageReady, client, environment, monitor, limiter, watch, slipped, missed>>

StorageReady ==
  /\ ~storageReady
  /\ storageReady' = TRUE
  /\ UNCHANGED <<target, client, environment, monitor, limiter, watch, history, events>>

\* throttleDuration is over; the timestamp goes when _checkTimestamp looks at it.
ThrottleOver ==
  /\ Settled /\ throttling
  /\ throttling' = FALSE
  /\ UNCHANGED <<storageReady, target, client, environment, monitor, limiter, connectivity, timer,
                 checks, alerts, requests, history, events>>

\* dismiss by the user, or _autoDismiss.
Dismiss(message) ==
  /\ Settled
  /\ alerts' = alerts \ {message}
  /\ UNCHANGED <<storageReady, target, client, environment, monitor, limiter, connectivity, timer,
                 checks, throttling, requests, history, events>>

Next ==
  \/ StorageReady \/ InitClientService \/ BindMonitor \/ BindLimiter
  \/ Request \/ Offline \/ CheckConnection \/ Checked \/ ThrottleOver
  \/ \E c \in requests : Answer(c)
  \/ \E t \in Server \cup {SdkServer} : SetData(t) \/ SetElsewhere(t)
  \/ \E message \in alerts : Dismiss(message)

Spec == Init /\ [][Next]_vars

-----------------------------------------------------------------------------
(* Whatever happens to the environment, the connection is always going to be checked,    *)
(* the monitor hears every answer of the client in use, no request passes while the      *)
(* limit is on, nobody is told of a connection that is not lost, and the client is one   *)
(* for the server that was chosen here.                                                  *)
ConnectionWatched ==
  Settled =>
    /\ monitor.ready => timer \/ checks > 0
    /\ ~missed /\ ~slipped
    /\ "disconnected" \in alerts => ~connectivity
    /\ environment.ready /\ ~elsewhere => client.server = target
=============================================================================
