-------------------------------- MODULE Telephony --------------------------------
(***************************************************************************)
(* The components of the session, of calls and what matches them, of the   *)
(* connection, and the injector that makes the modules when a session      *)
(* starts, one at a time.                                                  *)
(* None of them reads what another one writes but through what their       *)
(* modules name external.                                                  *)
(***************************************************************************)
EXTENDS Stage, Integers, FiniteSets

CONSTANTS
  AuTab, AuMaxLogins, AuMaxEvents,
  PrMaxLogins, PrMaxVersions, PrMaxEvents,
  ClCall, ClOld, ClRecordCount, ClPolling, ClMaxLogins, ClMaxChanges, ClMaxEvents,
  ChSession, ChRingOut, ChMaxChanges,
  CgThing, CgMaxEvents,
  DmQuery, DmMaxAsks, DmMaxEvents,
  WcMaxUnderWay, WcMaxEvents,
  WsSession, WsMaxEnded, WsMaxEvents,
  CaMyNumber, CaOtherNumber, CaMaxEvents,
  CoServer, CoSdkServer, CoMaxChecks, CoMaxEvents,
  InTokens, InBase, InMaxRetries

VARIABLES
  \* of more than one component:
  unheard, shown, requests, monitor, seen, lastEnded, webphone, pending, callStatus,
  \* of AuthTabs:
  isImplicit, loginStatus, token, inbox, leaving, refreshing, count,
  \* of Presence:
  variant, real, lastSequence, activeCalls, remembered, online,
  \* of CallLog:
  log, naps,
  \* of CallHistory:
  presence, records, readiness, history, endedCalls, matched, changes,
  \* of CallLogger:
  ended, over, logOnRinging, lastCalls, handlers,
  \* of DataMatcher:
  may, sources, marked, matching, asks,
  \* of WebphoneConnection:
  connectionStatus, heard, underWay,
  \* of WebphoneSessions:
  phone, held, inbound, activeSessionId, ringSessionId, forwarded, replied, stopping, lost,
  unheld,
  \* of Calling:
  enabled, my, other, callerIds, settings, settingsReady, mode, connecting, changed,
  \* of Connection:
  storageReady, target, client, environment, limiter, connectivity, checks, throttling,
  alerts, elsewhere, slipped,
  \* of Injector:
  providers, stack, container, made, left, retries

Au == INSTANCE AuthTabs WITH
  Tab <- AuTab, User <- Owner, None <- none, MaxLogins <- AuMaxLogins,
  MaxEvents <- AuMaxEvents

Pr == INSTANCE Presence WITH
  NoOne <- none, MaxLogins <- PrMaxLogins, MaxVersions <- PrMaxVersions,
  MaxEvents <- PrMaxEvents

Cl == INSTANCE CallLog WITH
  NoOne <- none, None <- none, Call <- ClCall, Old <- ClOld, RecordCount <- ClRecordCount,
  Polling <- ClPolling, MaxLogins <- ClMaxLogins, MaxChanges <- ClMaxChanges,
  MaxEvents <- ClMaxEvents

Ch == INSTANCE CallHistory WITH
  None <- none, Session <- ChSession, RingOut <- ChRingOut, MaxChanges <- ChMaxChanges

Cg == INSTANCE CallLogger WITH
  Thing <- CgThing, MaxEvents <- CgMaxEvents

Dm == INSTANCE DataMatcher WITH
  None <- none, Query <- DmQuery, MaxAsks <- DmMaxAsks, MaxEvents <- DmMaxEvents

Wc == INSTANCE WebphoneConnection WITH
  MaxUnderWay <- WcMaxUnderWay, MaxEvents <- WcMaxEvents

Ws == INSTANCE WebphoneSessions WITH
  None <- none, Session <- WsSession, MaxEnded <- WsMaxEnded, MaxEvents <- WsMaxEvents

Ca == INSTANCE Calling WITH
  None <- none, MyNumber <- CaMyNumber, OtherNumber <- CaOtherNumber,
  MaxEvents <- CaMaxEvents

Co == INSTANCE Connection WITH
  Server <- CoServer, SdkServer <- CoSdkServer, MaxChecks <- CoMaxChecks,
  MaxEvents <- CoMaxEvents

In == INSTANCE Injector WITH
  Tokens <- InTokens, Base <- InBase, MaxRetries <- InMaxRetries

\* Nobody and nothing is no user, and nothing that a component compares it with; things, and the
\* tokens of the injector, are finitely many.
ASSUME TelephonyConstants ==
  /\ none \notin Owner /\ none \notin WsSession /\ none \notin Ca!Seen
  /\ none \notin Dm!Fetch /\ none \notin [queries : SUBSET DmQuery, after : Nat, due : BOOLEAN]
  /\ \A S \in (SUBSET ChSession) \cup SUBSET Ch!Item : none # S
  /\ ChRingOut \subseteq ChSession \X ChSession
  /\ ClRecordCount \in Nat /\ ClPolling \in BOOLEAN /\ IsFiniteSet(CgThing)
  /\ WsMaxEnded \in Nat \ {0}
  /\ {CgMaxEvents, WcMaxUnderWay, WcMaxEvents, WsMaxEvents, CaMaxEvents, CoMaxChecks,
      CoMaxEvents, InTokens, InMaxRetries} \subseteq Nat
  /\ InBase \in [In!Token -> In!Need]

-----------------------------------------------------------------------------
\* The variables that only one component has, and what they are while another one runs.

auVars ==
  <<isImplicit, loginStatus, token, inbox, leaving, refreshing, count>>

NoAuthTabs ==
  /\ isImplicit = none /\ loginStatus = none /\ token = none /\ inbox = none
  /\ leaving = none /\ refreshing = none /\ count = none

prVars ==
  <<variant, real, lastSequence, activeCalls, remembered, online>>

NoPresence ==
  /\ variant = none /\ real = none /\ lastSequence = none /\ activeCalls = none
  /\ remembered = none /\ online = none

clVars ==
  <<log, naps>>

NoCallLog ==
  /\ log = none /\ naps = none

chVars ==
  <<presence, records, readiness, history, endedCalls, matched, changes>>

NoCallHistory ==
  /\ presence = none /\ records = none /\ readiness = none /\ history = none
  /\ endedCalls = none /\ matched = none /\ changes = none

cgVars ==
  <<ended, over, logOnRinging, lastCalls, handlers>>

NoCallLogger ==
  /\ ended = none /\ over = none /\ logOnRinging = none /\ lastCalls = none
  /\ handlers = none

dmVars ==
  <<may, sources, marked, matching, asks>>

NoDataMatcher ==
  /\ may = none /\ sources = none /\ marked = none /\ matching = none /\ asks = none

wcVars ==
  <<connectionStatus, heard, underWay>>

NoWebphoneConnection ==
  /\ connectionStatus = none /\ heard = none /\ underWay = none

wsVars ==
  <<phone, held, inbound, activeSessionId, ringSessionId, forwarded, replied, stopping,
    lost, unheld>>

NoWebphoneSessions ==
  /\ phone = none /\ held = none /\ inbound = none /\ activeSessionId = none
  /\ ringSessionId = none /\ forwarded = none /\ replied = none /\ stopping = none
  /\ lost = none /\ unheld = none

caVars ==
  <<enabled, my, other, callerIds, settings, settingsReady, mode, connecting, changed>>

NoCalling ==
  /\ enabled = none /\ my = none /\ other = none /\ callerIds = none /\ settings = none
  /\ settingsReady = none /\ mode = none /\ connecting = none /\ changed = none

coVars ==
  <<storageReady, target, client, environment, limiter, connectivity, checks, throttling,
    alerts, elsewhere, slipped>>

NoConnection ==
  /\ storageReady = none /\ target = none /\ client = none /\ environment = none
  /\ limiter = none /\ connectivity = none /\ checks = none /\ throttling = none
  /\ alerts = none /\ elsewhere = none /\ slipped = none

inVars ==
  <<providers, stack, container, made, left, retries>>

NoInjector ==
  /\ providers = none /\ stack = none /\ container = none /\ made = none /\ left = none
  /\ retries = none

TelephonyInit ==
  \/ /\ which = "AuthTabs" /\ Au!Init
     /\ NoPresence /\ NoCallLog /\ NoCallHistory /\ NoCallLogger /\ NoDataMatcher
     /\ NoWebphoneConnection /\ NoWebphoneSessions /\ NoCalling /\ NoConnection
     /\ NoInjector /\ owner = none /\ events = none /\ message = none /\ promise = none
     /\ crossed = none /\ cached = none /\ mayRead = none /\ clock = none /\ data = none
     /\ kept = none /\ runs = none /\ queue = none /\ timer = none /\ logs = none
     /\ logPromises = none /\ loggingList = none /\ recorded = none /\ disturbed = none
     /\ calls = none /\ active = none /\ autoLog = none /\ excused = none /\ fetches = none
     /\ wanted = none /\ failed = none /\ last = none /\ missed = none /\ unheard = none
     /\ shown = none /\ requests = none /\ monitor = none /\ seen = none
     /\ lastEnded = none /\ webphone = none /\ pending = none /\ callStatus = none
  \/ /\ which = "Presence" /\ Pr!Init
     /\ NoAuthTabs /\ NoCallLog /\ NoCallHistory /\ NoCallLogger /\ NoDataMatcher
     /\ NoWebphoneConnection /\ NoWebphoneSessions /\ NoCalling /\ NoConnection
     /\ NoInjector /\ cache = none /\ fresh = none /\ loggedIn = none /\ waiting = none
     /\ raced = none /\ cached = none /\ mayRead = none /\ clock = none /\ data = none
     /\ kept = none /\ runs = none /\ queue = none /\ timer = none /\ logs = none
     /\ logPromises = none /\ loggingList = none /\ recorded = none /\ disturbed = none
     /\ calls = none /\ active = none /\ autoLog = none /\ excused = none /\ fetches = none
     /\ wanted = none /\ failed = none /\ last = none /\ missed = none /\ monitor = none
     /\ seen = none /\ lastEnded = none /\ webphone = none /\ pending = none
     /\ callStatus = none
  \/ /\ which = "CallLog" /\ Cl!Init
     /\ NoAuthTabs /\ NoPresence /\ NoCallHistory /\ NoCallLogger /\ NoDataMatcher
     /\ NoWebphoneConnection /\ NoWebphoneSessions /\ NoCalling /\ NoConnection
     /\ NoInjector /\ cache = none /\ fresh = none /\ loggedIn = none /\ waiting = none
     /\ raced = none /\ message = none /\ logs = none /\ logPromises = none
     /\ loggingList = none /\ recorded = none /\ disturbed = none /\ calls = none
     /\ active = none /\ autoLog = none /\ excused = none /\ fetches = none /\ wanted = none
     /\ failed = none /\ last = none /\ missed = none /\ shown = none /\ requests = none
     /\ monitor = none /\ seen = none /\ lastEnded = none /\ webphone = none
     /\ pending = none /\ callStatus = none
  \/ /\ which = "CallHistory" /\ Ch!Init
     /\ NoAuthTabs /\ NoPresence /\ NoCallLog /\ NoCallLogger /\ NoDataMatcher
     /\ NoWebphoneConnection /\ NoWebphoneSessions /\ NoCalling /\ NoConnection
     /\ NoInjector /\ cache = none /\ status = none /\ fresh = none /\ loggedIn = none
     /\ logins = none /\ waiting = none /\ raced = none /\ owner = none /\ events = none
     /\ message = none /\ promise = none /\ crossed = none /\ cached = none
     /\ mayRead = none /\ clock = none /\ data = none /\ kept = none /\ runs = none
     /\ queue = none /\ timer = none /\ logs = none /\ logPromises = none
     /\ loggingList = none /\ recorded = none /\ disturbed = none /\ calls = none
     /\ active = none /\ autoLog = none /\ excused = none /\ fetches = none /\ wanted = none
     /\ failed = none /\ last = none /\ missed = none /\ unheard = none /\ shown = none
     /\ requests = none /\ lastEnded = none /\ webphone = none /\ pending = none
     /\ callStatus = none
  \/ /\ which = "CallLogger" /\ Cg!Init
     /\ NoAuthTabs /\ NoPresence /\ NoCallLog /\ NoCallHistory /\ NoDataMatcher
     /\ NoWebphoneConnection /\ NoWebphoneSessions /\ NoCalling /\ NoConnection
     /\ NoInjector /\ cache = none /\ fresh = none /\ logins = none /\ waiting = none
     /\ raced = none /\ owner = none /\ message = none /\ promise = none /\ crossed = none
     /\ cached = none /\ mayRead = none /\ clock = none /\ data = none /\ kept = none
     /\ runs = none /\ queue = none /\ timer = none /\ fetches = none /\ wanted = none
     /\ failed = none /\ last = none /\ missed = none /\ unheard = none /\ requests = none
     /\ monitor = none /\ seen = none /\ webphone = none /\ pending = none
     /\ callStatus = none
  \/ /\ which = "DataMatcher" /\ Dm!Init
     /\ NoAuthTabs /\ NoPresence /\ NoCallLog /\ NoCallHistory /\ NoCallLogger
     /\ NoWebphoneConnection /\ NoWebphoneSessions /\ NoCalling /\ NoConnection
     /\ NoInjector /\ cache = none /\ fresh = none /\ loggedIn = none /\ logins = none
     /\ waiting = none /\ raced = none /\ owner = none /\ message = none /\ promise = none
     /\ crossed = none /\ cached = none /\ mayRead = none /\ clock = none /\ kept = none
     /\ runs = none /\ timer = none /\ logs = none /\ logPromises = none
     /\ loggingList = none /\ recorded = none /\ disturbed = none /\ calls = none
     /\ active = none /\ autoLog = none /\ excused = none /\ last = none /\ missed = none
     /\ unheard = none /\ shown = none /\ requests = none /\ monitor = none /\ seen = none
     /\ lastEnded = none /\ webphone = none /\ pending = none /\ callStatus = none
  \/ /\ which = "WebphoneConnection" /\ Wc!Init
     /\ NoAuthTabs /\ NoPresence /\ NoCallLog /\ NoCallHistory /\ NoCallLogger
     /\ NoDataMatcher /\ NoWebphoneSessions /\ NoCalling /\ NoConnection /\ NoInjector
     /\ cache = none /\ fresh = none /\ logins = none /\ waiting = none /\ raced = none
     /\ owner = none /\ message = none /\ promise = none /\ cached = none /\ mayRead = none
     /\ clock = none /\ data = none /\ kept = none /\ runs = none /\ queue = none
     /\ timer = none /\ logs = none /\ logPromises = none /\ loggingList = none
     /\ recorded = none /\ disturbed = none /\ calls = none /\ autoLog = none
     /\ excused = none /\ fetches = none /\ failed = none /\ last = none /\ missed = none
     /\ unheard = none /\ shown = none /\ requests = none /\ monitor = none /\ seen = none
     /\ lastEnded = none /\ pending = none /\ callStatus = none
  \/ /\ which = "WebphoneSessions" /\ Ws!Init
     /\ NoAuthTabs /\ NoPresence /\ NoCallLog /\ NoCallHistory /\ NoCallLogger
     /\ NoDataMatcher /\ NoWebphoneConnection /\ NoCalling /\ NoConnection /\ NoInjector
     /\ cache = none /\ status = none /\ fresh = none /\ loggedIn = none /\ logins = none
     /\ waiting = none /\ raced = none /\ owner = none /\ message = none /\ promise = none
     /\ crossed = none /\ cached = none /\ mayRead = none /\ clock = none /\ data = none
     /\ runs = none /\ queue = none /\ timer = none /\ logs = none /\ logPromises = none
     /\ loggingList = none /\ recorded = none /\ disturbed = none /\ calls = none
     /\ active = none /\ autoLog = none /\ excused = none /\ fetches = none /\ wanted = none
     /\ failed = none /\ last = none /\ missed = none /\ unheard = none /\ shown = none
     /\ requests = none /\ monitor = none /\ seen = none /\ webphone = none
  \/ /\ which = "Calling" /\ Ca!Init
     /\ NoAuthTabs /\ NoPresence /\ NoCallLog /\ NoCallHistory /\ NoCallLogger
     /\ NoDataMatcher /\ NoWebphoneConnection /\ NoWebphoneSessions /\ NoConnection
     /\ NoInjector /\ cache = none /\ fresh = none /\ logins = none /\ waiting = none
     /\ raced = none /\ owner = none /\ message = none /\ promise = none /\ cached = none
     /\ mayRead = none /\ clock = none /\ data = none /\ kept = none /\ runs = none
     /\ queue = none /\ timer = none /\ logs = none /\ logPromises = none
     /\ loggingList = none /\ recorded = none /\ disturbed = none /\ active = none
     /\ autoLog = none /\ excused = none /\ fetches = none /\ wanted = none /\ failed = none
     /\ missed = none /\ unheard = none /\ shown = none /\ requests = none
     /\ monitor = none /\ lastEnded = none /\ pending = none
  \/ /\ which = "Connection" /\ Co!Init
     /\ NoAuthTabs /\ NoPresence /\ NoCallLog /\ NoCallHistory /\ NoCallLogger
     /\ NoDataMatcher /\ NoWebphoneConnection /\ NoWebphoneSessions /\ NoCalling
     /\ NoInjector /\ cache = none /\ status = none /\ fresh = none /\ loggedIn = none
     /\ logins = none /\ waiting = none /\ raced = none /\ owner = none /\ message = none
     /\ promise = none /\ crossed = none /\ cached = none /\ mayRead = none /\ clock = none
     /\ data = none /\ kept = none /\ runs = none /\ queue = none /\ logs = none
     /\ logPromises = none /\ loggingList = none /\ recorded = none /\ disturbed = none
     /\ calls = none /\ active = none /\ autoLog = none /\ excused = none /\ fetches = none
     /\ wanted = none /\ failed = none /\ last = none /\ unheard = none /\ shown = none
     /\ seen = none /\ lastEnded = none /\ webphone = none /\ pending = none
     /\ callStatus = none
  \/ /\ which = "Injector" /\ In!Init
     /\ NoAuthTabs /\ NoPresence /\ NoCallLog /\ NoCallHistory /\ NoCallLogger
     /\ NoDataMatcher /\ NoWebphoneConnection /\ NoWebphoneSessions /\ NoCalling
     /\ NoConnection /\ cache = none /\ fresh = none /\ loggedIn = none /\ logins = none
     /\ waiting = none /\ raced = none /\ owner = none /\ events = none /\ message = none
     /\ promise = none /\ crossed = none /\ cached = none /\ mayRead = none /\ clock = none
     /\ data = none /\ kept = none /\ runs = none /\ queue = none /\ timer = none
     /\ logs = none /\ logPromises = none /\ loggingList = none /\ recorded = none
     /\ disturbed = none /\ calls = none /\ active = none /\ autoLog = none
     /\ excused = none /\ fetches = none /\ wanted = none /\ failed = none /\ last = none
     /\ missed = none /\ unheard = none /\ shown = none /\ requests = none /\ monitor = none
     /\ seen = none /\ lastEnded = none /\ webphone = none /\ callStatus = none

TelephonyNext ==
  \/ /\ which = "AuthTabs" /\ Au!Next
     /\ UNCHANGED <<which, prVars, clVars, chVars, cgVars, dmVars, wcVars, wsVars, caVars,
                    coVars, inVars, owner, events, message, promise, crossed, cached,
                    mayRead, clock, data, kept, runs, queue, timer, logs, logPromises,
                    loggingList, recorded, disturbed, calls, active, autoLog, excused,
                    fetches, wanted, failed, last, missed, unheard, shown, requests,
                    monitor, seen, lastEnded, webphone, pending, callStatus>>
  \/ /\ which = "Presence" /\ Pr!Next
     /\ UNCHANGED <<which, auVars, clVars, chVars, cgVars, dmVars, wcVars, wsVars, caVars,
                    coVars, inVars, cache, fresh, loggedIn, waiting, raced, cached, mayRead,
                    clock, data, kept, runs, queue, timer, logs, logPromises, loggingList,
                    recorded, disturbed, calls, active, autoLog, excused, fetches, wanted,
                    failed, last, missed, monitor, seen, lastEnded, webphone, pending,
                    callStatus>>
  \/ /\ which = "CallLog" /\ Cl!Next
     /\ UNCHANGED <<which, auVars, prVars, chVars, cgVars, dmVars, wcVars, wsVars, caVars,
                    coVars, inVars, cache, fresh, loggedIn, waiting, raced, message, logs,
                    logPromises, loggingList, recorded, disturbed, calls, active, autoLog,
                    excused, fetches, wanted, failed, last, missed, shown, requests,
                    monitor, seen, lastEnded, webphone, pending, callStatus>>
  \/ /\ which = "CallHistory" /\ Ch!Next
     /\ UNCHANGED <<which, auVars, prVars, clVars, cgVars, dmVars, wcVars, wsVars, caVars,
                    coVars, inVars, cache, status, fresh, loggedIn, logins, waiting, raced,
                    owner, events, message, promise, crossed, cached, mayRead, clock, data,
                    kept, runs, queue, timer, logs, logPromises, loggingList, recorded,
                    disturbed, calls, active, autoLog, excused, fetches, wanted, failed,
                    last, missed, unheard, shown, requests, lastEnded, webphone, pending,
                    callStatus>>
  \/ /\ which = "CallLogger" /\ Cg!Next
     /\ UNCHANGED <<which, auVars, prVars, clVars, chVars, dmVars, wcVars, wsVars, caVars,
                    coVars, inVars, cache, fresh, logins, waiting, raced, owner, message,
                    promise, crossed, cached, mayRead, clock, data, kept, runs, queue,
                    timer, fetches, wanted, failed, last, missed, unheard, requests,
                    monitor, seen, webphone, pending, callStatus>>
  \/ /\ which = "DataMatcher" /\ Dm!Next
     /\ UNCHANGED <<which, auVars, prVars, clVars, chVars, cgVars, wcVars, wsVars, caVars,
                    coVars, inVars, cache, fresh, loggedIn, logins, waiting, raced, owner,
                    message, promise, crossed, cached, mayRead, clock, kept, runs, timer,
                    logs, logPromises, loggingList, recorded, disturbed, calls, active,
                    autoLog, excused, last, missed, unheard, shown, requests, monitor, seen,
                    lastEnded, webphone, pending, callStatus>>
  \/ /\ which = "WebphoneConnection" /\ Wc!Next
     /\ UNCHANGED <<which, auVars, prVars, clVars, chVars, cgVars, dmVars, wsVars, caVars,
                    coVars, inVars, cache, fresh, logins, waiting, raced, owner, message,
                    promise, cached, mayRead, clock, data, kept, runs, queue, timer, logs,
                    logPromises, loggingList, recorded, disturbed, calls, autoLog, excused,
                    fetches, failed, last, missed, unheard, shown, requests, monitor, seen,
                    lastEnded, pending, callStatus>>
  \/ /\ which = "WebphoneSessions" /\ Ws!Next
     /\ UNCHANGED <<which, auVars, prVars, clVars, chVars, cgVars, dmVars, wcVars, caVars,
                    coVars, inVars, cache, status, fresh, loggedIn, logins, waiting, raced,
                    owner, message, promise, crossed, cached, mayRead, clock, data, runs,
                    queue, timer, logs, logPromises, loggingList, recorded, disturbed,
                    calls, active, autoLog, excused, fetches, wanted, failed, last, missed,
                    unheard, shown, requests, monitor, seen, webphone>>
  \/ /\ which = "Calling" /\ Ca!Next
     /\ UNCHANGED <<which, auVars, prVars, clVars, chVars, cgVars, dmVars, wcVars, wsVars,
                    coVars, inVars, cache, fresh, logins, waiting, raced, owner, message,
                    promise, cached, mayRead, clock, data, kept, runs, queue, timer, logs,
                    logPromises, loggingList, recorded, disturbed, active, autoLog, excused,
                    fetches, wanted, failed, missed, unheard, shown, requests, monitor,
                    lastEnded, pending>>
  \/ /\ which = "Connection" /\ Co!Next
     /\ UNCHANGED <<which, auVars, prVars, clVars, chVars, cgVars, dmVars, wcVars, wsVars,
                    caVars, inVars, cache, status, fresh, loggedIn, logins, waiting, raced,
                    owner, message, promise, crossed, cached, mayRead, clock, data, kept,
                    runs, queue, logs, logPromises, loggingList, recorded, disturbed, calls,
                    active, autoLog, excused, fetches, wanted, failed, last, unheard, shown,
                    seen, lastEnded, webphone, pending, callStatus>>
  \/ /\ which = "Injector" /\ In!Next
     /\ UNCHANGED <<which, auVars, prVars, clVars, chVars, cgVars, dmVars, wcVars, wsVars,
                    caVars, coVars, cache, fresh, loggedIn, logins, waiting, raced, owner,
                    events, message, promise, crossed, cached, mayRead, clock, data, kept,
                    runs, queue, timer, logs, logPromises, loggingList, recorded, disturbed,
                    calls, active, autoLog, excused, fetches, wanted, failed, last, missed,
                    unheard, shown, requests, monitor, seen, lastEnded, webphone, callStatus>>

TelephonyVars ==
  <<which, cache, status, fresh, loggedIn, logins, waiting, raced, owner, events,
    message, promise, crossed, cached, mayRead, clock, data, kept, runs, queue, timer,
    logs, logPromises, loggingList, recorded, disturbed, calls, active, autoLog,
    excused, fetches, wanted, failed, last, missed, unheard, shown, requests, monitor,
    seen, lastEnded, webphone, pending, callStatus, auVars, prVars, clVars, chVars,
    cgVars, dmVars, wcVars, wsVars, caVars, coVars, inVars>>

TelephonySpec == TelephonyInit /\ [][TelephonyNext]_TelephonyVars

-----------------------------------------------------------------------------
(* What its module says of the component that runs. *)

TelephonyTypeOK ==
  /\ which = "AuthTabs" => Au!TypeOK
  /\ which = "Presence" => Pr!TypeOK
  /\ which = "CallLog" => Cl!TypeOK
  /\ which = "CallHistory" => Ch!TypeOK
  /\ which = "CallLogger" => Cg!TypeOK
  /\ which = "DataMatcher" => Dm!TypeOK
  /\ which = "WebphoneConnection" => Wc!TypeOK
  /\ which = "WebphoneSessions" => Ws!TypeOK
  /\ which = "Calling" => Ca!TypeOK
  /\ which = "Connection" => Co!TypeOK
  /\ which = "Injector" => In!TypeOK

\* Tabs that have read their events agree whether the user is logged in (modules/Auth).
TabsAgree == which = "AuthTabs" => Au!TabsAgree

\* The token of a tab that is logged in is the one the SDK sends (modules/Auth).
TokenIsTheSdks == which = "AuthTabs" => Au!TokenIsTheSdks

\* No tab is left logging in or out without the call that will end it (modules/Auth).
StatusHasCall == which = "AuthTabs" => Au!StatusHasCall

\* The presence shown is that of the user, and is there when the module is ready (modules/Presence).
OwnPresence == which = "Presence" => Pr!OwnPresence

\* The call log is complete up to its token (modules/CallLog); every call is active, ended or
\* in the log, and the matchers have been asked for it (modules/CallHistory); the newest version
\* of what is to be logged of it is, or is about to be (modules/CallLogger).
CallsRecorded ==
  /\ which = "CallLog" => Cl!LogComplete
  /\ which = "CallHistory" => Ch!CallsAccountedFor
  /\ which = "CallLogger" => Cg!CallsLogged

\* Every query that was asked for has its result, or somebody is to fetch it (lib/DataMatcher).
NoneForgotten == which = "DataMatcher" => Dm!NoneForgotten

\* A phone that is wanted is connected, or somebody is on the way to it; the calls shown are
\* those there are, and one at a time talks (modules/Webphone); calls are made as the settings
\* ask for, and these are what the user may have (modules/Call).
PhoneServes ==
  /\ which = "WebphoneConnection" => Wc!ConnectionServed
  /\ which = "WebphoneSessions" => Ws!CallsShown
  /\ which = "Calling" => Ca!CallsAsSet

\* The connection is watched whatever client is used (modules/ConnectivityMonitor, RateLimiter).
ConnectionWatched == which = "Connection" => Co!ConnectionWatched

\* Modules are made in the order of their dependencies, and a circle or a gap in these is told
\* (lib/di).
ModulesInjected == which = "Injector" => In!ModulesInjected
=============================================================================
