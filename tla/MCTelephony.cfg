CONSTANTS
  o1 = o1
  o2 = o2
  t1 = t1
  t2 = t2
  k1 = k1
  k2 = k2
  s1 = s1
  s2 = s2
  s3 = s3
  a1 = a1
  a2 = a2
  q1 = q1
  q2 = q2
  q3 = q3
  Owner = {o1, o2}
  none = none
  AuTab = {t1, t2}
  AuMaxLogins = 2
  AuMaxEvents = 3
  PrMaxLogins = 2
  PrMaxVersions = 2
  PrMaxEvents = 2
  ClCall = {k1, k2}
  ClOld = {k1}
  ClRecordCount = 1
  ClPolling = TRUE
  ClMaxLogins = 2
  ClMaxChanges = 2
  ClMaxEvents = 1
  ChSession = {a1, a2}
  ChRingOut <- Legs
  ChMaxChanges = 4
  CgThing = {"c"}
  CgMaxEvents = 3
  DmQuery = {q1, q2, q3}
  DmMaxAsks = 3
  DmMaxEvents = 3
  WcMaxUnderWay = 2
  WcMaxEvents = 9
  WsSession = {s1, s2, s3}
  WsMaxEnded = 2
  WsMaxEvents = 1
  CaMyNumber = {"m1"}
  CaOtherNumber = {"f1"}
  CaMaxEvents = 5
  CoServer = {"s1"}
  CoSdkServer = "sdk"
  CoMaxChecks = 2
  CoMaxEvents = 5
  InTokens = 3
  InBase <- Inherited
  InMaxRetries = 1
SPECIFICATION TelephonySpec
SYMMETRY Symmetry
INVARIANTS TelephonyTypeOK TabsAgree TokenIsTheSdks StatusHasCall OwnPresence CallsRecorded NoneForgotten PhoneServes ConnectionWatched ModulesInjected
CHECK_DEADLOCK FALSE
