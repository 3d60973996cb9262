CONSTANTS
  t1 = t1
  t2 = t2
  u1 = u1
  u2 = u2
  Tab = {t1, t2}
  User = {u1, u2}
  Nobody = Nobody
  Null = Null
  CleanOnReset = FALSE
  MaxLogins = 3
  MaxEvents = 2
SPECIFICATION FairSpec
INVARIANTS TypeOK RightOwner ReadyHasData
PROPERTY EventuallyReady
CHECK_DEADLOCK FALSE
