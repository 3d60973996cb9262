CONSTANTS
  t1 = t1
  t2 = t2
  u1 = u1
  Tab = {t1, t2}
  User = {u1}
  Nobody = Nobody
  Null = Null
  CleanOnReset = FALSE
  MaxLogins = 2
  MaxEvents = 3
SPECIFICATION Spec
INVARIANT PollingGoesOn
CHECK_DEADLOCK FALSE
