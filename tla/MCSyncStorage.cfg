CONSTANTS
  t1 = t1
  t2 = t2
  k1 = k1
  k2 = k2
  u1 = u1
  u2 = u2
  Tab = {t1, t2}
  User = {u1, u2}
  Key = {k1, k2}
  Registered <- TwoVersions
  Nobody = Nobody
  Initial = Initial
  Undefined = Undefined
  Absent = Absent
  MaxChanges = 4
SPECIFICATION FairSpec
INVARIANTS TypeOK Converged UserIsolation
PROPERTIES NeverGoesBack Settles
CHECK_DEADLOCK FALSE
