CONSTANTS
  u1 = u1
  u2 = u2
  f1 = f1
  f2 = f2
  User = {u1, u2}
  Filter = {f1, f2}
  Nobody = Nobody
  MaxLogins = 3
  MaxEvents = 4
SPECIFICATION FairSpec
INVARIANTS TypeOK OneListener OwnMessages
PROPERTY FiltersRegistered
CHECK_DEADLOCK FALSE
