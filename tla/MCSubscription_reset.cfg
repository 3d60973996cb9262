CONSTANTS
  u1 = u1
  u2 = u2
  f1 = f1
  f2 = f2
  User = {u1, u2}
  Filter = {f1, f2}
  Nobody = Nobody
  MaxLogins = 2
  MaxEvents = 3
SPECIFICATION Spec
INVARIANT StopsWhenLoggedOut
CHECK_DEADLOCK FALSE
