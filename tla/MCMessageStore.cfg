CONSTANTS
  t1 = t1
  t2 = t2
  m1 = m1
  m2 = m2
  c1 = c1
  Tab = {t1, t2}
  Message = {m1, m2}
  Of <- MCOf
  All = All
  None = None
  BatchSize = 1
  Polling = FALSE
  MaxChanges = 1
  MaxSessions = 2
  MaxCalls = 1
  MaxEvents = 1
SPECIFICATION Spec
CONSTRAINT Orderly
SYMMETRY Symmetry
INVARIANTS TypeOK NothingLostForGood NothingMissed
CHECK_DEADLOCK FALSE
