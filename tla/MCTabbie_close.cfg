CONSTANTS
  t1 = t1
  t2 = t2
  t3 = t3
  Tab = {t1, t2, t3}
  NoTab = NoTab
  MaxPending = 1
  MaxFaults = 1
SPECIFICATION FairSpec
PROPERTY ClosedMainReplaced
CHECK_DEADLOCK FALSE
