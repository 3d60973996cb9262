CONSTANTS
  t1 = t1
  t2 = t2
  Tab = {t1, t2}
  NoTab = NoTab
  MaxPending = 1
  MaxFaults = 2
SPECIFICATION FairSpec
INVARIANTS TypeOK ActiveAgrees
PROPERTIES OnlyVisibleDeposes DeadMainReplaced AllTabsLearn
CHECK_DEADLOCK FALSE
