CONSTANTS
  c1 = c1
  a1 = a1
  a2 = a2
  Client = {c1}
  Action = {a1, a2}
  MaxActions = 2
  MaxCalls = 1
  MaxSwitch = 2
  MaxTimeout = 1
SPECIFICATION FairSpec
INVARIANTS TypeOK ReadsOwnWrites
PROPERTIES ImplementsReplica PushCatchesUp
CHECK_DEADLOCK FALSE
