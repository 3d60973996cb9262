CONSTANTS
  None = none
  Session = {s1, s2}
  MaxEnded = 5
  MaxEvents = 1
SPECIFICATION Spec
INVARIANT RepliedShown
CHECK_DEADLOCK FALSE
