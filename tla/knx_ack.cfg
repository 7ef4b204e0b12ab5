SPECIFICATION Spec
CONSTANTS
  r1 = r1
  r2 = r2
  r3 = r3
  None = None
  Requests = {r1, r2, r3}
  Writes = {r1}
  MaxList = 1
  ClearCount = 2
  Width = 3
  MaxLosses = 1
  Spurious = FALSE
CHECK_DEADLOCK FALSE
INVARIANTS DoneIsExecuted
