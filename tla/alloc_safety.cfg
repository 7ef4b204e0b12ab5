SPECIFICATION Spec
CONSTANTS
  a1 = a1
  a2 = a2
  c1 = c1
  c2 = c2
  w1 = w1
  w2 = w2
  LogoutThread = LogoutThread
  NoAlloc = NoAlloc
  Workers = {w1, w2}
  MaxPackets = 2
  Clients = {c1}
  Allocs = {a1, a2}
SYMMETRY Symmetry
CHECK_DEADLOCK FALSE
INVARIANTS TypeOK LookUpsFindLive NeverForgotten
PROPERTIES LifeSteps
