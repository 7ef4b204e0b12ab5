SPECIFICATION FairSpec
CONSTANTS
  a1 = a1
  a2 = a2
  c1 = c1
  c2 = c2
  w1 = w1
  w2 = w2
  LogoutThread = LogoutThread
  NoAlloc = NoAlloc
  Workers = {w1, w2}
  MaxPackets = 2
  Clients = {c1}
  Allocs = {a1}
CHECK_DEADLOCK FALSE
PROPERTIES LifeSpec
