SPECIFICATION FairSpec
CONSTANTS
  h1 = h1
  h2 = h2
  t1 = t1
  t2 = t2
  a1 = a1
  a2 = a2
  a3 = a3
  a4 = a4
  m1 = m1
  m2 = m2
  NoSdp = NoSdp
  Hosts = {h1}
  Terminals = {t1}
  Homes = {m1}
  HomeOf <- OneHome
  NSlots = 2
  Serials = {0, 1}
  Addrs = {a1, a2}
  Gens = {1}
  MaxOpened = 2
  MaxSession = 2
  MaxQueue = 2
  LifeDetection = TRUE
CHECK_DEADLOCK FALSE

PROPERTIES QueuedIsLoggedOut SilentIsLoggedOut
