SPECIFICATION Spec
CONSTANTS
  h1 = h1
  h2 = h2
  t1 = t1
  t2 = t2
  a1 = a1
  a2 = a2
  a3 = a3
  a4 = a4
  m1 = m1
  m2 = m2
  NoSdp = NoSdp
  Hosts = {h1, h2}
  Terminals = {t1, t2}
  Homes = {m1, m2}
  HomeOf <- TwoHomes
  NSlots = 2
  Serials = {0, 1, 2}
  Addrs = {a1, a2, a3}
  Gens = {1}
  MaxOpened = 4
  MaxSession = 2
  MaxQueue = 1
  LifeDetection = FALSE
CHECK_DEADLOCK FALSE
SYMMETRY Symmetry
INVARIANTS TypeOK SessionOwned SingleHasSdp ReferenceWithinSdps PairedInHome
PROPERTIES DeregistrationEndsSession ReplacedAllocationGone LogoutFreesSlot
