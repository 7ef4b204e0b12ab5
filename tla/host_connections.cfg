SPECIFICATION FairSpec
CONSTANTS
  s1 = s1
  s2 = s2
  Sdps = {s1, s2}
  None = None
  Clients = 3
  OuterClients = 2
CHECK_DEADLOCK FALSE
INVARIANTS TypeOK PointersFollowObjects TalksToTheLast AwaitedComes
PROPERTIES ServerGoneExits DestroyedIsRestarted
