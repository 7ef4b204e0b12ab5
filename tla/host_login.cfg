SPECIFICATION FairSpec
CONSTANTS
  None = None
  MaxQueries = 2
  Reorder = TRUE
CHECK_DEADLOCK FALSE
INVARIANTS TypeOK QuietIsAgreed
PROPERTIES LoginEnds
