SPECIFICATION FairSpec
CONSTANTS
  None = None
  MaxQueries = 1
  Reorder = FALSE
CHECK_DEADLOCK FALSE
INVARIANTS StopsOnlyRefused
