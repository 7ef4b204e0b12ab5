SPECIFICATION FairSpec
CONSTANTS
  r1 = r1
  r2 = r2
  r3 = r3
  Nothing = Nothing
  Reports = {r1, r2, r3}
  MaxWaiting = 3
CHECK_DEADLOCK FALSE
INVARIANTS TypeOK SleepsOnNothing
PROPERTIES TakesReports FifoSpec
