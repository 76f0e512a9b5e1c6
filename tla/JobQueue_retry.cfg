SPECIFICATION FairSpec
CONSTANTS
  Workers = {w1}
  Names = {n1}
  MaxHandlers = 1
  Nil = Nil
  MaxJobs = 1
  MaxTime = 1
  MaxFaults = 0
PROPERTY FailedAreRetried
CHECK_DEADLOCK FALSE
