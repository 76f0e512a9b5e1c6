SPECIFICATION ProcessesSpec
CONSTANTS
  Workers = {w1, w2}
  Names = {n1}
  MaxHandlers = 1
  Nil = Nil
  MaxJobs = 2
  MaxTime = 1
  MaxFaults = 1
  N = 2
  Pids = {11, 12}
  RapidLimit = 2
  MaxForkFails = 1
  Dirs = {"r", "a", "b", "c"}
  Root = "r"
  Parent <- MCParent
  Children = {1, 2}
  MAX_WATCHES = 3
  MaxChanges = 2
  Processes = {p, q}
  MaxMigrations = 3
  DbWorkers = {w1, w2}
  MaxWrites = 3
  MaxTransactions = 2
INVARIANTS RunOnce InOrder CompletedHasSucceeded
  NoWorkerLeft OnlyWorkersKilled OneApp AppliedOnce AppliedInOrder TransactionsSerial
PROPERTIES JobsTried RestartPolicy CommandEnds ChangesRestart
CHECK_DEADLOCK FALSE
