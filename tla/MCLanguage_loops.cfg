SPECIFICATION MachineSpec
CONSTANTS
  MaxLocals = 10
  STACK_MAX = 60
  FRAMES_MAX = 6
  MaxDepth = 6
  FreshBinding = TRUE
  Trees <- MCCaptured
  Programs <- MCPrograms
  Meanings <- MCMeanings
INVARIANT AgreesWithSource
CHECK_DEADLOCK FALSE
