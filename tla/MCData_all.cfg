SPECIFICATION DataSpec
CONSTANTS
  Keys = {0, 7, 8, 15}
  Values = {v1, v2}
  Nil = Nil
  Empty = Empty
  Tombstone = Tombstone
  Hash <- HashIsName
  MinCapacity = 4
  MaxCapacity = 8
  MaxLoops = 1
  Uint32 = 100
  MaxChildren = 3
  MaxParams = 2
  MaxSegment = 2
  MaxStrings = 9
  MaxConstants = 3
  MaxFunctions = 2
  MaxAssets = 2
  MaxBlock = 3
  MAX_COLUMNS = 3
  Exceptions <- MCExceptions
  MaxLocals = 10
  STACK_MAX = 60
  FRAMES_MAX = 6
  MaxDepth = 6
  FreshBinding = FALSE
  Trees <- MCTrees
  Programs <- MCPrograms
  Meanings <- MCMeanings
INVARIANTS EntriesReachable LoopVisitsOnce MethodsAgree ReadBack ExchangeKept AgreesWithSource
SYMMETRY Symmetry
CHECK_DEADLOCK FALSE
PROPERTIES KeepsContents LocalsInTheirSlots
