SPECIFICATION Spec
CONSTANTS
  Keys = {0, 1, 2, 3, 4, 5, 6, 7}
  Values = {v1}
  Nil = Nil
  Empty = Empty
  Tombstone = Tombstone
  Hash <- HashIsName
  MinCapacity = 8
  MaxCapacity = 8
  MaxLoops = 0
INVARIANT ProbingEnds
CHECK_DEADLOCK FALSE
