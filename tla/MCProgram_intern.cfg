SPECIFICATION ProgramSpec
CONSTANTS
  Functions = {"h", "t"}
  Natives = {"print"}
  Arity <- MCArity
  Channels = {"x", "y"}
  STACK_MAX = 40
  FRAMES_MAX = 4
  MaxSubscribers = 2
  MaxChannels = 1
  MaxRequests = 2
  MaxSteps = 3
  Strings = {"s", "u", "v"}
  Hash <- MCHash
  InitCapacity = 2
  MaxCapacity = 4
  MaxObjects = 4
  MaxPins = 1
  Clients = {"a"}
  max_tokens = 2
  refill_rate = 1
  CacheKeys = {"k"}
  Ttls = {1, 2}
  MaxTime = 3
  MaxCalls = 5
  SessionWorkers = {w1, w2}
  Visitors = {p, q}
  Secrets = {"s", "z"}
  Names = {"n"}
  Plain = {"v"}
  Structured = {"list"}
  Types = {"t"}
  MaxVisits = 3
  MaxActs = 4
INVARIANTS SearchesEnd
CHECK_DEADLOCK FALSE
