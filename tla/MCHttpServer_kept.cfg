\* One connection at a time, a client that may fall silent and one after it,
\* pipelined requests of every kind; no symmetry, for liveness.
SPECIFICATION FairSpec
CONSTANTS
    Conns = {c1}
    Timers = {t1}
    Nil = Nil
    Listener = Listener
    Stale = Stale
    MaxConns = 2
    MaxEvents = 2
    Timeouts = TRUE
    Requests = {"ka", "close", "bad"}
    MaxArrivals = 2
    MaxAsk = 2
    MaxOpenAsk = 2
CHECK_DEADLOCK FALSE
INVARIANT
    NoRequestLost
PROPERTIES
    
    KeepsPromise
    SilentConnectionCloses
