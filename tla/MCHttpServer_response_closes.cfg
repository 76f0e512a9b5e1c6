\* A request with Connection: close.
SPECIFICATION Spec
CONSTANTS
    Conns = {c1}
    Timers = {t1}
    Nil = Nil
    Listener = Listener
    Stale = Stale
    MaxConns = 1
    MaxEvents = 1
    Timeouts = TRUE
    Requests = {"ka", "close"}
    MaxArrivals = 1
    MaxAsk = 1
    MaxOpenAsk = 2
CHECK_DEADLOCK FALSE
INVARIANT
    NoUseAfterResponse
