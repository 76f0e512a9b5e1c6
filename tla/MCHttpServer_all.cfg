\* Two connections, every kind of client, timeouts on, batches of two events.
SPECIFICATION Spec
CONSTANTS
    Conns = {c1, c2}
    Timers = {t1, t2}
    Nil = Nil
    Listener = Listener
    Stale = Stale
    MaxConns = 2
    MaxEvents = 2
    Timeouts = TRUE
    Requests = {"ka", "close", "bad"}
    MaxArrivals = 2
    MaxAsk = 1
    MaxOpenAsk = 2
CHECK_DEADLOCK FALSE
SYMMETRY Symmetry
INVARIANTS
    TypeOK
    TimersBelong
    NoLostWakeup
PROPERTIES
    ClosedByOwnEvent
    StaleOnlyByTimeout
