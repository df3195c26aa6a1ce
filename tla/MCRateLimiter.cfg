\* Two tasks, a token every 4 ns; calls begin up to LastCall, and late enough after
\* it for both to be served the clock stops.
SPECIFICATION FairSpec
CONSTANTS
    t1 = t1  t2 = t2
    Task = {t1, t2}
    Forever = Forever
    SCALE = 2  NANOS_PER_SEC = 8  U64_MAX = 1000  MIN_WAIT = 1
    requests_per_second = 2
    burst = 2
    Cost = {0, 1, 2}
    Timeouts = {0, 3, 9}
    POLL = 2
    Lateness = 1
    LastCall = 5
    MaxTime = 16
INVARIANTS TypeOK TimeoutIsKept NoSpinning NoOverWaiting
PROPERTIES EveryAcquireReturns
CHECK_DEADLOCK FALSE
