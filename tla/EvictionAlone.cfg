\* One thread, two keys in two shards; the TTL is the time an empty bucket takes
\* to fill.
SPECIFICATION BusySpec
CONSTANTS
    k1 = k1  k2 = k2  t1 = t1  t2 = t2  t3 = t3  r1 = r1  r2 = r2  r3 = r3
    NoRef = NoRef  NoTTL = NoTTL
    Key = {k1, k2}
    Thread = {t1}
    Ref = {r1, r2, r3}
    SCALE = 2
    NANOS_PER_SEC = 2
    U64_MAX = 1000
    MIN_WAIT = 0
    burst = 1
    rate = 1
    MAX_BURST = 100
    MAX_RATE_PER_SEC = 100
    idle_ttl = 2
    NUM_SHARDS = 2
    get_shard_index <- ShardEach
    Cost = {1}
    MaxTime = 3
INVARIANTS KeyBudget
PROPERTIES EvictedWasIdle IdleKeysAreEvicted ImplementsWholeChecks
