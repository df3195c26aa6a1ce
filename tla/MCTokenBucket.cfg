\* Liveness: two threads on one key, some of whose calls sweep; a TTL of 1 ns.
SPECIFICATION FairSpec
CONSTANTS
    k1 = k1  k2 = k2  t1 = t1  t2 = t2  t3 = t3  r1 = r1  r2 = r2  r3 = r3
    NoRef = NoRef  NoTTL = NoTTL
    Key = {k1}
    Thread = {t1, t2}
    Ref = {r1, r2}
    SCALE = 2
    NANOS_PER_SEC = 4
    U64_MAX = 1000
    MIN_WAIT = 0
    burst = 1
    rate = 2
    MAX_BURST = 100
    MAX_RATE_PER_SEC = 100
    idle_ttl = 1
    NUM_SHARDS = 1
    get_shard_index <- OneShard
    Cost = {1}
    MaxTime = 2
PROPERTIES EveryCallReturns
