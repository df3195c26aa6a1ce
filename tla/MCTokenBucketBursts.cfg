\* Two threads on one key.  burst and rate are cut to the maxima; a cost of 4 is
\* 8 scaled, which saturates at U64_MAX.  A token takes 2 ns.
SPECIFICATION BurstSpec
CONSTANTS
    k1 = k1  k2 = k2  t1 = t1  t2 = t2  t3 = t3  r1 = r1  r2 = r2  r3 = r3
    NoRef = NoRef  NoTTL = NoTTL
    Key = {k1}
    Thread = {t1, t2}
    Ref = {r1, r2}
    SCALE = 2
    NANOS_PER_SEC = 4
    U64_MAX = 7
    MIN_WAIT = 0
    burst = 9
    rate = 9
    MAX_BURST = 1
    MAX_RATE_PER_SEC = 2
    idle_ttl = NoTTL
    NUM_SHARDS = 1
    get_shard_index <- OneShard
    Cost = {0, 1, 4}
    MaxTime = 6
SYMMETRY ThreadsAndBucketsAlike
INVARIANTS TypeOK NoDoubleCredit Budget Ledger RefillCaughtUp OneBucketPerKey BurstIsBounded
PROPERTIES TimestampNeverMovesBack ImplementsLedger
