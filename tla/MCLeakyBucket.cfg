\* Two threads, a bucket of two tokens cut from nine, and a TTL.
SPECIFICATION Spec
CONSTANTS
    k1 = k1  k2 = k2  t1 = t1  t2 = t2  t3 = t3  r1 = r1  r2 = r2  r3 = r3
    NoRef = NoRef  NoTTL = NoTTL
    Key = {k1}
    Thread = {t1, t2}
    Ref = {r1, r2}
    SCALE = 2
    NANOS_PER_SEC = 4
    U64_MAX = 8
    MIN_WAIT = 0
    burst = 9
    rate = 9
    MAX_CAPACITY = 2
    MAX_LEAK_RATE = 2
    idle_ttl = 2
    Cost = {1}
    MaxTime = 3
SYMMETRY ThreadsAlike
INVARIANTS TypeOK DrainedAtTheRate RetryAfterSuffices
PROPERTIES IsTokenBucketUpsideDown
