\* Two limiters that cache, asked for the same name.
SPECIFICATION Spec
CONSTANTS
    lim1 = lim1  lim2 = lim2  n1 = n1  n2 = n2  t1 = t1  t2 = t2  r1 = r1  r2 = r2  r3 = r3  r4 = r4
    NoRef = NoRef  NoTTL = NoTTL
    Limiter = {lim1, lim2}
    Name = {n1, n2}
    Key <- Namesakes
    Evicting = {}
    Thread = {t1, t2}
    Ref = {r1, r2}
    SCALE = 1  NANOS_PER_SEC = 2  U64_MAX = 1000  MIN_WAIT = 0
    burst = 1
    rate = 2
    MAX_BURST = 100
    MAX_RATE_PER_SEC = 100
    idle_ttl = NoTTL
    Cost = {1}
    HOT = 0
    MaxTime = 1
SYMMETRY ThreadsAndBucketsAlike
INVARIANTS OneBucketPerKey
