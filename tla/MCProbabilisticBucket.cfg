\* Two threads on one bucket of three tokens: no sampling, a lump of which the
\* bucket holds more than one, and a lump it cannot hold.  The tick wraps at six,
\* in the middle of a group of four.
SPECIFICATION Spec
CONSTANTS
    k1 = k1  t1 = t1  t2 = t2  t3 = t3  r1 = r1
    NoRef = NoRef  NoTTL = NoTTL
    Key = {k1}
    Thread = {t1, t2}
    Ref = {r1}
    SCALE = 1
    NANOS_PER_SEC = 2
    U64_MAX = 5
    I64_MAX = 100
    MIN_WAIT = 0
    burst = 3
    rate = 2
    MAX_BURST = 50
    MAX_RATE_PER_SEC = 50
    Cost = {1}
    MaxTime = 2
    SampleRate = {1, 2, 4}
    Phase = {0, 1}
SYMMETRY ThreadsAlike
INVARIANTS TypeOK DebtCarries NeverOverEstimated OverdraftBounded BurstOvershoot
    ExactWithoutSampling
