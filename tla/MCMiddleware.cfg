\* Two connections and a client, a token every half second, the unit of the clock.
SPECIFICATION Spec
CONSTANTS
    c1 = c1  c2 = c2  a = a  p = p  m = m 
    Conn = {c1, c2}
    Client = {a, p}
    Method = {m}
    User = {m}
    Blank = Blank  Absent = Absent
    Request <- Requests
    HttpLayer <- HttpLayers
    GrpcLayer <- GrpcLayers
    SCALE = 1  NANOS_PER_SEC = 2  U64_MAX = 1000  MIN_WAIT = 0
    requests_per_second = 2
    burst = 2
    MaxTime = 3
SYMMETRY ConnectionsAlike
INVARIANTS TypeOK ClientBudget RetryAfterIsKept QuotaHeadersAreKept
CHECK_DEADLOCK FALSE
