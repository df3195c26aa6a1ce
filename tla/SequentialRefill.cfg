\* Exact rates (1, 2, 5, 10 scaled by 4) and inexact ones (3, 7), one above a
\* token per nanosecond (15), and a rate of zero.
SPECIFICATION Spec
CONSTANTS
    SCALE = 4  NANOS_PER_SEC = 40  U64_MAX = 100000  MIN_WAIT = 1
    Rates = {0, 1, 2, 3, 5, 7, 10, 15}
    MaxTokens = 12
    MaxTime = 14
    MaxRefills = 14
INVARIANTS PollingLosesNothing PollingGainsLittle WaitIsToTheNanosecond HeaderCoversWait ResetFillsTheBucket
CHECK_DEADLOCK FALSE
