----------------------------- MODULE RefillMath -----------------------------
(***************************************************************************)
(* The integer arithmetic every bucket shares (src/algorithm/internal.rs): *)
(* how many scaled tokens an interval is worth, how many nanoseconds a     *)
(* number of scaled tokens stands for, and the Duration fields of a        *)
(* decision.  An instant and a Duration are a number of nanoseconds.       *)
(*                                                                         *)
(* The products of the source are computed in u128, which holds the        *)
(* product of any two u64: they are exact here.  What narrows to u64 is    *)
(* cut at U64_MAX, as the source cuts it.                                  *)
(***************************************************************************)
EXTENDS Integers

CONSTANTS
    SCALE,          \* scaled units in one token (1000 in the source)
    NANOS_PER_SEC,  \* 10^9 in the source; small when TLC runs
    U64_MAX,        \* 2^64 - 1 in the source
    MIN_WAIT        \* the floor of a wait: 1 ms, in nanoseconds

ASSUME MathAssumption ==
    /\ SCALE \in Nat \ {0}
    /\ NANOS_PER_SEC \in Nat \ {0}
    /\ U64_MAX \in Nat \ {0}
    /\ MIN_WAIT \in Nat

u64 == 0..U64_MAX

MinOf(a, b) == IF a <= b THEN a ELSE b
MaxOf(a, b) == IF a >= b THEN a ELSE b

saturating_sub(a, b) == IF a >= b THEN a - b ELSE 0
saturating_add(a, b) == MinOf(a + b, U64_MAX)
\* Mutant: the product wraps.
wrapping_mul(a, b) == (a * b) % (U64_MAX + 1)

saturating_mul(a, b) == MinOf(a * b, U64_MAX)

-----------------------------------------------------------------------------

\* Mutant: rounded up.
refill_tokens_ceil(elapsed_nanos, rate_scaled) ==
    MinOf((elapsed_nanos * rate_scaled + NANOS_PER_SEC - 1) \div NANOS_PER_SEC, U64_MAX)

\* Scaled tokens accrued over elapsed_nanos at rate_scaled per second.
refill_tokens(elapsed_nanos, rate_scaled) ==
    MinOf((elapsed_nanos * rate_scaled) \div NANOS_PER_SEC, U64_MAX)

\* Mutant: rounded up.
nanos_for_tokens_ceil(added, rate_scaled) ==
    IF rate_scaled = 0
    THEN 0
    ELSE MinOf((added * NANOS_PER_SEC + rate_scaled - 1) \div rate_scaled, U64_MAX)

\* Nanoseconds that `added' scaled tokens account for.  Rounded down.
nanos_for_tokens(added, rate_scaled) ==
    IF rate_scaled = 0
    THEN 0
    ELSE MinOf((added * NANOS_PER_SEC) \div rate_scaled, U64_MAX)

-----------------------------------------------------------------------------

\* No Duration: an Option that is None.
None == -1

\* The nearest integer to a/b: Duration::from_secs_f64 rounds to the nearest
\* nanosecond.  (The rounding of f64 itself, below 2^-53, is left out.)
RoundedQuotient(a, b) == (2 * a + b) \div (2 * b)

\* Mutants: the wait in whole seconds, cut off or rounded up.
wait_whole_seconds(tokens_needed, rate_per_second) ==
    IF rate_per_second = 0
    THEN NANOS_PER_SEC
    ELSE (tokens_needed \div rate_per_second) * NANOS_PER_SEC

wait_ceil_seconds(tokens_needed, rate_per_second) ==
    IF rate_per_second = 0
    THEN NANOS_PER_SEC
    ELSE ((tokens_needed + rate_per_second - 1) \div rate_per_second) * NANOS_PER_SEC

wait_for_tokens(tokens_needed, rate_per_second) ==
    IF rate_per_second = 0
    THEN NANOS_PER_SEC
    ELSE MaxOf(RoundedQuotient(tokens_needed * NANOS_PER_SEC, rate_per_second),
               MIN_WAIT)

\* Mutant: a bucket that never fills reports the wait of wait_for_tokens.
time_until_full_always(missing, rate_per_second) ==
    IF missing = 0 THEN 0 ELSE wait_for_tokens(missing, rate_per_second)

time_until_full(missing, rate_per_second) ==
    IF rate_per_second = 0 THEN None
    ELSE IF missing = 0 THEN 0
    ELSE wait_for_tokens(missing, rate_per_second)

\* Mutant: rounded down.
http_seconds_floor(d) == d \div NANOS_PER_SEC

\* Whole seconds for a Retry-After or RateLimit-Reset header, rounded up.
http_seconds_ceil(d) == (d + NANOS_PER_SEC - 1) \div NANOS_PER_SEC

token_decision(permitted, remaining, limit, rate_per_second, cost) ==
    [permitted   |-> permitted,
     retry_after |-> IF permitted
                     THEN None
                     ELSE wait_for_tokens(saturating_sub(cost, remaining),
                                          rate_per_second),
     remaining   |-> remaining,
     limit       |-> limit,
     reset       |-> time_until_full(saturating_sub(limit, remaining),
                                     rate_per_second)]

zero_cost_decision(limit) ==
    [permitted |-> FALSE, retry_after |-> None, remaining |-> None,
     limit |-> limit, reset |-> None]
=============================================================================
