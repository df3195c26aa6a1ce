------------------------------ MODULE Limiter ------------------------------
(***************************************************************************)
(* What RateLimiter (src/limiter.rs) and the TokenBucket behind it do to   *)
(* the bucket of one key in one whole check, as functions of the bucket,   *)
(* the time and the cost.  TokenBucket takes a check apart into its atomic *)
(* steps; the modules that build on this one have callers that do not      *)
(* meet inside a check.                                                    *)
(***************************************************************************)
EXTENDS RefillMath

CONSTANTS requests_per_second, burst

\* RateLimiterConfig::validate.
validate(config) ==
    /\ config.requests_per_second # 0
    /\ config.burst # 0
    /\ config.burst >= config.requests_per_second

\* RateLimiterBuilder::build and RateLimiter::new make a limiter of this builder.
Builds(builder) ==
    /\ builder.requests_per_second # None
    /\ builder.burst # None
    /\ validate(builder)

ASSUME LimiterAssumption ==
    /\ requests_per_second \in Nat /\ burst \in Nat
    /\ 2 * SCALE * burst <= U64_MAX
    /\ Builds([requests_per_second |-> requests_per_second, burst |-> burst])

scaled_capacity == saturating_mul(burst, SCALE)
rate_scaled     == saturating_mul(requests_per_second, SCALE)

\* A key the map does not have.
NoBucket == [tokens |-> None, last_refill |-> None]
Bucket   == [tokens : 0..scaled_capacity, last_refill : Nat]

\* get, or try_insert of a full bucket dated now.
found(bucket, now) ==
    IF bucket = NoBucket THEN [tokens |-> scaled_capacity, last_refill |-> now] ELSE bucket

accrued(bucket, now) ==
    refill_tokens(saturating_sub(now, bucket.last_refill), rate_scaled)

\* Mutant: more than the capacity.
apply_refill_uncapped(bucket, now) ==
    [tokens      |-> bucket.tokens + accrued(bucket, now),
     last_refill |-> saturating_add(bucket.last_refill,
                                    nanos_for_tokens(accrued(bucket, now), rate_scaled))]

\* Mutant: a bucket short of a token forgets what it was credited, not the time.
apply_refill_forgetting(bucket, now) ==
    [tokens      |-> IF bucket.tokens + accrued(bucket, now) < SCALE
                     THEN bucket.tokens
                     ELSE MinOf(bucket.tokens + accrued(bucket, now), scaled_capacity),
     last_refill |-> saturating_add(bucket.last_refill,
                                    nanos_for_tokens(accrued(bucket, now), rate_scaled))]

\* claim what has accrued, and credit it up to the capacity.
apply_refill(bucket, now) ==
    [tokens      |-> IF bucket.tokens >= scaled_capacity
                     THEN bucket.tokens
                     ELSE MinOf(saturating_add(bucket.tokens, accrued(bucket, now)), scaled_capacity),
     last_refill |-> saturating_add(bucket.last_refill,
                                    nanos_for_tokens(accrued(bucket, now), rate_scaled))]

refilled(bucket, now) == apply_refill(found(bucket, now), now)
token_cost(cost)      == saturating_mul(cost, SCALE)

\* Mutant: the cost is not scaled.
permits_unscaled(ready, cost) == cost # 0 /\ ready.tokens >= cost

\* What becomes of a bucket that has been refilled and is asked for cost tokens.
permits(ready, cost) == cost # 0 /\ ready.tokens >= token_cost(cost)

taken(ready, cost) ==
    IF permits(ready, cost) THEN [ready EXCEPT !.tokens = @ - token_cost(cost)] ELSE ready

\* The bucket that check_with_cost leaves behind.
checked(bucket, now, cost) ==
    IF cost = 0 THEN bucket ELSE taken(refilled(bucket, now), cost)

\* Mutant: remaining counts the token that the request takes.
decision_before(ready, cost) ==
    token_decision(permits(ready, cost), ready.tokens \div SCALE,
                   burst, requests_per_second, cost)

\* The decision it returns.
decision(ready, cost) ==
    IF cost = 0
    THEN zero_cost_decision(burst)
    ELSE token_decision(permits(ready, cost), taken(ready, cost).tokens \div SCALE,
                        burst, requests_per_second, cost)
=============================================================================
