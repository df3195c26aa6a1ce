----------------------------- MODULE LimiterProofs -----------------------------
(***************************************************************************)
(* What a whole check does to a bucket, for every capacity, rate and time: *)
(* the facts that the theorems about the limiter's callers need.           *)
(***************************************************************************)
EXTENDS Limiter, RefillMathProofs

-----------------------------------------------------------------------------
(***************************************************************************)
(* The bucket of one key                                                   *)
(***************************************************************************)

\* A configuration that build() accepts is scaled without saturation.
LEMMA LimiterConstants ==
    /\ requests_per_second \in Nat \ {0} /\ burst \in Nat \ {0}
    /\ scaled_capacity = burst * SCALE /\ scaled_capacity \in Nat
    /\ SCALE <= scaled_capacity /\ scaled_capacity < U64_MAX
    /\ rate_scaled = requests_per_second * SCALE /\ rate_scaled \in Nat
<1>1. /\ requests_per_second \in Nat \ {0} /\ burst \in Nat \ {0}
      /\ requests_per_second <= burst
  BY LimiterAssumption DEF Builds, validate
<1>2. SCALE \in Nat \ {0} /\ U64_MAX \in Nat
  BY MathAssumption
<1>3. burst * SCALE \in Nat /\ 1 * SCALE <= burst * SCALE
  BY <1>1, <1>2, KeepFactor
<1>4. 2 * (burst * SCALE) <= U64_MAX
  <2>1. 2 * SCALE * burst = 2 * (burst * SCALE)
    BY <1>1, <1>2
  <2> QED BY <2>1, LimiterAssumption
<1>5. /\ requests_per_second * SCALE \in Nat
      /\ requests_per_second * SCALE <= burst * SCALE
  BY <1>1, <1>2, KeepFactor
<1> QED
  BY <1>1, <1>2, <1>3, <1>4, <1>5 DEF scaled_capacity, rate_scaled, saturating_mul, MinOf

\* A bucket is dated no later than now.
Dated(b, now) == b = NoBucket \/ b.last_refill <= now

\* A bucket that is found, or made, is one.
LEMMA FoundIsBucket ==
    ASSUME NEW b \in Bucket \cup {NoBucket}, NEW now \in Nat, Dated(b, now)
    PROVE  found(b, now) \in Bucket /\ found(b, now).last_refill <= now
  BY LimiterConstants DEF found, Bucket, Dated

\* A refill keeps the bucket within its capacity and its date in the past.  It
\* adds what has accrued, up to the capacity.
LEMMA RefillsBucket ==
    ASSUME NEW b \in Bucket, NEW now \in u64, b.last_refill <= now
    PROVE  /\ apply_refill(b, now) \in Bucket
           /\ apply_refill(b, now).tokens = MinOf(b.tokens + accrued(b, now), scaled_capacity)
           /\ apply_refill(b, now).last_refill =
                 b.last_refill + nanos_for_tokens(accrued(b, now), rate_scaled)
           /\ apply_refill(b, now).last_refill <= now
           /\ accrued(b, now) \in Nat
<1> DEFINE e == saturating_sub(now, b.last_refill)
           a == accrued(b, now)
           n == nanos_for_tokens(a, rate_scaled)
<1>1. /\ now \in Nat /\ now \in Int /\ now <= U64_MAX /\ U64_MAX \in Nat
      /\ b.tokens \in 0..scaled_capacity /\ b.last_refill \in Nat
  BY MathAssumption DEF u64, Bucket
<1>2. e \in Nat /\ a = refill_tokens(e, rate_scaled)
  BY <1>1 DEF saturating_sub, accrued
<1>3. a \in Nat /\ n \in Nat /\ n <= e
  BY <1>2, LimiterConstants, ClaimedWithinElapsed
<1> HIDE DEF a, n
<1>4. /\ saturating_add(b.last_refill, n) = b.last_refill + n
      /\ b.last_refill + n <= now
  <2> DEFINE last == b.last_refill
  <2>1. last \in Nat /\ last <= now /\ now <= now
    BY <1>1
  <2>2. n <= saturating_sub(now, last)
    BY <1>3
  <2> HIDE DEF last
  <2>3. saturating_add(last, n) = last + n /\ last + n <= now
    BY <1>1, <1>3, <2>1, <2>2, ClaimStaysInThePast
  <2> QED BY <2>3 DEF last
<1>5. (IF b.tokens >= scaled_capacity
       THEN b.tokens
       ELSE MinOf(saturating_add(b.tokens, a), scaled_capacity))
      = MinOf(b.tokens + a, scaled_capacity)
  <2>1. CASE b.tokens >= scaled_capacity
    BY <1>1, <1>3, <2>1, LimiterConstants DEF MinOf
  <2>2. CASE ~(b.tokens >= scaled_capacity)
    <3>1. \A x \in Nat : MinOf(MinOf(x, U64_MAX), scaled_capacity) = MinOf(x, scaled_capacity)
      BY <1>1, LimiterConstants DEF MinOf
    <3> QED BY <1>1, <1>3, <2>2, <3>1 DEF saturating_add
  <2> QED BY <2>1, <2>2
<1>6. MinOf(b.tokens + a, scaled_capacity) \in 0..scaled_capacity
  BY <1>1, <1>3, LimiterConstants DEF MinOf
<1>7. apply_refill(b, now) = [tokens |-> MinOf(b.tokens + a, scaled_capacity),
                              last_refill |-> b.last_refill + n]
  BY <1>4, <1>5 DEF apply_refill, a, n
<1> QED BY <1>1, <1>3, <1>4, <1>6, <1>7 DEF Bucket, a, n

\* What a check makes of a bucket.
LEMMA RefilledIsBucket ==
    ASSUME NEW b \in Bucket \cup {NoBucket}, NEW now \in u64, Dated(b, now)
    PROVE  /\ refilled(b, now) \in Bucket
           /\ refilled(b, now).last_refill <= now
<1>1. now \in Nat
  BY MathAssumption DEF u64
<1>2. found(b, now) \in Bucket /\ found(b, now).last_refill <= now
  BY <1>1, FoundIsBucket
<1> QED BY <1>2, RefillsBucket DEF refilled

\* A request costs one token, which it takes if it is permitted.
LEMMA OneToken ==
    ASSUME NEW b \in Bucket
    PROVE  /\ token_cost(1) = SCALE
           /\ permits(b, 1) <=> b.tokens >= SCALE
           /\ taken(b, 1) \in Bucket
           /\ taken(b, 1).last_refill = b.last_refill
           /\ taken(b, 1).tokens = b.tokens - (IF permits(b, 1) THEN SCALE ELSE 0)
<1>1. token_cost(1) = SCALE /\ SCALE \in Nat
  BY LimiterConstants, MathAssumption DEF token_cost, saturating_mul, MinOf
<1>2. b.tokens \in 0..scaled_capacity /\ b.last_refill \in Nat
  BY DEF Bucket
<1>3. permits(b, 1) <=> b.tokens >= SCALE
  BY <1>1 DEF permits
<1>4. taken(b, 1) = IF permits(b, 1) THEN [b EXCEPT !.tokens = @ - SCALE] ELSE b
  BY <1>1 DEF taken
<1> QED BY <1>1, <1>2, <1>3, <1>4, LimiterConstants DEF Bucket

-----------------------------------------------------------------------------
(***************************************************************************)
(* What time does to a bucket                                              *)
(***************************************************************************)

\* A bucket that has been left alone for a while holds, when it is refilled, what
\* it held and whatever that while is worth.
LEMMA RefilledSince ==
    ASSUME NEW b \in Bucket, NEW now \in u64, NEW at \in Nat, NEW while \in Nat,
           b.last_refill <= at, at + while <= now,
           NEW a \in Nat, a <= refill_tokens(while, rate_scaled)
    PROVE  /\ refilled(b, now).tokens \in 0..scaled_capacity
           /\ refilled(b, now).tokens >= MinOf(b.tokens + a, scaled_capacity)
<1> DEFINE e == saturating_sub(now, b.last_refill)
           full == refilled(b, now)
<1>1. /\ now \in Nat /\ b.last_refill \in Nat /\ b.last_refill <= now
      /\ b.tokens \in Nat /\ scaled_capacity \in Nat /\ rate_scaled \in Nat
  BY LimiterConstants, MathAssumption DEF Bucket, u64
<1>2. found(b, now) = b
  BY LimiterConstants DEF found, Bucket, NoBucket, None
<1>3. /\ full.tokens = MinOf(b.tokens + accrued(b, now), scaled_capacity)
      /\ full.tokens \in 0..scaled_capacity
      /\ accrued(b, now) \in Nat
  BY <1>1, <1>2, RefillsBucket DEF refilled, Bucket
<1>4. e \in Nat /\ while <= e
  BY <1>1 DEF saturating_sub
<1> HIDE DEF full, e
<1>5. refill_tokens(while, rate_scaled) \in Nat /\ refill_tokens(e, rate_scaled) \in Nat
  BY <1>1, <1>4, ClaimedWithinElapsed
<1>6. refill_tokens(while, rate_scaled) <= refill_tokens(e, rate_scaled)
  BY <1>1, <1>4, RefillMonotone
<1>7. accrued(b, now) = refill_tokens(e, rate_scaled)
  BY DEF accrued, e
<1>8. a <= accrued(b, now)
  BY <1>5, <1>6, <1>7
<1> QED BY <1>1, <1>3, <1>8 DEF MinOf, full

\* Whatever it is asked for, a bucket gets no fuller by it.
LEMMA TakenIsBucket ==
    ASSUME NEW b \in Bucket, NEW cost \in Nat
    PROVE  /\ taken(b, cost) \in Bucket
           /\ taken(b, cost).last_refill = b.last_refill
           /\ taken(b, cost).tokens <= b.tokens
<1>1. b.tokens \in 0..scaled_capacity /\ b.last_refill \in Nat /\ scaled_capacity \in Nat
  BY LimiterConstants DEF Bucket
<1>2. token_cost(cost) \in Nat
  BY MathAssumption DEF token_cost, saturating_mul, MinOf
<1>3. CASE permits(b, cost)
  <2>1. /\ b.tokens - token_cost(cost) \in 0..scaled_capacity
        /\ b.tokens - token_cost(cost) <= b.tokens
    BY <1>1, <1>2, <1>3 DEF permits
  <2>2. taken(b, cost) = [b EXCEPT !.tokens = b.tokens - token_cost(cost)]
    BY <1>3 DEF taken
  <2> QED BY <1>1, <2>1, <2>2 DEF Bucket
<1>4. CASE ~permits(b, cost)
  BY <1>1, <1>4 DEF taken
<1> QED BY <1>3, <1>4

\* A check leaves a bucket, or no bucket, dated no later than now.
LEMMA CheckedIsBucket ==
    ASSUME NEW b \in Bucket \cup {NoBucket}, NEW now \in u64, Dated(b, now), NEW cost \in Nat
    PROVE  checked(b, now, cost) \in Bucket \cup {NoBucket} /\ Dated(checked(b, now, cost), now)
<1>1. refilled(b, now) \in Bucket /\ refilled(b, now).last_refill <= now
  BY RefilledIsBucket
<1>2. /\ taken(refilled(b, now), cost) \in Bucket
      /\ taken(refilled(b, now), cost).last_refill <= now
  BY <1>1, TakenIsBucket
<1> QED BY <1>2 DEF checked, Dated

\* What a bucket will hold at a later instant is no more for its having been
\* refilled before, at an exact rate.
LEMMA RefillForeseen ==
    ASSUME Exact(rate_scaled), NEW b \in Bucket, NEW now \in u64, NEW then \in Nat,
           b.last_refill <= now, now <= then, accrued(b, then) < U64_MAX
    PROVE  refilled(b, now).tokens + accrued(refilled(b, now), then)
              <= b.tokens + accrued(b, then)
<1> DEFINE full == refilled(b, now)
           last == b.last_refill
           e    == saturating_sub(now, last)
           f    == saturating_sub(then, last)
           a    == accrued(b, now)
           n    == nanos_for_tokens(a, rate_scaled)
<1>1. now \in Nat /\ last \in Nat /\ b.tokens \in Nat /\ rate_scaled \in Nat /\ scaled_capacity \in Nat
  BY LimiterConstants, MathAssumption DEF u64, Bucket
<1>2. found(b, now) = b
  BY LimiterConstants DEF found, Bucket, NoBucket, None
<1>3. /\ full \in Bucket
      /\ full.tokens = MinOf(b.tokens + a, scaled_capacity)
      /\ full.last_refill = last + n
      /\ a \in Nat
  BY <1>2, RefillsBucket DEF refilled
<1>4. /\ e \in Nat /\ e = now - last
      /\ f \in Nat /\ f = then - last
      /\ e \in u64 /\ e <= f
  BY <1>1, MathAssumption DEF saturating_sub, u64
<1>5. a = refill_tokens(e, rate_scaled) /\ accrued(b, then) = refill_tokens(f, rate_scaled)
  BY DEF accrued
<1> HIDE DEF a
<1>6. rate_scaled * n = NANOS_PER_SEC * a /\ n \in Nat /\ n <= e
  <2> HIDE DEF e
  <2> QED BY <1>1, <1>4, <1>5, ExactClaim, ClaimedWithinElapsed
<1>7. accrued(full, then) = refill_tokens(f - n, rate_scaled)
  <2> HIDE DEF full, n
  <2>1. saturating_sub(then, full.last_refill) = f - n
    BY <1>1, <1>3, <1>4, <1>6 DEF saturating_sub
  <2> QED BY <2>1 DEF accrued
<1> DEFINE fill == refill_tokens(f, rate_scaled)
           rest == refill_tokens(f - n, rate_scaled)
<1>8. a + rest <= fill
  <2>1. fill < U64_MAX /\ n <= f
    BY <1>1, <1>4, <1>5, <1>6
  <2> HIDE DEF f, n
  <2> QED BY <1>1, <1>3, <1>4, <1>6, <2>1, RefillSplits
<1>9. fill \in Nat /\ rest \in Nat
  <2>1. f - n \in Nat
    BY <1>4, <1>6
  <2> HIDE DEF f, n
  <2> QED BY <1>1, <1>4, <2>1, ClaimedWithinElapsed
<1>10. full.tokens <= b.tokens + a /\ full.tokens \in Nat
  <2>1. full.tokens \in Nat
    BY <1>1, <1>3 DEF Bucket
  <2> DEFINE x == b.tokens
  <2> HIDE DEF full, x
  <2> QED BY <1>1, <1>3, <2>1 DEF MinOf, x
<1> HIDE DEF fill, rest, full
<1> QED BY <1>1, <1>3, <1>5, <1>7, <1>8, <1>9, <1>10 DEF fill, rest, full

\* A bucket has let through, so far, no more than it was made with and its rate
\* has credited up to its date.
Within(b, passed) ==
    IF b = NoBucket
    THEN passed = 0
    ELSE NANOS_PER_SEC * (b.tokens + SCALE * passed)
            <= NANOS_PER_SEC * scaled_capacity + rate_scaled * b.last_refill

\* A check keeps it so, at an exact rate.
LEMMA CheckStaysWithin ==
    ASSUME Exact(rate_scaled),
           NEW b \in Bucket \cup {NoBucket}, NEW now \in u64, Dated(b, now),
           NEW passed \in Nat, Within(b, passed)
    PROVE  LET full == refilled(b, now) IN
           Within(taken(full, 1), IF permits(full, 1) THEN passed + 1 ELSE passed)
<1> DEFINE N    == NANOS_PER_SEC
           f    == found(b, now)
           a    == accrued(f, now)
           n    == nanos_for_tokens(a, rate_scaled)
           full == refilled(b, now)
           last == f.last_refill
<1>1. N \in Nat /\ SCALE \in Nat /\ scaled_capacity \in Nat /\ rate_scaled \in Nat /\ now \in Nat
  BY LimiterConstants, MathAssumption DEF u64
<1>2. f \in Bucket /\ f.last_refill <= now
  BY <1>1, FoundIsBucket
<1>3. f # NoBucket /\ f.tokens \in Nat /\ last \in Nat
  BY <1>2, LimiterConstants DEF Bucket, NoBucket, None
<1>4. Within(f, passed)
  <2>1. CASE b = NoBucket
    <3>1. f.tokens = scaled_capacity /\ passed = 0
      BY <2>1 DEF found, Within
    <3>2. f.tokens + SCALE * passed = scaled_capacity /\ rate_scaled * last \in Nat
      BY <1>1, <1>3, <3>1
    <3> HIDE DEF N, f, last
    <3>3. N * scaled_capacity <= N * scaled_capacity + rate_scaled * last
      BY <1>1, <3>2
    <3> QED BY <1>3, <3>2, <3>3 DEF Within, N, last
  <2>2. CASE b # NoBucket
    BY <2>2 DEF found
  <2> QED BY <2>1, <2>2
<1>5. N * (f.tokens + SCALE * passed) <= N * scaled_capacity + rate_scaled * last
  BY <1>3, <1>4 DEF Within
<1>6. /\ full \in Bucket
      /\ full.tokens = MinOf(f.tokens + a, scaled_capacity)
      /\ full.last_refill = last + n
      /\ a \in Nat
  BY <1>2, RefillsBucket DEF refilled
<1>7. rate_scaled * n = N * a /\ n \in Nat
  <2> DEFINE e == saturating_sub(now, f.last_refill)
  <2>1. e \in u64
    BY <1>1, <1>2, <1>3, MathAssumption DEF saturating_sub, u64
  <2>2. a = refill_tokens(e, rate_scaled)
    BY DEF accrued
  <2>3. e \in Nat
    BY <2>1, MathAssumption DEF u64
  <2> HIDE DEF e, a
  <2> QED BY <1>1, <2>1, <2>2, <2>3, ExactClaim, ClaimedWithinElapsed
<1>8. N * (full.tokens + SCALE * passed) <= N * scaled_capacity + rate_scaled * full.last_refill
  <2> DEFINE x == f.tokens  y == full.tokens  p == SCALE * passed
  <2>1. x \in Nat /\ y \in Nat /\ p \in Nat /\ y <= x + a
    BY <1>1, <1>3, <1>6 DEF MinOf, Bucket
  <2> HIDE DEF x, y, p, a, n, last, N
  <2>2. N * (y + p) <= N * (x + p) + N * a
    <3>1. (y + p) * N <= (x + p + a) * N
      BY <1>1, <1>6, <2>1, KeepFactor
    <3> QED BY <1>1, <1>6, <2>1, <3>1
  <2>3. rate_scaled * (last + n) = rate_scaled * last + N * a
    BY <1>1, <1>3, <1>6, <1>7
  <2>4. N * (x + p) <= N * scaled_capacity + rate_scaled * last
    BY <1>5 DEF x, p
  <2>5. /\ N * (y + p) \in Nat /\ N * (x + p) \in Nat /\ N * a \in Nat
        /\ N * scaled_capacity \in Nat /\ rate_scaled * last \in Nat
    BY <1>1, <1>3, <1>6, <2>1
  <2>6. N * (y + p) <= N * scaled_capacity + rate_scaled * (last + n)
    BY <2>2, <2>3, <2>4, <2>5
  <2> QED BY <1>6, <2>6 DEF x, y, p
<1> HIDE DEF full
<1>9. /\ taken(full, 1) \in Bucket
      /\ taken(full, 1).last_refill = full.last_refill
      /\ taken(full, 1).tokens = full.tokens - (IF permits(full, 1) THEN SCALE ELSE 0)
  BY <1>6, OneToken
<1>10. taken(full, 1).tokens + SCALE * (IF permits(full, 1) THEN passed + 1 ELSE passed)
        = full.tokens + SCALE * passed
  <2>1. full.tokens \in Nat /\ SCALE * (passed + 1) = SCALE * passed + SCALE
    BY <1>1, <1>6 DEF Bucket
  <2>2. SCALE * passed \in Nat
    BY <1>1
  <2> QED BY <1>1, <1>9, <2>1, <2>2
<1>11. taken(full, 1) # NoBucket
  BY <1>9, LimiterConstants DEF Bucket, NoBucket, None
<1> QED BY <1>8, <1>9, <1>10, <1>11 DEF Within, full

\* What is within, at its date, is within the budget of any later time.
LEMMA WithinBudget ==
    ASSUME NEW b \in Bucket \cup {NoBucket}, NEW now \in Nat, Dated(b, now),
           NEW passed \in Nat, Within(b, passed)
    PROVE  NANOS_PER_SEC * SCALE * passed
              <= NANOS_PER_SEC * scaled_capacity + rate_scaled * now
<1> DEFINE N == NANOS_PER_SEC
<1>1. /\ N \in Nat /\ SCALE \in Nat /\ scaled_capacity \in Nat /\ rate_scaled \in Nat
      /\ N * scaled_capacity \in Nat /\ rate_scaled * now \in Nat
  BY LimiterConstants, MathAssumption
<1> HIDE DEF N
<1>2. CASE b = NoBucket
  <2>1. N * SCALE * passed = 0
    BY <1>1, <1>2 DEF Within
  <2> QED BY <1>1, <2>1 DEF N
<1>3. CASE b # NoBucket
  <2> DEFINE x == b.tokens  last == b.last_refill
  <2>1. x \in Nat /\ last \in Nat /\ last <= now
    BY <1>1, <1>3 DEF Bucket, Dated
  <2>2. N * (x + SCALE * passed) <= N * scaled_capacity + rate_scaled * last
    BY <1>3 DEF Within, N
  <2> HIDE DEF x, last
  <2>3. N * (x + SCALE * passed) = N * x + N * SCALE * passed
    BY <1>1, <2>1
  <2>4. N * x \in Nat /\ N * SCALE * passed \in Nat /\ rate_scaled * last \in Nat
    BY <1>1, <2>1
  <2>5. rate_scaled * last <= rate_scaled * now
    <3>1. last * rate_scaled <= now * rate_scaled
      BY <1>1, <2>1, KeepFactor
    <3> QED BY <1>1, <2>1, <3>1
  <2>6. N * SCALE * passed <= N * scaled_capacity + rate_scaled * now
    BY <1>1, <2>2, <2>3, <2>4, <2>5
  <2> QED BY <2>6 DEF N
<1> QED BY <1>2, <1>3

-----------------------------------------------------------------------------
(***************************************************************************)
(* What a decision says of a bucket                                        *)
(***************************************************************************)

\* What a decision says: so many tokens are there, and so long it takes to fill up.
Describes(remaining, reset, b) ==
    /\ remaining \in 0..burst
    /\ remaining * SCALE <= b.tokens
    /\ reset = time_until_full(burst - remaining, requests_per_second)

\* A decision, by its fields.
Decision == [permitted : BOOLEAN, retry_after : Nat \cup {None}, remaining : Nat \cup {None},
             limit : Nat, reset : Nat \cup {None}]

\* A decision describes the bucket that its check leaves behind.  The wait of a
\* denial is the wait for one token.
LEMMA DecisionDescribes ==
    ASSUME NEW full \in Bucket
    PROVE  LET d == decision(full, 1) IN
           /\ d \in Decision
           /\ d.permitted = permits(full, 1)
           /\ d.limit = burst
           /\ Describes(d.remaining, d.reset, taken(full, 1))
           /\ d.retry_after = IF permits(full, 1)
                              THEN None
                              ELSE wait_for_tokens(1, requests_per_second)
<1> DEFINE left == taken(full, 1).tokens
           n    == left \div SCALE
<1>1. SCALE \in Nat \ {0} /\ burst \in Nat
  BY MathAssumption, LimiterConstants
<1>2. left \in Nat /\ left <= burst * SCALE
  <2>1. left \in 0..scaled_capacity
    <3>1. taken(full, 1) \in Bucket
      BY OneToken
    <3> QED BY <3>1 DEF Bucket
  <2> HIDE DEF left
  <2> QED BY <2>1, LimiterConstants
<1>3. permits(full, 1) \/ left < SCALE
  <2>1. ~permits(full, 1) => left = full.tokens /\ ~(full.tokens >= SCALE)
    BY <1>1, OneToken DEF Bucket
  <2> QED BY <1>1, <2>1 DEF Bucket
<1> HIDE DEF left
<1>4. n \in Nat /\ n * SCALE <= left /\ left < n * SCALE + SCALE
  BY <1>1, <1>2, DivisionBounds
<1> HIDE DEF n
<1>5. n <= burst
  <2>1. n * SCALE <= burst * SCALE
    BY <1>1, <1>2, <1>4
  <2> QED BY <1>1, <1>4, <2>1, CancelFactor
<1>6. permits(full, 1) \/ n = 0
  <2>1. n = 0 \/ 1 * SCALE <= n * SCALE
    BY <1>1, <1>4, KeepFactor
  <2> QED BY <1>1, <1>2, <1>3, <1>4, <2>1
<1>7. decision(full, 1) = token_decision(permits(full, 1), n, burst, requests_per_second, 1)
  BY DEF decision, n, left
<1>8. saturating_sub(burst, n) = burst - n
  BY <1>1, <1>4, <1>5 DEF saturating_sub
<1>9. ~permits(full, 1) => saturating_sub(1, n) = 1
  BY <1>6 DEF saturating_sub
<1>10. /\ wait_for_tokens(1, requests_per_second) \in Nat
       /\ time_until_full(burst - n, requests_per_second) \in Nat
  <2>1. 1 \in Nat /\ burst - n \in Nat /\ requests_per_second \in Nat \ {0}
    BY <1>1, <1>4, <1>5, LimiterConstants
  <2> QED BY <2>1, WaitBounds DEF time_until_full
<1>11. decision(full, 1) =
         [permitted   |-> permits(full, 1),
          retry_after |-> IF permits(full, 1)
                          THEN None
                          ELSE wait_for_tokens(1, requests_per_second),
          remaining   |-> n,
          limit       |-> burst,
          reset       |-> time_until_full(burst - n, requests_per_second)]
  BY <1>7, <1>8, <1>9 DEF token_decision
<1>12. permits(full, 1) \in BOOLEAN
  BY DEF permits
<1>13. decision(full, 1) \in Decision
  BY <1>1, <1>4, <1>10, <1>11, <1>12 DEF Decision
<1> QED BY <1>1, <1>4, <1>5, <1>11, <1>13 DEF Describes, left
=============================================================================
