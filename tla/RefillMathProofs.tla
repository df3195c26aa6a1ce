--------------------------- MODULE RefillMathProofs ---------------------------
(***************************************************************************)
(* What the arithmetic of RefillMath does, for every interval, rate and    *)
(* number of tokens: the facts that the theorems about every bucket need.  *)
(***************************************************************************)
EXTENDS RefillMath, TLAPS

\* A unit of rate r is worth a whole number of nanoseconds (or nothing accrues).
Exact(r) == r = 0 \/ NANOS_PER_SEC % r = 0

-----------------------------------------------------------------------------
(***************************************************************************)
(* Division                                                                *)
(***************************************************************************)

\* Integer division is the largest number of times the divisor fits.
LEMMA DivisionBounds ==
    ASSUME NEW a \in Nat, NEW b \in Nat \ {0}
    PROVE  /\ a \div b \in Nat
           /\ (a \div b) * b <= a
           /\ a < (a \div b) * b + b
  OBVIOUS

\* A positive factor can be cancelled from an inequality.
LEMMA CancelFactor ==
    ASSUME NEW a \in Nat, NEW b \in Nat, NEW c \in Nat \ {0}, a * c <= b * c
    PROVE  a <= b
  OBVIOUS

\* An inequality survives a factor.
LEMMA KeepFactor ==
    ASSUME NEW a \in Nat, NEW b \in Nat, NEW c \in Nat, a <= b
    PROVE  a * c <= b * c
  OBVIOUS

\* Division undoes multiplication.
LEMMA DivideMultiple ==
    ASSUME NEW a \in Nat, NEW b \in Nat \ {0}
    PROVE  (a * b) \div b = a
  OBVIOUS

-----------------------------------------------------------------------------
(***************************************************************************)
(* Refills and claims                                                      *)
(***************************************************************************)

\* A claim never reaches past the time gone by: rounding down twice, once to
\* scaled tokens and once to nanoseconds, loses time and never invents it.
LEMMA ClaimedWithinElapsed ==
    ASSUME NEW e \in Nat, NEW r \in Nat
    PROVE  /\ refill_tokens(e, r) \in Nat
           /\ nanos_for_tokens(refill_tokens(e, r), r) \in Nat
           /\ nanos_for_tokens(refill_tokens(e, r), r) <= e
<1> DEFINE N == NANOS_PER_SEC
           q == (e * r) \div N
           a == refill_tokens(e, r)
           n == (a * N) \div r
<1>1. N \in Nat \ {0} /\ U64_MAX \in Nat
  BY MathAssumption
<1>2. q \in Nat /\ q * N <= e * r
  <2>1. e * r \in Nat
    OBVIOUS
  <2> QED BY <2>1, <1>1, DivisionBounds
<1>3. a \in Nat /\ a <= q
  BY <1>1, <1>2 DEF refill_tokens, MinOf
<1>4. CASE r = 0
  BY <1>3, <1>4 DEF nanos_for_tokens
<1>5. CASE r # 0
  <2> HIDE DEF q, a
  <2>1. a * N <= q * N
    BY <1>1, <1>2, <1>3, KeepFactor
  <2>2. a * N \in Nat /\ a * N <= e * r
    BY <1>1, <1>2, <1>3, <2>1
  <2>3. n \in Nat /\ n * r <= a * N
    BY <2>2, <1>5, DivisionBounds
  <2> HIDE DEF n
  <2>4. n * r <= e * r
    BY <2>2, <2>3
  <2>5. n <= e
    BY <2>3, <2>4, <1>5, CancelFactor
  <2>6. nanos_for_tokens(a, r) = MinOf(n, U64_MAX)
    BY <1>5 DEF nanos_for_tokens, n
  <2>7. MinOf(n, U64_MAX) \in Nat /\ MinOf(n, U64_MAX) <= n
    BY <1>1, <2>3 DEF MinOf
  <2> QED BY <1>3, <2>3, <2>5, <2>6, <2>7 DEF a
<1> QED BY <1>4, <1>5

\* At an exact rate a claim stands for all the tokens it credits: dividing by
\* the rate after having multiplied by it loses nothing.
LEMMA ExactClaim ==
    ASSUME NEW r \in Nat, Exact(r), NEW e \in u64
    PROVE  r * nanos_for_tokens(refill_tokens(e, r), r) = NANOS_PER_SEC * refill_tokens(e, r)
<1> DEFINE N == NANOS_PER_SEC
           k == N \div r
           a == e \div k
<1>1. N \in Nat \ {0} /\ U64_MAX \in Nat /\ e \in Nat /\ e <= U64_MAX
  BY MathAssumption DEF u64
<1>2. CASE r = 0
  <2>1. (e * r) \div N = 0
    <3>1. 0 \div N = 0
      BY <1>1
    <3> QED BY <1>1, <1>2, <3>1
  <2>2. refill_tokens(e, r) = 0
    BY <1>1, <2>1 DEF refill_tokens, MinOf
  <2>3. nanos_for_tokens(0, r) = 0
    BY <1>2 DEF nanos_for_tokens
  <2>4. r * 0 = N * 0
    BY <1>1, <1>2
  <2> QED BY <2>2, <2>3, <2>4
<1>3. CASE r # 0
  <2>1. r \in Nat \ {0} /\ N % r = 0
    BY <1>3 DEF Exact
  <2>2. k \in Nat \ {0} /\ N = k * r
    <3>1. k \in Nat /\ N = k * r + (N % r)
      BY <1>1, <2>1
    <3>2. N = k * r
      BY <3>1, <1>1, <2>1
    <3>3. k # 0
      BY <3>2, <1>1, <2>1
    <3> QED BY <3>1, <3>2, <3>3
  <2> HIDE DEF k
  <2>3. a \in Nat /\ a * k <= e /\ e < a * k + k
    BY <1>1, <2>2, DivisionBounds
  <2> HIDE DEF a
  <2>4. a <= e
    BY <1>1, <2>2, <2>3
  <2>5. (e * r) \div N = a
    <3>1. (a * k) * r <= e * r /\ e * r < (a * k + k) * r
      BY <1>1, <2>1, <2>2, <2>3
    <3>2. (a * k) * r = a * N /\ (a * k + k) * r = a * N + N
      BY <2>1, <2>2, <2>3
    <3>3. e * r \in Nat /\ a * N <= e * r /\ e * r < a * N + N
      BY <1>1, <2>1, <3>1, <3>2
    <3> QED BY <1>1, <2>3, <3>3
  <2>6. refill_tokens(e, r) = a
    BY <1>1, <2>3, <2>4, <2>5 DEF refill_tokens, MinOf
  <2>7. (a * N) \div r = a * k
    <3>1. a * N = (a * k) * r /\ a * k \in Nat
      BY <2>1, <2>2, <2>3
    <3> QED BY <2>1, <3>1, DivideMultiple
  <2>8. nanos_for_tokens(a, r) = a * k
    BY <1>1, <1>3, <2>1, <2>2, <2>3, <2>7 DEF nanos_for_tokens, MinOf
  <2>9. r * (a * k) = N * a
    BY <2>1, <2>2, <2>3
  <2> QED BY <2>6, <2>8, <2>9
<1> QED BY <1>2, <1>3

\* A claim never saturates, and never runs ahead of the clock.
LEMMA ClaimStaysInThePast ==
    ASSUME NEW last \in Nat, NEW now \in Int, NEW n \in Nat, NEW c \in Nat,
           last <= c, now <= c, c <= U64_MAX, n <= saturating_sub(now, last)
    PROVE  saturating_add(last, n) = last + n /\ last + n <= c
  BY MathAssumption DEF saturating_add, saturating_sub, MinOf

\* Nothing accrues in an interval too short for a scaled token.
LEMMA NothingIsWorthNothing ==
    ASSUME NEW e \in Nat, NEW r \in Nat
    PROVE  refill_tokens(e, r) = 0 <=> e * r < NANOS_PER_SEC
<1> DEFINE q == (e * r) \div NANOS_PER_SEC
<1>1. NANOS_PER_SEC \in Nat \ {0} /\ U64_MAX \in Nat \ {0} /\ e * r \in Nat
  BY MathAssumption
<1>2. /\ q \in Nat /\ q * NANOS_PER_SEC <= e * r
      /\ e * r < q * NANOS_PER_SEC + NANOS_PER_SEC
  BY <1>1, DivisionBounds
<1> HIDE DEF q
<1>3. q = 0 <=> e * r < NANOS_PER_SEC
  <2>1. CASE q = 0
    BY <1>1, <1>2, <2>1
  <2>2. CASE q # 0
    <3>1. 1 * NANOS_PER_SEC <= q * NANOS_PER_SEC
      BY <1>1, <1>2, <2>2, KeepFactor
    <3> QED BY <1>1, <1>2, <2>2, <3>1
  <2> QED BY <2>1, <2>2
<1>4. refill_tokens(e, r) = MinOf(q, U64_MAX)
  BY DEF refill_tokens, q
<1> QED BY <1>1, <1>2, <1>3, <1>4 DEF MinOf

\* The later the timestamp, the less has accrued since.
LEMMA LaterTimestamp ==
    ASSUME NEW r \in Nat, NEW now \in Nat, NEW last \in Nat, NEW later \in Nat,
           last <= later, refill_tokens(saturating_sub(now, last), r) = 0
    PROVE  refill_tokens(saturating_sub(now, later), r) = 0
<1> DEFINE e == saturating_sub(now, last)
           f == saturating_sub(now, later)
<1>1. e \in Nat /\ f \in Nat /\ f <= e
  BY DEF saturating_sub
<1> HIDE DEF e, f
<1>2. NANOS_PER_SEC \in Nat
  BY MathAssumption
<1>3. f * r <= e * r
  BY <1>1, <1>2, KeepFactor
<1>4. e * r < NANOS_PER_SEC
  BY <1>1, <1>2, NothingIsWorthNothing DEF e
<1>5. e * r \in Nat /\ f * r \in Nat
  BY <1>1, <1>2
<1>6. f * r < NANOS_PER_SEC
  BY <1>2, <1>3, <1>4, <1>5
<1> QED BY <1>1, <1>2, <1>6, NothingIsWorthNothing DEF f

\* At an exact rate a claim takes all that has accrued: what is left of the
\* interval is not worth a scaled token.
LEMMA ExactClaimCatchesUp ==
    ASSUME NEW r \in Nat, Exact(r), NEW now \in u64, NEW last \in Nat, NEW n \in Nat,
           n = nanos_for_tokens(refill_tokens(saturating_sub(now, last), r), r)
    PROVE  refill_tokens(saturating_sub(now, last + n), r) = 0
<1> DEFINE N == NANOS_PER_SEC
           e == saturating_sub(now, last)
           q == (e * r) \div N
           left == saturating_sub(now, last + n)
<1>1. N \in Nat \ {0} /\ U64_MAX \in Nat \ {0}
  BY MathAssumption
<1>2. now \in Nat /\ e \in Nat /\ e \in u64
  BY <1>1 DEF saturating_sub, u64
<1>3. n <= e
  BY <1>1, <1>2, ClaimedWithinElapsed
<1>4. left \in Nat /\ left = e - n
  BY <1>2, <1>3 DEF saturating_sub
<1>5. r * n = N * refill_tokens(e, r)
  BY <1>1, <1>2, ExactClaim
<1> HIDE DEF e, left
<1>6. e * r \in Nat
  BY <1>1, <1>2
<1>7. q \in Nat /\ q * N <= e * r /\ e * r < q * N + N
  BY <1>1, <1>6, DivisionBounds
<1>8. r <= N
  <2>1. CASE r = 0
    BY <1>1, <2>1
  <2>2. CASE r # 0
    <3>1. N % r = 0 /\ r \in Nat \ {0}
      BY <1>1, <2>2 DEF Exact
    <3> HIDE DEF N
    <3> QED BY <1>1, <3>1
  <2> QED BY <2>1, <2>2
<1> HIDE DEF q, N
<1>9. q <= U64_MAX
  <2>1. e * r <= e * N
    BY <1>1, <1>2, <1>8
  <2>2. q * N <= e * N
    BY <1>1, <1>2, <1>6, <1>7, <2>1
  <2>3. q <= e
    BY <1>1, <1>2, <1>7, <2>2, CancelFactor
  <2> QED BY <1>1, <1>2, <1>7, <2>3 DEF u64
<1>10. refill_tokens(e, r) = q
  BY <1>1, <1>7, <1>9 DEF refill_tokens, MinOf, q, N
<1>11. left * r = e * r - q * N
  <2>1. left * r = e * r - n * r
    BY <1>1, <1>2, <1>4
  <2>2. n * r = q * N
    BY <1>1, <1>5, <1>7, <1>10
  <2> QED BY <2>1, <2>2
<1>12. left * r < N
  BY <1>1, <1>6, <1>7, <1>11
<1> QED BY <1>1, <1>4, <1>12, NothingIsWorthNothing DEF left, N

\* What is worth a number of scaled tokens refills as many.
LEMMA RefillAtLeast ==
    ASSUME NEW e \in Nat, NEW r \in Nat, NEW a \in Nat, a <= U64_MAX,
           a * NANOS_PER_SEC <= e * r
    PROVE  a <= refill_tokens(e, r)
<1> DEFINE q == (e * r) \div NANOS_PER_SEC
<1>1. NANOS_PER_SEC \in Nat \ {0} /\ U64_MAX \in Nat /\ e * r \in Nat
  BY MathAssumption
<1>2. q \in Nat /\ e * r < q * NANOS_PER_SEC + NANOS_PER_SEC
  BY <1>1, DivisionBounds
<1> HIDE DEF q
<1>3. a <= q
  <2>1. CASE a = q + 1 \/ a > q + 1
    <3>1. (q + 1) * NANOS_PER_SEC <= a * NANOS_PER_SEC
      BY <1>1, <1>2, <2>1, KeepFactor
    <3>2. (q + 1) * NANOS_PER_SEC = q * NANOS_PER_SEC + NANOS_PER_SEC
      BY <1>1, <1>2
    <3>3. a * NANOS_PER_SEC \in Nat /\ q * NANOS_PER_SEC \in Nat
      BY <1>1, <1>2
    <3> QED BY <1>1, <1>2, <3>1, <3>2, <3>3
  <2> QED BY <1>2, <2>1
<1>4. refill_tokens(e, r) = MinOf(q, U64_MAX)
  BY DEF refill_tokens, q
<1> QED BY <1>1, <1>2, <1>3, <1>4 DEF MinOf

\* What is not worth a number of scaled tokens refills fewer.
LEMMA RefillBelow ==
    ASSUME NEW e \in Nat, NEW r \in Nat, NEW a \in Nat, e * r < a * NANOS_PER_SEC
    PROVE  refill_tokens(e, r) < a
<1> DEFINE q == (e * r) \div NANOS_PER_SEC
<1>1. NANOS_PER_SEC \in Nat \ {0} /\ U64_MAX \in Nat /\ e * r \in Nat
  BY MathAssumption
<1>2. q \in Nat /\ q * NANOS_PER_SEC <= e * r
  BY <1>1, DivisionBounds
<1>3. refill_tokens(e, r) = MinOf(q, U64_MAX)
  BY DEF refill_tokens
<1> HIDE DEF q
<1>4. q < a
  <2>1. ASSUME a <= q PROVE FALSE
    <3>1. a * NANOS_PER_SEC <= q * NANOS_PER_SEC
      BY <1>1, <1>2, <2>1, KeepFactor
    <3>2. a * NANOS_PER_SEC \in Nat /\ q * NANOS_PER_SEC \in Nat
      BY <1>1, <1>2
    <3> QED BY <1>1, <1>2, <3>1, <3>2
  <2> QED BY <1>2, <2>1
<1> QED BY <1>1, <1>2, <1>3, <1>4 DEF MinOf

\* A longer interval refills no less.
LEMMA RefillMonotone ==
    ASSUME NEW e \in Nat, NEW f \in Nat, e <= f, NEW r \in Nat
    PROVE  refill_tokens(e, r) <= refill_tokens(f, r)
<1> DEFINE a == refill_tokens(e, r)
<1>1. NANOS_PER_SEC \in Nat \ {0} /\ U64_MAX \in Nat /\ e * r \in Nat /\ f * r \in Nat
  BY MathAssumption
<1>2. a \in Nat /\ a <= U64_MAX /\ a * NANOS_PER_SEC <= e * r
  <2> DEFINE q == (e * r) \div NANOS_PER_SEC
  <2>1. q \in Nat /\ q * NANOS_PER_SEC <= e * r
    BY <1>1, DivisionBounds
  <2>2. a = MinOf(q, U64_MAX)
    BY DEF refill_tokens
  <2> HIDE DEF q, a
  <2>3. a \in Nat /\ a <= U64_MAX /\ a <= q
    BY <1>1, <2>1, <2>2 DEF MinOf
  <2>4. a * NANOS_PER_SEC <= q * NANOS_PER_SEC
    BY <1>1, <2>1, <2>3, KeepFactor
  <2>5. a * NANOS_PER_SEC \in Nat /\ q * NANOS_PER_SEC \in Nat
    BY <1>1, <2>1, <2>3
  <2> QED BY <1>1, <2>1, <2>3, <2>4, <2>5
<1> HIDE DEF a
<1>3. e * r <= f * r
  BY KeepFactor
<1>4. a * NANOS_PER_SEC <= f * r
  <2>1. a * NANOS_PER_SEC \in Nat
    BY <1>1, <1>2
  <2> QED BY <1>1, <1>2, <1>3, <2>1
<1>5. a <= refill_tokens(f, r)
  BY <1>2, <1>4, RefillAtLeast
<1> QED BY <1>5 DEF a

\* What is claimed out of an interval, to the nanosecond, is missing in what is
\* left of it.
LEMMA RefillSplits ==
    ASSUME NEW e \in Nat, NEW n \in Nat, n <= e, NEW r \in Nat, NEW a \in Nat,
           r * n = NANOS_PER_SEC * a, refill_tokens(e, r) < U64_MAX
    PROVE  a + refill_tokens(e - n, r) <= refill_tokens(e, r)
<1> DEFINE N == NANOS_PER_SEC
           q == (e * r) \div N
<1>1. N \in Nat \ {0} /\ U64_MAX \in Nat /\ e * r \in Nat /\ e - n \in Nat
  BY MathAssumption
<1>2. q \in Nat /\ q * N <= e * r /\ e * r < q * N + N
  BY <1>1, DivisionBounds
<1>3. refill_tokens(e, r) = MinOf(q, U64_MAX)
  BY DEF refill_tokens
<1> HIDE DEF q, N
<1>4. refill_tokens(e, r) = q
  BY <1>1, <1>2, <1>3 DEF MinOf
<1>5. (e - n) * r = e * r - a * N /\ a * N \in Nat
  <2>1. (e - n) * r = e * r - r * n
    BY <1>1
  <2>2. r * n = a * N
    BY <1>1 DEF N
  <2> QED BY <1>1, <2>1, <2>2
<1>6. (e - n) * r \in Nat
  BY <1>1
<1>7. a <= q
  <2>1. a * N <= e * r
    BY <1>1, <1>5, <1>6
  <2>2. ASSUME q + 1 <= a PROVE FALSE
    <3>1. (q + 1) * N <= a * N
      BY <1>1, <1>2, <2>2, KeepFactor
    <3>2. (q + 1) * N = q * N + N /\ q * N \in Nat
      BY <1>1, <1>2
    <3> QED BY <1>1, <1>2, <1>5, <2>1, <3>1, <3>2
  <2> QED BY <1>2, <2>2
<1>8. (e - n) * r < (q - a + 1) * N
  <2>1. (q - a + 1) * N = q * N + N - a * N
    BY <1>1, <1>2
  <2>2. q * N \in Nat
    BY <1>1, <1>2
  <2> QED BY <1>1, <1>2, <1>5, <2>1, <2>2
<1>9. q - a + 1 \in Nat
  BY <1>2, <1>7
<1>10. refill_tokens(e - n, r) < q - a + 1
  BY <1>1, <1>8, <1>9, RefillBelow DEF N
<1>11. refill_tokens(e - n, r) \in Nat
  BY <1>1, ClaimedWithinElapsed
<1> QED BY <1>2, <1>4, <1>7, <1>10, <1>11

\* And no more is missing.
LEMMA RefillJoins ==
    ASSUME NEW e \in Nat, NEW n \in Nat, n <= e, NEW r \in Nat, NEW a \in Nat,
           r * n = NANOS_PER_SEC * a
    PROVE  refill_tokens(e, r) <= a + refill_tokens(e - n, r)
<1> DEFINE N == NANOS_PER_SEC
           q == ((e - n) * r) \div N
<1>1. N \in Nat \ {0} /\ U64_MAX \in Nat /\ e * r \in Nat /\ e - n \in Nat /\ (e - n) * r \in Nat
  BY MathAssumption
<1>2. q \in Nat /\ (e - n) * r < q * N + N
  BY <1>1, DivisionBounds
<1>3. refill_tokens(e - n, r) = MinOf(q, U64_MAX)
  BY DEF refill_tokens
<1> HIDE DEF q, N
<1>4. CASE U64_MAX <= q
  <2>1. refill_tokens(e - n, r) = U64_MAX
    BY <1>1, <1>2, <1>3, <1>4 DEF MinOf
  <2>2. refill_tokens(e, r) \in Nat /\ refill_tokens(e, r) <= U64_MAX
    <3>1. refill_tokens(e, r) \in Nat
      BY ClaimedWithinElapsed
    <3>2. (e * r) \div NANOS_PER_SEC \in Nat
      BY <1>1, MathAssumption, DivisionBounds
    <3> QED BY <1>1, <3>1, <3>2 DEF refill_tokens, MinOf
  <2> QED BY <1>1, <2>1, <2>2
<1>5. CASE q < U64_MAX
  <2>1. refill_tokens(e - n, r) = q
    BY <1>1, <1>2, <1>3, <1>5 DEF MinOf
  <2>2. e * r < (a + q + 1) * N
    <3>1. (e - n) * r = e * r - r * n
      BY <1>1
    <3>2. r * n = a * N
      BY <1>1 DEF N
    <3>3. (a + q + 1) * N = a * N + (q * N + N)
      BY <1>1, <1>2
    <3>4. a * N \in Nat /\ q * N \in Nat
      BY <1>1, <1>2
    <3> QED BY <1>1, <1>2, <3>1, <3>2, <3>3, <3>4
  <2>3. a + q + 1 \in Nat
    BY <1>2
  <2>4. refill_tokens(e, r) < a + q + 1
    BY <1>1, <2>2, <2>3, RefillBelow DEF N
  <2>5. refill_tokens(e, r) \in Nat
    BY ClaimedWithinElapsed
  <2> QED BY <1>2, <2>1, <2>4, <2>5
<1> QED BY <1>1, <1>2, <1>4, <1>5

-----------------------------------------------------------------------------
(***************************************************************************)
(* Waits, in nanoseconds and in the whole seconds of a header              *)
(***************************************************************************)

\* A rounded quotient is within half a divisor of the truth.
LEMMA RoundedQuotientBounds ==
    ASSUME NEW a \in Nat, NEW b \in Nat \ {0}
    PROVE  /\ RoundedQuotient(a, b) \in Nat
           /\ 2 * (RoundedQuotient(a, b) * b) <= 2 * a + b
           /\ 2 * a < 2 * (RoundedQuotient(a, b) * b) + b
<1> DEFINE q == (2 * a + b) \div (2 * b)
<1>1. 2 * a + b \in Nat /\ 2 * b \in Nat \ {0}
  OBVIOUS
<1>2. q \in Nat /\ q * (2 * b) <= 2 * a + b /\ 2 * a + b < q * (2 * b) + 2 * b
  BY <1>1, DivisionBounds
<1> HIDE DEF q
<1>3. q * (2 * b) = 2 * (q * b) /\ q * b \in Nat
  BY <1>2
<1>4. q \in Nat /\ 2 * (q * b) <= 2 * a + b /\ 2 * a < 2 * (q * b) + b
  BY <1>2, <1>3
<1> QED BY <1>4 DEF q, RoundedQuotient

\* A wait is long enough but for half a nanosecond, and unless it is the floor no
\* longer than half a nanosecond too long.
LEMMA WaitBounds ==
    ASSUME NEW n \in Nat, NEW r \in Nat \ {0}
    PROVE  /\ wait_for_tokens(n, r) \in Nat
           /\ MIN_WAIT <= wait_for_tokens(n, r)
           /\ 2 * (n * NANOS_PER_SEC) < 2 * (wait_for_tokens(n, r) * r) + r
           /\ \/ wait_for_tokens(n, r) = MIN_WAIT
              \/ 2 * (wait_for_tokens(n, r) * r) <= 2 * (n * NANOS_PER_SEC) + r
<1> DEFINE w == wait_for_tokens(n, r)
           q == RoundedQuotient(n * NANOS_PER_SEC, r)
<1>1. n * NANOS_PER_SEC \in Nat /\ MIN_WAIT \in Nat
  BY MathAssumption
<1>2. /\ q \in Nat
      /\ 2 * (q * r) <= 2 * (n * NANOS_PER_SEC) + r
      /\ 2 * (n * NANOS_PER_SEC) < 2 * (q * r) + r
  BY <1>1, RoundedQuotientBounds
<1> HIDE DEF q
<1>3. w = MaxOf(q, MIN_WAIT)
  BY DEF wait_for_tokens, q
<1> HIDE DEF w
<1>4. w \in Nat /\ q <= w /\ MIN_WAIT <= w /\ (w = MIN_WAIT \/ w = q)
  BY <1>1, <1>2, <1>3 DEF MaxOf
<1>5. q * r <= w * r /\ q * r \in Nat /\ w * r \in Nat
  BY <1>2, <1>4, KeepFactor
<1>6. 2 * (n * NANOS_PER_SEC) < 2 * (w * r) + r
  BY <1>1, <1>2, <1>5
<1> QED BY <1>2, <1>4, <1>6 DEF w

\* A wait of one token, less a nanosecond, and an interval that was worth nothing
\* before it, are worth less than one scaled token more than the token.
LEMMA WaitIsNotLong ==
    ASSUME NEW r \in Nat \ {0}, NEW e \in Nat, NEW d \in Nat,
           refill_tokens(e, r * SCALE) = 0,
           d < wait_for_tokens(1, r) - MIN_WAIT
    PROVE  refill_tokens(e + d, r * SCALE) <= SCALE
<1> DEFINE N == NANOS_PER_SEC
           w == wait_for_tokens(1, r)
           R == r * SCALE
<1>1. N \in Nat \ {0} /\ SCALE \in Nat \ {0} /\ MIN_WAIT \in Nat /\ R \in Nat
  BY MathAssumption
<1>2. /\ w \in Nat
      /\ w = MIN_WAIT \/ 2 * (w * r) <= 2 * (1 * N) + r
  BY WaitBounds
<1>0. d < w - MIN_WAIT
  OBVIOUS
<1> HIDE DEF w
<1>3. 2 * (w * r) <= 2 * N + r /\ w # 0 /\ d <= w - 1
  <2>1. w # MIN_WAIT /\ 2 * (1 * N) = 2 * N
    BY <1>0, <1>1, <1>2
  <2> HIDE DEF N, R
  <2> QED BY <1>0, <1>1, <1>2, <2>1
<1>4. e * R < N
  BY <1>1, NothingIsWorthNothing
<1>5. d * R <= SCALE * N
  <2>1. d * r <= (w - 1) * r
    <3>1. w - 1 \in Nat
      BY <1>2, <1>3
    <3> QED BY <1>3, <3>1, KeepFactor
  <2>2. (w - 1) * r = w * r - r /\ w * r \in Nat /\ d * r \in Nat
    BY <1>2
  <2>3. d * r <= N
    BY <1>1, <1>3, <2>1, <2>2
  <2>4. (d * r) * SCALE <= N * SCALE
    <3> HIDE DEF N
    <3> QED BY <1>1, <2>2, <2>3, KeepFactor
  <2>5. (d * r) * SCALE = d * R /\ N * SCALE = SCALE * N
    BY <1>1
  <2> QED BY <2>4, <2>5
<1>6. (e + d) * R = e * R + d * R /\ e * R \in Nat /\ d * R \in Nat
  BY <1>1
<1>7. (SCALE + 1) * N = SCALE * N + N /\ SCALE * N \in Nat
  BY <1>1
<1> HIDE DEF R, N
<1>8. (e + d) * R < (SCALE + 1) * N
  BY <1>1, <1>4, <1>5, <1>6, <1>7
<1> DEFINE x == e + d  y == SCALE + 1
<1>9. x \in Nat /\ y \in Nat /\ x * R < y * NANOS_PER_SEC
  BY <1>1, <1>8 DEF N
<1> HIDE DEF x, y
<1>10. refill_tokens(x, R) \in Nat /\ refill_tokens(x, R) < y
  BY <1>1, <1>9, RefillBelow, ClaimedWithinElapsed
<1> QED BY <1>1, <1>10 DEF R, x, y

\* Rounding up to whole seconds never shortens a wait.
LEMMA SecondsCover ==
    ASSUME NEW d \in Nat
    PROVE  /\ http_seconds_ceil(d) \in Nat
           /\ d <= http_seconds_ceil(d) * NANOS_PER_SEC
<1> DEFINE N == NANOS_PER_SEC
           q == (d + N - 1) \div N
<1>1. N \in Nat \ {0} /\ d + N - 1 \in Nat
  BY MathAssumption
<1>2. q \in Nat /\ d + N - 1 < q * N + N
  BY <1>1, DivisionBounds
<1> HIDE DEF q, N
<1>3. d <= q * N
  <2>1. q * N \in Nat
    BY <1>1, <1>2
  <2> QED BY <1>1, <1>2, <2>1
<1> QED BY <1>2, <1>3 DEF q, N, http_seconds_ceil

\* At up to two tokens a nanosecond, the tokens a caller waits for have accrued
\* when the whole seconds of its header are over.
LEMMA HeaderSuffices ==
    ASSUME NEW n \in Nat, NEW r \in Nat \ {0}, r <= 2 * NANOS_PER_SEC,
           n * SCALE <= U64_MAX
    PROVE  n * SCALE <= refill_tokens(
                http_seconds_ceil(wait_for_tokens(n, r)) * NANOS_PER_SEC, r * SCALE)
<1> DEFINE N == NANOS_PER_SEC
           w == wait_for_tokens(n, r)
           s == http_seconds_ceil(w)
<1>1. N \in Nat \ {0} /\ SCALE \in Nat \ {0} /\ U64_MAX \in Nat
  BY MathAssumption
<1>2. w \in Nat /\ 2 * (n * N) < 2 * (w * r) + r
  BY WaitBounds
<1>3. s \in Nat /\ w <= s * N
  BY <1>2, SecondsCover
<1> HIDE DEF N, w, s
<1>4. n <= s * r
  <2>1. w * r <= (s * N) * r /\ w * r \in Nat
    <3>1. s * N \in Nat
      BY <1>1, <1>3
    <3> QED BY <1>2, <1>3, <3>1, KeepFactor
  <2>2. (s * N) * r = (s * r) * N /\ s * r \in Nat /\ (s * r) * N \in Nat
    BY <1>1, <1>3
  <2>3. n * N \in Nat
    BY <1>1
  <2>4. 2 * (n * N) < 2 * ((s * r) * N) + 2 * N
    BY <1>1, <1>2, <2>1, <2>2, <2>3 DEF N
  <2>5. n * N < (s * r) * N + N
    BY <1>1, <2>2, <2>3, <2>4
  <2>6. ASSUME s * r + 1 <= n PROVE FALSE
    <3>1. (s * r + 1) * N <= n * N
      BY <1>1, <2>2, <2>6, KeepFactor
    <3>2. (s * r + 1) * N = (s * r) * N + N
      BY <1>1, <2>2
    <3> QED BY <2>2, <2>3, <2>5, <3>1, <3>2, <1>1
  <2> QED BY <2>2, <2>6
<1>5. (n * SCALE) * N <= (s * N) * (r * SCALE)
  <2>1. s * r \in Nat /\ SCALE * N \in Nat
    BY <1>1, <1>3
  <2>2. n * (SCALE * N) <= (s * r) * (SCALE * N)
    BY <1>4, <2>1, KeepFactor
  <2>3. n * (SCALE * N) = (n * SCALE) * N
    BY <1>1
  <2>4. (s * r) * (SCALE * N) = (s * N) * (r * SCALE)
    BY <1>1, <1>3
  <2> QED BY <2>2, <2>3, <2>4
<1>6. s * N \in Nat /\ r * SCALE \in Nat /\ n * SCALE \in Nat
  BY <1>1, <1>3
<1> QED BY <1>5, <1>6, RefillAtLeast DEF N, w, s

\* One token has accrued when the header of who waits for it is over, at any rate
\* if the wait has a floor.
LEMMA OneTokenHeaderSuffices ==
    ASSUME NEW r \in Nat \ {0}, MIN_WAIT > 0 \/ r <= 2 * NANOS_PER_SEC, SCALE <= U64_MAX
    PROVE  SCALE <= refill_tokens(
                http_seconds_ceil(wait_for_tokens(1, r)) * NANOS_PER_SEC, r * SCALE)
<1> DEFINE N == NANOS_PER_SEC
           w == wait_for_tokens(1, r)
           s == http_seconds_ceil(w)
<1>1. N \in Nat \ {0} /\ SCALE \in Nat \ {0} /\ U64_MAX \in Nat /\ MIN_WAIT \in Nat
  BY MathAssumption
<1>2. w \in Nat /\ MIN_WAIT <= w /\ 2 * (1 * N) < 2 * (w * r) + r
  BY WaitBounds
<1>3. s \in Nat /\ w <= s * N
  BY <1>2, SecondsCover
<1> HIDE DEF w, s
<1>4. w # 0
  BY <1>1, <1>2
<1>5. s # 0
  BY <1>1, <1>2, <1>3, <1>4
<1>6. 1 * (SCALE * N) <= (s * r) * (SCALE * N)
  <2>1. s * r \in Nat /\ 1 <= s * r /\ SCALE * N \in Nat
    BY <1>1, <1>3, <1>5
  <2> HIDE DEF N
  <2> QED BY <2>1, KeepFactor
<1>7. (s * r) * (SCALE * N) = (s * N) * (r * SCALE) /\ 1 * (SCALE * N) = SCALE * N
  BY <1>1, <1>3
<1>8. SCALE * N <= (s * N) * (r * SCALE) /\ s * N \in Nat /\ r * SCALE \in Nat
  BY <1>1, <1>3, <1>6, <1>7
<1> QED BY <1>1, <1>8, RefillAtLeast DEF N, w, s

\* The tokens a caller waits for are there a nanosecond after its wait, at the
\* end of it if the rate is exact, and not a nanosecond before it unless it is
\* the floor.
LEMMA WaitIsRight ==
    ASSUME NEW r \in Nat \ {0}, NEW n \in Nat, n * SCALE <= U64_MAX
    PROVE  /\ n * SCALE <= refill_tokens(wait_for_tokens(n, r) + 1, r * SCALE)
           /\ Exact(r * SCALE) =>
                 n * SCALE <= refill_tokens(wait_for_tokens(n, r), r * SCALE)
           /\ wait_for_tokens(n, r) > MIN_WAIT =>
                 refill_tokens(wait_for_tokens(n, r) - 1, r * SCALE) < n * SCALE
<1> DEFINE N == NANOS_PER_SEC
           w == wait_for_tokens(n, r)
           R == r * SCALE
           b == n * SCALE
<1>1. /\ N \in Nat \ {0} /\ SCALE \in Nat \ {0} /\ U64_MAX \in Nat /\ MIN_WAIT \in Nat
      /\ R \in Nat \ {0} /\ b \in Nat /\ n * N \in Nat
  BY MathAssumption
<1>2. /\ w \in Nat
      /\ 2 * (n * N) < 2 * (w * r) + r
      /\ w = MIN_WAIT \/ 2 * (w * r) <= 2 * (n * N) + r
  BY WaitBounds
<1>b. b <= U64_MAX
  OBVIOUS
<1>3. \A x \in Nat : x * R = (x * r) * SCALE /\ x * r \in Nat
  BY <1>1
<1>4. b * N = (n * N) * SCALE
  BY <1>1
<1> HIDE DEF N, w, R, b
<1>5. b <= refill_tokens(w + 1, R)
  <2> DEFINE x == w + 1
  <2>1. x \in Nat /\ x * r = w * r + r /\ w * r \in Nat
    BY <1>2
  <2>2. n * N <= x * r
    BY <1>1, <1>2, <2>1
  <2> HIDE DEF x
  <2>3. (n * N) * SCALE <= (x * r) * SCALE
    BY <1>1, <1>3, <2>1, <2>2, KeepFactor
  <2>4. b * N <= x * R
    BY <1>3, <1>4, <2>1, <2>3
  <2> QED BY <1>1, <1>b, <2>1, <2>4, RefillAtLeast DEF N, x
<1>6. ASSUME Exact(R) PROVE b <= refill_tokens(w, R)
  <2> DEFINE k == N \div R
             m == n * (k * SCALE)
  <2>1. N % R = 0
    BY <1>1, <1>6 DEF Exact, N
  <2>2. k \in Nat /\ N = k * R
    BY <1>1, <2>1
  <2> HIDE DEF k
  <2>3. n * N = m * r /\ m \in Nat
    <3>1. N = (k * SCALE) * r /\ k * SCALE \in Nat
      BY <1>1, <2>2 DEF R
    <3> QED BY <3>1
  <2> HIDE DEF m
  <2>4. m <= w
    <3>1. ASSUME w + 1 <= m PROVE FALSE
      <4>1. (w + 1) * r <= m * r /\ (w + 1) * r = w * r + r /\ w * r \in Nat
        BY <1>2, <2>3, <3>1, KeepFactor
      <4> QED BY <1>1, <1>2, <2>3, <4>1
    <3> QED BY <1>2, <2>3, <3>1
  <2>5. n * N <= w * r /\ w * r \in Nat
    BY <1>2, <2>3, <2>4, KeepFactor
  <2>6. (n * N) * SCALE <= (w * r) * SCALE
    BY <1>1, <2>5, KeepFactor
  <2>7. b * N <= w * R
    BY <1>2, <1>3, <1>4, <2>6
  <2> QED BY <1>1, <1>2, <1>b, <2>7, RefillAtLeast DEF N
<1>7. ASSUME w > MIN_WAIT PROVE refill_tokens(w - 1, R) < b
  <2> DEFINE x == w - 1
  <2>1. x \in Nat /\ x * r = w * r - r /\ w * r \in Nat
    BY <1>1, <1>2, <1>7
  <2>2. x * r < n * N
    BY <1>1, <1>2, <1>7, <2>1
  <2> HIDE DEF x
  <2>3. (x * r) * SCALE < (n * N) * SCALE
    <3>1. x * r + 1 <= n * N /\ x * r \in Nat /\ x * r + 1 \in Nat
      BY <1>1, <1>3, <2>1, <2>2
    <3> DEFINE y == x * r  z == n * N
    <3>2. y \in Nat /\ y + 1 \in Nat /\ z \in Nat /\ y + 1 <= z
      BY <1>1, <3>1
    <3> HIDE DEF y, z
    <3>3. (y + 1) * SCALE <= z * SCALE
      BY <1>1, <3>2, KeepFactor
    <3>4. (y + 1) * SCALE = y * SCALE + SCALE /\ y * SCALE \in Nat /\ z * SCALE \in Nat
      BY <1>1, <3>2
    <3>5. y * SCALE < z * SCALE
      BY <1>1, <3>3, <3>4
    <3> QED BY <3>5 DEF y, z
  <2>4. x * R < b * N
    BY <1>3, <1>4, <2>1, <2>3
  <2> QED BY <1>1, <2>1, <2>4, RefillBelow DEF N, x
<1> QED BY <1>5, <1>6, <1>7 DEF w, R, b
=============================================================================
