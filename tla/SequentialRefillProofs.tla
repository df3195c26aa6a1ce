----------------------- MODULE SequentialRefillProofs -----------------------
(***************************************************************************)
(* What polling a bucket yields, and what its waits and headers promise,   *)
(* for every rate, every number of tokens and every moment of polling.     *)
(***************************************************************************)
EXTENDS SequentialRefill, RefillMathProofs

\* No scaled amount is cut at U64_MAX: the rates and the limits are below
\* U64_MAX / SCALE, about 1.8 * 10^16 tokens in the source.
NothingSaturates ==
    /\ \A r \in Rates : r * SCALE <= U64_MAX
    /\ MaxTokens * SCALE <= U64_MAX

-----------------------------------------------------------------------------
(***************************************************************************)
(* The invariant: the claims made so far stand for no more than what was   *)
(* credited, and for all of it at an exact rate; at another, each refill   *)
(* may have credited up to a nanosecond more than it claimed.              *)
(***************************************************************************)

WalkTyped ==
    /\ rate \in Rates
    /\ clock \in 0..MaxTime /\ polled \in 0..clock /\ last \in 0..polled
    /\ credited \in Nat /\ refills \in Nat

ClaimsAreCredited == rate_scaled * last <= NANOS_PER_SEC * credited

CreditsAreClaimed ==
    NANOS_PER_SEC * credited <=
       IF Exact(rate_scaled) THEN rate_scaled * last
                             ELSE rate_scaled * (last + refills)

WalkInv == WalkTyped /\ ClaimsAreCredited /\ CreditsAreClaimed /\ PollingLosesNothing

\* The scaled rate is a natural number, of at least a unit if the rate is not 0.
LEMMA ScaledRate ==
    ASSUME WalkTyped
    PROVE  rate \in Nat /\ rate_scaled \in Nat
  BY WalkAssumption, MathAssumption DEF WalkTyped, rate_scaled, saturating_mul, MinOf

\* What one poll claims (n) and credits (a) of an interval: no more is claimed
\* than is credited; at an exact rate as much; at another, less than a
\* nanosecond less, and nothing is left behind when nothing was credited.
LEMMA OnePoll ==
    ASSUME NEW e \in u64, NEW R \in Nat, NEW a, NEW n,
           a = refill_tokens(e, R), n = nanos_for_tokens(a, R)
    PROVE  /\ a \in Nat /\ n \in Nat /\ n <= e
           /\ R * n <= NANOS_PER_SEC * a
           /\ Exact(R) => NANOS_PER_SEC * a = R * n
           /\ NANOS_PER_SEC * a <= R * n + (IF a = 0 THEN 0 ELSE R)
<1> DEFINE N == NANOS_PER_SEC
           q == (a * N) \div R
<1>1. N \in Nat \ {0} /\ U64_MAX \in Nat \ {0} /\ e \in Nat /\ e <= U64_MAX
  BY MathAssumption DEF u64
<1>2. a \in Nat /\ n \in Nat /\ n <= e
  BY <1>1, ClaimedWithinElapsed
<1>3. Exact(R) => N * a = R * n
  BY ExactClaim
<1>4. CASE R = 0
  <2>1. e * R < N
    BY <1>1, <1>4
  <2>2. a = 0
    BY <1>1, <2>1, NothingIsWorthNothing
  <2>3. n = 0
    BY <1>4 DEF nanos_for_tokens
  <2> QED BY <1>1, <1>2, <1>3, <1>4, <2>2, <2>3
<1>5. CASE R # 0
  <2>1. a * N \in Nat /\ N * a = a * N
    BY <1>1, <1>2
  <2>2. q \in Nat /\ q * R <= a * N /\ a * N < q * R + R
    BY <1>5, <2>1, DivisionBounds
  <2>3. n = MinOf(q, U64_MAX)
    BY <1>5 DEF nanos_for_tokens
  <2> HIDE DEF q
  <2>4. n <= q
    BY <1>1, <2>2, <2>3 DEF MinOf
  <2>5. n * R <= q * R /\ n * R = R * n /\ n * R \in Nat /\ q * R \in Nat
    BY <1>2, <2>2, <2>4, KeepFactor
  <2>6. R * n <= N * a
    BY <2>1, <2>2, <2>5
  <2>7. n = q
    \* The claim would only be cut if it were longer than the interval.
    <3>1. CASE q <= U64_MAX
      BY <2>3, <3>1 DEF MinOf
    <3>2. CASE q > U64_MAX
      <4>1. a * N <= e * R
        <5> DEFINE p == (e * R) \div N
        <5>1. e * R \in Nat
          BY <1>1
        <5>2. p \in Nat /\ p * N <= e * R
          BY <1>1, <5>1, DivisionBounds
        <5>3. a = MinOf(p, U64_MAX)
          BY DEF refill_tokens
        <5> HIDE DEF p, N
        <5>4. a <= p
          BY <1>1, <5>2, <5>3 DEF MinOf
        <5>5. a * N <= p * N /\ p * N \in Nat
          BY <1>1, <1>2, <5>2, <5>4, KeepFactor
        <5> QED BY <2>1, <5>1, <5>2, <5>5
      <4>2. q * R <= e * R
        BY <1>1, <2>1, <2>2, <2>5, <4>1
      <4>3. q <= e
        BY <1>1, <1>5, <2>2, <4>2, CancelFactor
      <4> QED BY <1>1, <2>2, <3>2, <4>3
    <3> QED BY <1>1, <2>2, <3>1, <3>2
  <2>8. a # 0 => N * a <= R * n + R
    BY <2>1, <2>2, <2>5, <2>7
  <2>9. a = 0 => N * a <= R * n + 0
    BY <1>1, <2>1, <2>5
  <2> QED BY <1>2, <1>3, <2>6, <2>8, <2>9
<1> QED BY <1>4, <1>5

\* What a poll credits, on top of what was credited before it, is worth the whole
\* time up to it.
LEMMA PollCatchesUp ==
    ASSUME NEW R \in Nat, NEW past \in Nat, NEW e \in Nat, NEW c \in Nat,
           R * past <= NANOS_PER_SEC * c
    PROVE  refill_tokens(past + e, R) <= c + refill_tokens(e, R)
<1> DEFINE N == NANOS_PER_SEC
           p == (e * R) \div N
           a == refill_tokens(e, R)
           t == past + e
           all == refill_tokens(t, R)
           b == c + p + 1
<1>1. N \in Nat \ {0} /\ U64_MAX \in Nat /\ e * R \in Nat /\ t \in Nat
  BY MathAssumption
<1>2. p \in Nat /\ e * R < p * N + N
  BY <1>1, DivisionBounds
<1>3. a = MinOf(p, U64_MAX)
  BY DEF refill_tokens
<1>4. all \in Nat /\ all <= U64_MAX
  <2>1. all \in Nat
    BY <1>1, ClaimedWithinElapsed
  <2>2. all = MinOf((t * R) \div N, U64_MAX)
    BY DEF refill_tokens
  <2>3. t * R \in Nat
    BY <1>1
  <2>4. (t * R) \div N \in Nat
    BY <1>1, <2>3, DivisionBounds
  <2> DEFINE x == (t * R) \div N
  <2> HIDE DEF x
  <2>5. x \in Nat /\ all = MinOf(x, U64_MAX)
    BY <2>2, <2>4 DEF x
  <2> QED BY <1>1, <2>1, <2>5 DEF MinOf
<1>5. t * R < b * N
  <2> HIDE DEF p
  <2>1. t * R = R * past + e * R /\ R * past \in Nat
    BY <1>1
  <2>2. b * N = N * c + p * N + N /\ N * c \in Nat /\ p * N \in Nat
    BY <1>1, <1>2
  <2> QED BY <1>1, <1>2, <2>1, <2>2
<1> HIDE DEF p
<1>6. b \in Nat
  BY <1>2
<1> HIDE DEF t, b
<1>7. all < b
  BY <1>1, <1>5, <1>6, RefillBelow DEF N
<1> HIDE DEF all, a
<1>8. all <= c + a
  BY <1>1, <1>2, <1>3, <1>4, <1>7 DEF MinOf, b
<1> QED BY <1>8 DEF all, a, t

\* The invariant holds of a fresh bucket.
LEMMA WalkStarts == Init => WalkInv
<1> SUFFICES ASSUME Init PROVE WalkInv
  OBVIOUS
<1>1. WalkTyped
  BY WalkAssumption, MathAssumption DEF Init, WalkTyped, u64
<1>2. rate_scaled \in Nat /\ NANOS_PER_SEC \in Nat \ {0}
  BY <1>1, ScaledRate, MathAssumption
<1>3. rate_scaled * 0 = 0 /\ NANOS_PER_SEC * 0 = 0 /\ 0 * rate_scaled = 0
  BY <1>2
<1>4. refill_tokens(0, rate_scaled) = 0
  BY <1>2, <1>3, NothingIsWorthNothing
<1> QED BY <1>1, <1>2, <1>3, <1>4
        DEF Init, WalkInv, ClaimsAreCredited, CreditsAreClaimed, PollingLosesNothing

\* The invariant survives a tick.
LEMMA TickWalks == WalkInv /\ Tick => WalkInv'
<1> SUFFICES ASSUME WalkInv, Tick PROVE WalkInv'
  OBVIOUS
<1>1. WalkTyped'
  BY WalkAssumption, MathAssumption DEF WalkInv, WalkTyped, Tick, u64
<1>2. rate_scaled' = rate_scaled
  BY DEF Tick, rate_scaled
<1> QED BY <1>1, <1>2 DEF Tick, WalkInv, ClaimsAreCredited, CreditsAreClaimed, PollingLosesNothing

\* The invariant survives a poll.
LEMMA PollWalks == WalkInv /\ apply_refill => WalkInv'
<1> SUFFICES ASSUME WalkInv, apply_refill PROVE WalkInv'
  OBVIOUS
<1> DEFINE R == rate_scaled
           N == NANOS_PER_SEC
           e == saturating_sub(clock, last)
           a == refill_tokens(e, R)
           n == nanos_for_tokens(a, R)
<1>1. /\ rate \in Rates /\ R \in Nat /\ N \in Nat \ {0} /\ U64_MAX \in Nat
      /\ MaxTime \in Nat /\ MaxTime <= U64_MAX
      /\ clock \in Nat /\ polled \in Nat /\ last \in Nat /\ credited \in Nat /\ refills \in Nat
      /\ clock <= MaxTime /\ polled <= clock /\ last <= polled
  BY ScaledRate, WalkAssumption, MathAssumption DEF WalkInv, WalkTyped, u64
<1>2. e = clock - last /\ e \in Nat /\ e \in u64 /\ last + e = clock
  BY <1>1 DEF saturating_sub, u64
<1>3. /\ polled' = clock /\ rate' = rate /\ clock' = clock
      /\ last' = saturating_add(last, n)
      /\ credited' = credited + a
      /\ refills' = IF a = 0 THEN refills ELSE refills + 1
  BY DEF apply_refill
<1> HIDE DEF e
<1>4. /\ a \in Nat /\ n \in Nat /\ n <= e
      /\ R * n <= N * a
      /\ Exact(R) => N * a = R * n
      /\ N * a <= R * n + (IF a = 0 THEN 0 ELSE R)
  BY <1>1, <1>2, OnePoll
<1>5. R' = R
  BY <1>3 DEF rate_scaled
<1>6. /\ R * last <= N * credited
      /\ N * credited <= IF Exact(R) THEN R * last ELSE R * (last + refills)
  BY DEF WalkInv, ClaimsAreCredited, CreditsAreClaimed
<1>7. refill_tokens(clock, R) <= credited + a
  BY <1>1, <1>2, <1>6, PollCatchesUp DEF N
<1> HIDE DEF R, N, a, n
<1>8. last' = last + n /\ last' <= clock
  BY <1>1, <1>2, <1>3, <1>4 DEF saturating_add, MinOf
<1>9. WalkTyped'
  BY <1>1, <1>3, <1>4, <1>8 DEF WalkTyped
<1>10. R * last' = R * last + R * n /\ N * credited' = N * credited + N * a
  BY <1>1, <1>3, <1>4, <1>8
<1>11. R * last \in Nat /\ R * n \in Nat /\ N * credited \in Nat /\ N * a \in Nat
  BY <1>1, <1>4
<1>12. R * last' <= N * credited'
  BY <1>4, <1>6, <1>10, <1>11
<1>13. N * credited' <= IF Exact(R) THEN R * last' ELSE R * (last' + refills')
  <2>1. CASE Exact(R)
    BY <1>4, <1>6, <1>10, <1>11, <2>1
  <2>2. CASE ~ Exact(R) /\ a = 0
    <3>1. R * (last' + refills') = R * (last + refills) + R * n
      BY <1>1, <1>3, <1>4, <1>8, <2>2
    <3>2. R * (last + refills) \in Nat
      BY <1>1
    <3> QED BY <1>4, <1>6, <1>10, <1>11, <2>2, <3>1, <3>2
  <2>3. CASE ~ Exact(R) /\ a # 0
    <3>1. R * (last' + refills') = R * (last + refills) + R * n + R
      BY <1>1, <1>3, <1>4, <1>8, <2>3
    <3>2. R * (last + refills) \in Nat
      BY <1>1
    <3> QED BY <1>1, <1>4, <1>6, <1>10, <1>11, <2>3, <3>1, <3>2
  <2> QED BY <2>1, <2>2, <2>3
<1>14. ClaimsAreCredited' /\ CreditsAreClaimed'
  BY <1>5, <1>12, <1>13 DEF ClaimsAreCredited, CreditsAreClaimed, R, N
<1>15. PollingLosesNothing'
  <2>1. refill_tokens(clock, R) \in Nat
    BY <1>1, ClaimedWithinElapsed
  <2> QED BY <1>1, <1>3, <1>4, <1>5, <1>7, <2>1 DEF PollingLosesNothing, R
<1> QED BY <1>9, <1>14, <1>15 DEF WalkInv

\* Every state of the walk satisfies the invariant.
LEMMA WalkHolds == Spec => []WalkInv
<1>1. ASSUME WalkInv, [Next]_vars PROVE WalkInv'
  <2>1. CASE Tick
    BY <1>1, <2>1, TickWalks
  <2>2. CASE apply_refill
    BY <1>1, <2>2, PollWalks
  <2>3. CASE UNCHANGED vars
    BY <1>1, <2>3 DEF vars, WalkInv, WalkTyped, ClaimsAreCredited, CreditsAreClaimed,
                      PollingLosesNothing, rate_scaled
  <2> QED BY <1>1, <2>1, <2>2, <2>3 DEF Next
<1> QED BY <1>1, WalkStarts, PTL DEF Spec

-----------------------------------------------------------------------------
(***************************************************************************)
(* Theorems                                                                *)
(***************************************************************************)

\* However often and whenever a bucket is polled, it has been credited at least
\* what one poll at the end would have credited: the time that apply_refill's
\* claim leaves behind is never lost.  At any rate, saturated or not.
THEOREM NothingIsLost == Spec => []PollingLosesNothing
  BY WalkHolds, PTL DEF WalkInv

\* And no more than the rate is worth, at an exact rate; at another, no more than
\* a nanosecond's worth for every refill.
THEOREM LittleIsGained == Spec => []PollingGainsLittle
<1>1. WalkInv => PollingGainsLittle
  <2> SUFFICES ASSUME WalkInv PROVE PollingGainsLittle
    OBVIOUS
  <2> DEFINE R == rate_scaled
  <2>1. /\ R \in Nat /\ NANOS_PER_SEC \in Nat /\ MaxTime \in Nat
        /\ polled \in Nat /\ last \in Nat /\ credited \in Nat /\ refills \in Nat
        /\ last <= polled
    BY ScaledRate, WalkAssumption, MathAssumption DEF WalkInv, WalkTyped, u64
  <2>2. NANOS_PER_SEC * credited <= IF Exact(R) THEN R * last ELSE R * (last + refills)
    BY DEF WalkInv, CreditsAreClaimed
  <2>3. IsExact <=> Exact(R)
    BY DEF IsExact, Exact
  <2> HIDE DEF R
  <2>4. R * last <= R * polled
    BY <2>1
  <2>5. R * (last + refills) <= R * (polled + refills)
    BY <2>1
  <2>6. /\ R * last \in Nat /\ R * polled \in Nat /\ NANOS_PER_SEC * credited \in Nat
        /\ R * (last + refills) \in Nat /\ R * (polled + refills) \in Nat
    BY <2>1
  <2>7. NANOS_PER_SEC * credited <= IF IsExact THEN R * polled ELSE R * (polled + refills)
    BY <2>2, <2>3, <2>4, <2>5, <2>6
  <2> QED BY <2>7 DEF PollingGainsLittle, R
<1> QED BY <1>1, WalkHolds, PTL

\* The scaled rate is not cut, nor the tokens waited for.
LEMMA Unsaturated ==
    ASSUME NothingSaturates, WalkInv
    PROVE  /\ rate \in Nat /\ rate_scaled = rate * SCALE /\ MaxTokens \in Nat
           /\ \A n \in 0..MaxTokens : n \in Nat /\ n * SCALE \in Nat /\ n * SCALE <= U64_MAX
<1>1. /\ rate \in Rates /\ rate \in Nat /\ MaxTokens \in Nat
      /\ SCALE \in Nat \ {0} /\ U64_MAX \in Nat
  BY WalkAssumption, MathAssumption, ScaledRate DEF WalkInv, WalkTyped
<1>2. rate_scaled = rate * SCALE
  <2>1. rate * SCALE <= U64_MAX
    BY <1>1 DEF NothingSaturates
  <2> QED BY <2>1 DEF rate_scaled, saturating_mul, MinOf
<1>3. ASSUME NEW n \in 0..MaxTokens PROVE n \in Nat /\ n * SCALE \in Nat /\ n * SCALE <= U64_MAX
  <2>1. n \in Nat /\ n <= MaxTokens
    BY <1>1
  <2>2. n * SCALE <= MaxTokens * SCALE /\ n * SCALE \in Nat /\ MaxTokens * SCALE \in Nat
    BY <1>1, <2>1, KeepFactor
  <2>3. MaxTokens * SCALE <= U64_MAX
    BY DEF NothingSaturates
  <2> QED BY <1>1, <2>1, <2>2, <2>3
<1> QED BY <1>1, <1>2, <1>3

\* The wait a decision reports is right to the nanosecond, for every number of
\* tokens up to the largest limit and every rate that is not cut.
THEOREM WaitsAreRight == ASSUME NothingSaturates PROVE Spec => []WaitIsToTheNanosecond
<1>1. WalkInv => WaitIsToTheNanosecond
  <2> SUFFICES ASSUME WalkInv, rate > 0, NEW n \in 1..MaxTokens
               PROVE  LET wait    == wait_for_tokens(n, rate)
                          Has(ns) == refill_tokens(ns, rate_scaled) >= n * SCALE
                      IN /\ Has(IF IsExact THEN wait ELSE wait + 1)
                         /\ wait > MIN_WAIT => ~ Has(wait - 1)
    BY DEF WaitIsToTheNanosecond
  <2> DEFINE w == wait_for_tokens(n, rate)
             R == rate * SCALE
  <2>1. /\ rate \in Nat \ {0} /\ rate_scaled = R /\ n \in Nat
        /\ n * SCALE <= U64_MAX /\ n * SCALE \in Nat
    BY Unsaturated
  <2>2. /\ n * SCALE <= refill_tokens(w + 1, R)
        /\ Exact(R) => n * SCALE <= refill_tokens(w, R)
        /\ w > MIN_WAIT => refill_tokens(w - 1, R) < n * SCALE
    BY <2>1, WaitIsRight
  <2>3. IsExact <=> Exact(R)
    BY <2>1 DEF IsExact, Exact
  <2>4. w \in Nat /\ R \in Nat /\ MIN_WAIT \in Nat
    <3>1. w \in Nat
      BY <2>1, WaitBounds
    <3>2. R \in Nat
      BY <2>1, MathAssumption
    <3> QED BY <3>1, <3>2, MathAssumption
  <2> HIDE DEF w, R
  <2>5. /\ refill_tokens(w, R) \in Nat /\ refill_tokens(w + 1, R) \in Nat
        /\ w > MIN_WAIT => refill_tokens(w - 1, R) \in Nat
    <3>1. w + 1 \in Nat /\ (w > MIN_WAIT => w - 1 \in Nat)
      BY <2>4
    <3> QED BY <2>4, <3>1, ClaimedWithinElapsed
  <2>6. refill_tokens(IF IsExact THEN w ELSE w + 1, R) >= n * SCALE
    BY <2>1, <2>2, <2>3, <2>5
  <2>7. w > MIN_WAIT => ~ (refill_tokens(w - 1, R) >= n * SCALE)
    BY <2>1, <2>2, <2>5
  <2> QED BY <2>1, <2>6, <2>7 DEF w
<1> QED BY <1>1, WalkHolds, PTL

\* A client that sleeps the whole seconds of its header finds all the tokens it
\* waits for, and its header is never zero, at up to two tokens a nanosecond (a
\* faster bucket can fall a fraction of a nanosecond's tokens short).
THEOREM HeadersCoverWaits ==
    ASSUME NothingSaturates, \A r \in Rates : r <= 2 * NANOS_PER_SEC
    PROVE  Spec => []HeaderCoversWait
<1>1. WalkInv => HeaderCoversWait
  <2> SUFFICES ASSUME WalkInv, rate > 0, NEW n \in 1..MaxTokens
               PROVE  LET seconds == http_seconds_ceil(wait_for_tokens(n, rate))
                      IN /\ seconds > 0
                         /\ refill_tokens(seconds * NANOS_PER_SEC, rate_scaled) >= n * SCALE
    BY DEF HeaderCoversWait
  <2> DEFINE w == wait_for_tokens(n, rate)
             s == http_seconds_ceil(w)
             N == NANOS_PER_SEC
  <2>1. /\ rate \in Nat \ {0} /\ rate_scaled = rate * SCALE /\ n \in Nat /\ n >= 1
        /\ n * SCALE <= U64_MAX /\ n * SCALE \in Nat
        /\ N \in Nat \ {0} /\ SCALE \in Nat
    BY Unsaturated, MathAssumption
  <2>2. rate <= 2 * N
    BY DEF WalkInv, WalkTyped
  <2>3. n * SCALE <= refill_tokens(s * N, rate * SCALE)
    BY <2>1, <2>2, HeaderSuffices
  <2>4. w \in Nat /\ 2 * (n * N) < 2 * (w * rate) + rate
    BY <2>1, WaitBounds
  <2>5. s \in Nat /\ w <= s * N
    BY <2>4, SecondsCover
  <2> HIDE DEF w, s, N
  <2>6. w # 0
    <3>1. ASSUME w = 0 PROVE FALSE
      <4>1. w * rate = 0
        BY <2>1, <3>1
      <4>2. 1 * N <= n * N /\ n * N \in Nat
        BY <2>1, KeepFactor
      <4> QED BY <2>1, <2>2, <2>4, <4>1, <4>2
    <3> QED BY <3>1
  <2>7. s > 0
    BY <2>1, <2>4, <2>5, <2>6
  <2>8. refill_tokens(s * N, rate * SCALE) \in Nat
    <3>1. s * N \in Nat /\ rate * SCALE \in Nat
      BY <2>1, <2>5
    <3> QED BY <3>1, ClaimedWithinElapsed
  <2> QED BY <2>1, <2>3, <2>7, <2>8 DEF s, w, N
<1> QED BY <1>1, WalkHolds, PTL

\* A caller that waits for the reported reset, and the nanosecond a wait may be
\* short, finds its bucket full, whatever was left in it.
THEOREM ResetsFillBuckets == ASSUME NothingSaturates PROVE Spec => []ResetFillsTheBucket
<1>1. WalkInv => ResetFillsTheBucket
  <2> SUFFICES ASSUME WalkInv, NEW remaining \in 0..MaxTokens
               PROVE  LET reset == token_decision(FALSE, remaining, MaxTokens, rate, 1).reset
                      IN IF rate = 0
                         THEN reset = None
                         ELSE remaining * SCALE + refill_tokens(reset + 1, rate_scaled)
                                 >= MaxTokens * SCALE
    BY DEF ResetFillsTheBucket
  <2> DEFINE m == MaxTokens - remaining
             reset == token_decision(FALSE, remaining, MaxTokens, rate, 1).reset
             R == rate * SCALE
  <2>1. /\ rate \in Nat /\ rate_scaled = R /\ MaxTokens \in Nat /\ remaining \in Nat
        /\ SCALE \in Nat \ {0} /\ U64_MAX \in Nat /\ m \in Nat /\ m \in 0..MaxTokens
        /\ m * SCALE \in Nat /\ m * SCALE <= U64_MAX
    BY Unsaturated, MathAssumption
  <2>2. saturating_sub(MaxTokens, remaining) = m
    BY <2>1 DEF saturating_sub
  <2>3. reset = time_until_full(m, rate)
    BY <2>2 DEF token_decision
  <2>4. CASE rate = 0
    BY <2>3, <2>4 DEF time_until_full
  <2>5. CASE rate # 0
    <3>1. remaining * SCALE + m * SCALE = MaxTokens * SCALE /\ remaining * SCALE \in Nat
      BY <2>1
    <3>2. /\ reset = IF m = 0 THEN 0 ELSE wait_for_tokens(m, rate)
          /\ wait_for_tokens(m, rate) \in Nat
      BY <2>1, <2>3, <2>5, WaitBounds DEF time_until_full
    <3>3. m * SCALE <= refill_tokens(wait_for_tokens(m, rate) + 1, R)
      BY <2>1, <2>5, WaitIsRight
    <3> HIDE DEF reset
    <3>4. R \in Nat /\ reset + 1 \in Nat
      BY <2>1, <3>2
    <3> HIDE DEF R
    <3>5. refill_tokens(reset + 1, R) \in Nat
      BY <3>4, ClaimedWithinElapsed
    <3>6. m * SCALE <= refill_tokens(reset + 1, R)
      <4>1. CASE m = 0
        <5>1. m * SCALE = 0
          BY <2>1, <4>1
        <5> QED BY <3>5, <5>1
      <4>2. CASE m # 0
        BY <3>2, <3>3, <4>2
      <4> QED BY <4>1, <4>2
    <3> DEFINE f == refill_tokens(reset + 1, R)
    <3>7. f \in Nat /\ m * SCALE <= f
      BY <3>5, <3>6
    <3> HIDE DEF f, m
    <3>8. remaining * SCALE + f >= MaxTokens * SCALE
      BY <2>1, <3>1, <3>7
    <3>9. remaining * SCALE + refill_tokens(reset + 1, rate_scaled) >= MaxTokens * SCALE
      BY <2>1, <3>8 DEF f
    <3> QED BY <2>5, <3>9 DEF reset
  <2> QED BY <2>4, <2>5
<1> QED BY <1>1, WalkHolds, PTL
=============================================================================
