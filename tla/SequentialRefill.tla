-------------------------- MODULE SequentialRefill --------------------------
(***************************************************************************)
(* apply_refill with one caller: the bucket is polled at moments nobody    *)
(* chooses, each poll claims whole scaled tokens of the time gone by, and  *)
(* the remainder waits for the next poll.  Every rate of Rates is run.     *)
(*                                                                         *)
(* What the polls yield is compared with what the rate is worth over the   *)
(* whole time: the rounding of one poll is harmless only if it does not    *)
(* add up.  The waits and headers that a decision reports are compared     *)
(* with the same arithmetic.                                               *)
(***************************************************************************)
EXTENDS RefillMath

CONSTANTS
    Rates,      \* refill rates, in tokens per second
    MaxTokens,  \* the largest number of tokens to wait for
    MaxTime,    \* the clock stops here
    MaxRefills  \* and the run after this many credits

ASSUME WalkAssumption ==
    /\ Rates \subseteq Nat
    /\ MaxTokens \in Nat /\ MaxTime \in u64 /\ MaxRefills \in Nat

VARIABLES
    rate,      \* the bucket's rate
    clock,
    polled,    \* the clock at the last poll
    last,      \* last_refill_nanos
    credited,  \* scaled tokens credited in all, without a capacity
    refills    \* polls that credited something

vars == <<rate, clock, polled, last, credited, refills>>

rate_scaled == saturating_mul(rate, SCALE)

Init ==
    /\ rate \in Rates
    /\ clock = 0 /\ polled = 0 /\ last = 0 /\ credited = 0 /\ refills = 0

Tick ==
    /\ clock < MaxTime
    /\ clock' = clock + 1
    /\ UNCHANGED <<rate, polled, last, credited, refills>>

apply_refill ==
    /\ refills < MaxRefills
    /\ polled' = clock
    /\ LET added == refill_tokens(saturating_sub(clock, last), rate_scaled) IN
          /\ last' = saturating_add(last, nanos_for_tokens(added, rate_scaled))
          /\ credited' = credited + added
          /\ refills' = IF added = 0 THEN refills ELSE refills + 1
    /\ UNCHANGED <<rate, clock>>

Next == Tick \/ apply_refill

Spec == Init /\ [][Next]_vars

-----------------------------------------------------------------------------

\* The rates whose scaled token is a whole number of nanoseconds.
IsExact == rate_scaled = 0 \/ NANOS_PER_SEC % rate_scaled = 0

\* A busy key is not starved: polling often, each time for less than a token,
\* yields no less than one poll at the end.
PollingLosesNothing == credited >= refill_tokens(polled, rate_scaled)

\* And it gains nothing, at an exact rate.  At another, nanos_for_tokens rounds
\* the claim down: every refill keeps less than one nanosecond it has credited,
\* which the next one credits again.
PollingGainsLittle ==
    NANOS_PER_SEC * credited <=
       IF IsExact THEN rate_scaled * polled
                  ELSE rate_scaled * (polled + refills)

\* wait_for_tokens: "wait until tokens_needed accrue", "callers that sleep on
\* this value must not over-wait".  The wait is right to the nanosecond: at an
\* exact rate the tokens are there when it ends, at any rate a nanosecond later,
\* and they are not there a nanosecond before it ends.
WaitIsToTheNanosecond ==
    rate > 0 => \A n \in 1..MaxTokens :
        LET wait    == wait_for_tokens(n, rate)
            Has(ns) == refill_tokens(ns, rate_scaled) >= n * SCALE
        IN /\ Has(IF IsExact THEN wait ELSE wait + 1)
           /\ wait > MIN_WAIT => ~ Has(wait - 1)

\* A client that sleeps the whole seconds of its Retry-After header finds its
\* tokens, and never reads 0 from a bucket it has to wait for.
HeaderCoversWait ==
    rate > 0 => \A n \in 1..MaxTokens :
        LET seconds == http_seconds_ceil(wait_for_tokens(n, rate)) IN
           /\ seconds > 0
           /\ refill_tokens(seconds * NANOS_PER_SEC, rate_scaled) >= n * SCALE

\* Where the level stands after the reported reset, the bucket is full.
ResetFillsTheBucket ==
    \A remaining \in 0..MaxTokens :
        LET reset == token_decision(FALSE, remaining, MaxTokens, rate, 1).reset IN
           IF rate = 0
           THEN reset = None
           ELSE remaining * SCALE + refill_tokens(reset + 1, rate_scaled)
                   >= MaxTokens * SCALE
=============================================================================
