------------------------- MODULE ProbabilisticBucket -------------------------
(***************************************************************************)
(* ProbabilisticTokenBucket (src/algorithm/probabilistic_token_bucket.rs), *)
(* without a TTL: threads that call check_impl on one bucket map.  One     *)
(* request in sample_rate is sampled: it refills the bucket and pays for   *)
(* its whole group.  The others only read.  The lookup, the insertion and  *)
(* apply_refill are the code of token_bucket.rs again, in i64: those steps *)
(* are the ones of TokenBucket (Threads).                                  *)
(*                                                                         *)
(* A coin (the sampler's phase, random_fraction_of, admit) is a choice of  *)
(* any value it may give: what holds here holds for every seed.            *)
(***************************************************************************)
EXTENDS RefillMath, FiniteSets

CONSTANTS
    Key, Thread, Ref, NoRef,
    burst,            \* the capacity given to new()
    rate,             \* the refill rate given to new()
    MAX_BURST, MAX_RATE_PER_SEC,
    NoTTL, Cost, MaxTime,
    SampleRate,       \* the sampling rates new() may be given
    Phase,            \* where a new request_tick may start
    I64_MAX           \* 2^63 - 1 in the source

VARIABLES
    clock, shards, tokens, last_refill, last_access, pc, call, state, loaded,
    sweep, created,
    sample_rate,      \* 1 request in sample_rate is sampled
    request_tick,     \* Ref -> the requests of this bucket, modulo 2^64
    observed,         \* Thread -> the fill level it decides on
    debited,          \* history: Ref -> scaled tokens it has been charged
    admitted,         \* history: Ref -> scaled tokens it has let through
    seen              \* history: Thread -> debited when it loaded the tokens

\* What an i64 cuts, Threads cuts at I64_MAX.  idle_ttl is None.
Threads == INSTANCE TokenBucket WITH
              U64_MAX <- I64_MAX, NUM_SHARDS <- 1, idle_ttl <- NoTTL,
              get_shard_index <- [k \in Key |-> 0], granted <- debited

\* The clock stops before 2^63 nanoseconds, where Threads would cut a timestamp.
ASSUME ProbabilisticAssumption ==
    /\ Key # {}
    /\ burst \in Nat /\ rate \in Nat
    /\ MAX_BURST \in Nat /\ MAX_RATE_PER_SEC \in Nat /\ I64_MAX \in Nat \ {0}
    /\ 2 * SCALE * MAX_BURST <= I64_MAX
    /\ NoRef \notin Ref
    /\ NoTTL \notin Nat
    /\ Cost \subseteq u64 /\ Phase \subseteq u64
    /\ SampleRate \subseteq Nat \ {0}
    /\ MaxTime \in 0..I64_MAX

bucket == <<clock, shards, tokens, last_refill, last_access, pc, call, state,
            loaded, sweep, created, debited>>
sampler == <<sample_rate, request_tick, observed, admitted, seen>>
vars == <<bucket, sampler>>

capacity_scaled == Threads!scaled_capacity
cost_scaled(t)  == Threads!token_cost(t)

\* LazyNow before its first get().
Unread == -1

\* What one sampled request pays for its group, and the level from which on
\* every request is admitted.
lump(t) == MinOf(cost_scaled(t) * sample_rate, I64_MAX)

ramp(t) == MaxOf(MinOf(lump(t), capacity_scaled), 1)

\* What admit() may answer.
admit(available, r) ==
    IF available >= r THEN {TRUE} ELSE IF available <= 0 THEN {FALSE} ELSE BOOLEAN

\* Mutant: a whole lump, however little there is.
debit_always(t) == lump(t)

\* lump * admit_probability.
debit(t) == CASE observed[t] >= ramp(t) -> lump(t)
              [] observed[t] <= 0       -> 0
              [] OTHER                  -> (lump(t) * observed[t]) \div ramp(t)

\* The scaled tokens a call asks for.
asked(t) == call[t].cost * SCALE

Init ==
    /\ Threads!Init
    /\ sample_rate \in SampleRate
    /\ request_tick = [r \in Ref |-> 0]
    /\ observed = [t \in Thread |-> 0]
    /\ admitted = [r \in Ref |-> 0]
    /\ seen = [t \in Thread |-> 0]

Tick == Threads!Tick /\ UNCHANGED sampler

-----------------------------------------------------------------------------
(***************************************************************************)
(* check_impl up to the bucket                                             *)
(***************************************************************************)

Goto(t, step) == Threads!Goto(t, step)

HasNow(t) == call[t].now # Unread

Check(t) ==
    /\ pc[t] = "idle"
    /\ \E k \in Key, c \in Cost \ {0} :
          call' = [call EXCEPT ![t] = [key |-> k, cost |-> c, now |-> Unread]]
    /\ Goto(t, "lookup")
    /\ UNCHANGED <<clock, shards, tokens, last_refill, last_access, state, loaded,
                   sweep, created, debited, sampler>>

\* LazyNow::get reads the clock where a call first needs it, and not again.
ReadNow(t) ==
    /\ ~HasNow(t)
    /\ pc[t] \in {"insert", "load_refill", "estimate", "observe"}
    /\ call' = [call EXCEPT ![t].now = clock]
    /\ UNCHANGED <<clock, shards, tokens, last_refill, last_access, pc, state,
                   loaded, sweep, created, debited, sampler>>

Lookup(t) == Threads!Lookup(t) /\ UNCHANGED sampler

\* A new bucket is full, and its sampler starts anywhere.
Insert(t) ==
    /\ HasNow(t)
    /\ Threads!Insert(t)
    /\ \E phase \in Phase :
          request_tick' = [request_tick EXCEPT ![state'[t]] = phase]
    /\ admitted' = [admitted EXCEPT ![state'[t]] = 0]
    /\ UNCHANGED <<sample_rate, observed, seen>>

AlreadyInserted(t) == HasNow(t) /\ Threads!AlreadyInserted(t) /\ UNCHANGED sampler

-----------------------------------------------------------------------------
(***************************************************************************)
(* try_consume_probabilistic                                               *)
(***************************************************************************)

\* try_consume_probabilistic returns `permitted'; its locals are gone.
Decide(t, permitted) ==
    /\ Threads!Return(t)
    /\ admitted' = IF permitted
                   THEN [admitted EXCEPT ![state[t]] = @ + asked(t)]
                   ELSE admitted
    /\ observed' = [observed EXCEPT ![t] = 0]
    /\ seen' = [seen EXCEPT ![t] = 0]

\* A sampling rate of 1: no sampler, straight to apply_refill.
Unsampled(t) ==
    /\ pc[t] = "touch"
    /\ sample_rate = 1
    /\ Goto(t, "load_refill")
    /\ UNCHANGED <<clock, shards, tokens, last_refill, last_access, call, state,
                   loaded, sweep, created, debited, sampler>>

IsSampled(tick) == tick % sample_rate = 0

\* Mutant: one request in 2 * sample_rate is sampled, and pays for sample_rate.
should_sample_halved(t) ==
    LET tick == request_tick[state[t]] IN
    /\ pc[t] = "touch"
    /\ sample_rate > 1
    /\ request_tick' = [request_tick EXCEPT ![state[t]] = (@ + 1) % (U64_MAX + 1)]
    /\ Goto(t, IF tick % (2 * sample_rate) = 0 THEN "observe" ELSE "peek")
    /\ UNCHANGED <<clock, shards, tokens, last_refill, last_access, call, state,
                   loaded, sweep, created, debited, sample_rate, observed,
                   admitted, seen>>

\* fetch_add on the bucket's counter, which wraps.
should_sample(t) ==
    /\ pc[t] = "touch"
    /\ sample_rate > 1
    /\ request_tick' = [request_tick EXCEPT ![state[t]] = (@ + 1) % (U64_MAX + 1)]
    /\ Goto(t, IF IsSampled(request_tick[state[t]]) THEN "observe" ELSE "peek")
    /\ UNCHANGED <<clock, shards, tokens, last_refill, last_access, call, state,
                   loaded, sweep, created, debited, sample_rate, observed,
                   admitted, seen>>

\* A request that is not sampled looks at the tokens before it reads the clock.
PeekAdmits(t) ==
    /\ pc[t] = "peek"
    /\ tokens[state[t]] >= ramp(t)
    /\ Decide(t, TRUE)
    /\ UNCHANGED <<clock, shards, tokens, last_refill, last_access, created,
                   debited, sample_rate, request_tick>>

PeekFails(t) ==
    /\ pc[t] = "peek"
    /\ tokens[state[t]] < ramp(t)
    /\ Goto(t, "estimate")
    /\ UNCHANGED <<clock, shards, tokens, last_refill, last_access, call, state,
                   loaded, sweep, created, debited, sampler>>

-----------------------------------------------------------------------------
(***************************************************************************)
(* Reading the level: the tokens (Acquire), then the timestamp.            *)
(***************************************************************************)

AfterTokens == [estimate |-> "estimate_refill", observe |-> "observe_refill"]

LoadLevel(t) ==
    /\ pc[t] \in DOMAIN AfterTokens
    /\ HasNow(t)
    /\ loaded' = [loaded EXCEPT ![t] = tokens[state[t]]]
    /\ seen' = [seen EXCEPT ![t] = debited[state[t]]]
    /\ Goto(t, AfterTokens[pc[t]])
    /\ UNCHANGED <<clock, shards, tokens, last_refill, last_access, call, state,
                   sweep, created, debited, sample_rate, request_tick, observed,
                   admitted>>

accrued(t) == Threads!accrued_since(t, last_refill[state[t]])

\* random_fraction_of: the fraction is less than 1.
random_fraction_of(n) == IF n <= 0 THEN {0} ELSE 0 .. n - 1

\* The level a thread decides on, `plus' what it counts of the refill.
Observe(t, level, plus, step) ==
    /\ observed' = [observed EXCEPT ![t] = MinOf(level + plus, capacity_scaled)]
    /\ loaded' = [loaded EXCEPT ![t] = 0]
    /\ Goto(t, step)
    /\ UNCHANGED <<clock, shards, tokens, last_refill, last_access, call, state,
                   sweep, created, debited, sample_rate, request_tick, admitted>>

LoadAccrual(t) ==
    \/ /\ pc[t] = "estimate_refill"
       /\ Observe(t, loaded[t], accrued(t), "admit")
       /\ UNCHANGED seen
    \/ /\ pc[t] = "observe_refill"
       /\ \E plus \in random_fraction_of(accrued(t)) :
             Observe(t, loaded[t], plus, "load_refill")
       /\ UNCHANGED seen

\* Mutant: the timestamp, then the tokens.
ReadBackwards(t) ==
    \/ /\ pc[t] \in DOMAIN AfterTokens
       /\ HasNow(t)
       /\ loaded' = [loaded EXCEPT ![t] = accrued(t)]
       /\ Goto(t, AfterTokens[pc[t]])
       /\ UNCHANGED <<clock, shards, tokens, last_refill, last_access, call,
                      state, sweep, created, debited, sampler>>
    \/ /\ pc[t] = "estimate_refill"
       /\ Observe(t, tokens[state[t]], loaded[t], "admit")
       /\ seen' = [seen EXCEPT ![t] = debited[state[t]]]
    \/ /\ pc[t] = "observe_refill"
       /\ \E plus \in random_fraction_of(loaded[t]) :
             Observe(t, tokens[state[t]], plus, "load_refill")
       /\ seen' = [seen EXCEPT ![t] = debited[state[t]]]

ReadLevel(t) == LoadLevel(t) \/ LoadAccrual(t)

Admit(t) ==
    /\ pc[t] = "admit"
    /\ \E permitted \in admit(observed[t], ramp(t)) : Decide(t, permitted)
    /\ UNCHANGED <<clock, shards, tokens, last_refill, last_access, created,
                   debited, sample_rate, request_tick>>

-----------------------------------------------------------------------------
(***************************************************************************)
(* Paying: apply_refill, then the debit of a sampled request or of every   *)
(* request if there is no sampling (consume_exact).                        *)
(***************************************************************************)

\* Mutant: the credit is not cut at the capacity.
apply_refill_uncapped(t) ==
    /\ HasNow(t)
    /\ Threads!Claiming(t) \/ Threads!CreditUncapped(t)
    /\ UNCHANGED sampler

apply_refill(t) ==
    /\ HasNow(t)
    /\ Threads!Claiming(t) \/ Threads!Credit(t)
    /\ UNCHANGED sampler

\* Mutant: a store for the compare-and-swap.
consume_by_store(t) ==
    /\ sample_rate = 1
    /\ \/ /\ Threads!LoadTokens(t) \/ Threads!DebitFails(t) \/ Threads!Deny(t)
          /\ UNCHANGED admitted
       \/ /\ Threads!DebitByStore(t)
          /\ admitted' = [admitted EXCEPT ![state[t]] = @ + asked(t)]
    /\ UNCHANGED <<sample_rate, request_tick, observed, seen>>

consume_exact(t) ==
    /\ sample_rate = 1
    /\ \/ /\ Threads!LoadTokens(t) \/ Threads!DebitFails(t) \/ Threads!Deny(t)
          /\ UNCHANGED admitted
       \/ /\ Threads!Debit(t)
          /\ admitted' = [admitted EXCEPT ![state[t]] = @ + asked(t)]
    /\ UNCHANGED <<sample_rate, request_tick, observed, seen>>

\* Mutant: the overdraft is forgiven.
ChargeDownToZero(t) ==
    /\ pc[t] = "load_tokens"
    /\ sample_rate > 1
    /\ tokens' = [tokens EXCEPT ![state[t]] = MaxOf(@ - debit(t), 0)]
    /\ debited' = [debited EXCEPT ![state[t]] = @ + debit(t)]
    /\ \E permitted \in admit(observed[t], ramp(t)) : Decide(t, permitted)
    /\ UNCHANGED <<clock, shards, last_refill, last_access, created, sample_rate,
                   request_tick>>

\* The sampled request is charged, whether or not it is admitted.
Charge(t) ==
    /\ pc[t] = "load_tokens"
    /\ sample_rate > 1
    /\ tokens' = [tokens EXCEPT ![state[t]] = MaxOf(@ - debit(t), -I64_MAX - 1)]
    /\ debited' = [debited EXCEPT ![state[t]] = @ + debit(t)]
    /\ \E permitted \in admit(observed[t], ramp(t)) : Decide(t, permitted)
    /\ UNCHANGED <<clock, shards, last_refill, last_access, created, sample_rate,
                   request_tick>>

-----------------------------------------------------------------------------

Running(t) ==
    \/ ReadNow(t) \/ Lookup(t) \/ Insert(t) \/ AlreadyInserted(t)
    \/ Unsampled(t) \/ should_sample(t)
    \/ PeekAdmits(t) \/ PeekFails(t) \/ ReadLevel(t) \/ Admit(t)
    \/ apply_refill(t) \/ consume_exact(t) \/ Charge(t)

Next == Tick \/ \E t \in Thread : Check(t) \/ Running(t)

Spec == Init /\ [][Next]_vars

-----------------------------------------------------------------------------
(***************************************************************************)
(* Correctness                                                             *)
(***************************************************************************)

SamplerSteps == {"peek", "estimate", "estimate_refill", "observe",
                 "observe_refill", "admit"}

\* The types of the variables.  Tokens are an i64: no credit takes them above the
\* capacity, and no debt below what an i64 holds; nor does a thread decide on more
\* than the capacity.
TypeOK ==
    /\ pc \in [Thread -> Threads!Steps \cup SamplerSteps]
    /\ call \in [Thread -> [key : Key, cost : Cost \cup {0}, now : Nat \cup {Unread}]]
    /\ tokens \in [Ref -> -I64_MAX - 1 .. capacity_scaled]
    /\ loaded \in [Thread -> Int]
    /\ observed \in [Thread -> Int]
    /\ sample_rate \in SampleRate
    /\ request_tick \in [Ref -> u64]
    /\ admitted \in [Ref -> Nat]
    /\ debited \in [Ref -> Nat]
    /\ \A t \in Thread :
          /\ observed[t] <= capacity_scaled
          /\ seen[t] <= IF state[t] = NoRef THEN 0 ELSE debited[state[t]]

\* A whole group's lump, for a request of the largest cost.
Lump == SCALE * sample_rate * (CHOOSE c \in Cost : \A d \in Cost : d <= c)

\* "The debt always carries" (tokens): at any sampling rate, what is left, below
\* zero or not, what has been charged and what is claimed and not yet credited
\* never exceed the capacity and what has accrued.
DebtCarries == Threads!Ledger

\* The steps at which a thread has observed the level it decides on.
Observed == {"admit", "load_refill", "claim", "credit", "load_tokens"}

\* "A reader that observes a credit also observes the matching claim and cannot
\* double-count the accrual" (estimate): no thread decides on a level that, with
\* what had been charged when it loaded the tokens, exceeds what the bucket has
\* been given.
NeverOverEstimated ==
    \A t \in Thread : pc[t] \in Observed =>
        NANOS_PER_SEC * (observed[t] + seen[t])
        <= NANOS_PER_SEC * capacity_scaled
             + Threads!rate_scaled * (clock - created[state[t]])

\* "Strictly less than one lump when requests are serialized", and "up to one
\* further lump" for each request that observed the level before the others' debits
\* (tokens): the overdraft stays below one lump per thread, once what threads have
\* claimed and not yet credited is counted in.
OverdraftBounded ==
    \A r \in Ref :
        NANOS_PER_SEC * tokens[r]
           + Threads!rate_scaled * Cardinality(Threads!Outstanding(r))
        > -(NANOS_PER_SEC * Cardinality(Thread) * Lump)

\* "A burst against a full bucket can overshoot capacity by up to about one
\* lump": for as long as nothing has accrued, a bucket lets through less than its
\* capacity and a lump for each thread.
BurstOvershoot ==
    \A r \in Ref : clock = created[r] =>
        admitted[r] < capacity_scaled + Cardinality(Thread) * Lump

\* "sample_rate = 1 is exactly the deterministic token bucket": the budget of
\* TokenBucket holds, and the bucket is never overdrawn.
ExactWithoutSampling ==
    sample_rate = 1 =>
        /\ Threads!Budget
        /\ \A r \in Ref : admitted[r] = debited[r] /\ tokens[r] >= 0
=============================================================================
