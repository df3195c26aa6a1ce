---------------------- MODULE ProbabilisticBucketProofs ----------------------
(***************************************************************************)
(* Theorems about ProbabilisticBucket, for any number of keys, threads and *)
(* buckets, any capacity, rate and sampling rate, and every outcome of the *)
(* coins.  Insertions, claims and credits are those of TokenBucket, and so *)
(* are the lemmas about them; what is new is that a sampled request pays   *)
(* for its group, on a level it has read before, and into debt.            *)
(***************************************************************************)
EXTENDS ProbabilisticBucket, RefillMathProofs, FiniteSetTheorems

\* The lemmas about insertions, claims and credits.  What calls cost plays no
\* part in them, nor does what a key is let through.
Facts == INSTANCE TokenBucketProofs WITH
            U64_MAX <- I64_MAX, NUM_SHARDS <- 1, idle_ttl <- NoTTL,
            get_shard_index <- [k \in Key |-> 0], granted <- debited, admitted_now <- admitted,
            Cost <- {}

\* They ask nothing of their constants that these do not satisfy.
LEMMA FactsApply == Facts!BucketAssumption /\ Facts!MathAssumption
  BY ProbabilisticAssumption, MathAssumption
  DEF Facts!BucketAssumption, Facts!MathAssumption, Facts!u64

\* The constants of the two readings of the bucket are the same.
LEMMA SameConstants ==
    /\ Threads!scaled_capacity = Facts!scaled_capacity
    /\ Threads!rate_scaled = Facts!rate_scaled
    /\ capacity_scaled = Facts!scaled_capacity
  BY DEF Threads!scaled_capacity, Threads!rate_scaled, Threads!capacity,
         Threads!refill_rate_per_second, Threads!saturating_mul, Threads!MinOf,
         Facts!scaled_capacity, Facts!rate_scaled, Facts!capacity,
         Facts!refill_rate_per_second, Facts!saturating_mul, Facts!MinOf, capacity_scaled

LEMMA Constants ==
    /\ Facts!scaled_capacity \in Nat /\ Facts!scaled_capacity < I64_MAX
    /\ Facts!rate_scaled \in Nat
    /\ NANOS_PER_SEC \in Nat \ {0} /\ SCALE \in Nat \ {0}
    /\ I64_MAX \in Nat \ {0} /\ U64_MAX \in Nat \ {0}
  BY FactsApply, Facts!ConstantsTyped, ProbabilisticAssumption, MathAssumption

\* So are the sizes of sets, and what accrues.
LEMMA SameSizes == \A S : Facts!Cardinality(S) = Cardinality(S)
  BY DEF Facts!Cardinality, Cardinality

LEMMA SameAccrued ==
    ASSUME NEW t \in Thread
    PROVE  /\ \A x : Threads!accrued_since(t, x) = Facts!accrued_since(t, x)
           /\ Threads!added(t) = Facts!added(t)
           /\ Threads!claimed(t) = Facts!claimed(t)
<1>1. \A x : Threads!accrued_since(t, x) = Facts!accrued_since(t, x)
  BY SameConstants
  DEF Threads!accrued_since, Threads!refill_tokens, Threads!saturating_sub, Threads!MinOf,
      Facts!accrued_since, Facts!refill_tokens, Facts!saturating_sub, Facts!MinOf
<1>2. Threads!added(t) = Facts!added(t)
  BY <1>1 DEF Threads!added, Facts!added
<1>3. Threads!claimed(t) = Facts!claimed(t)
  BY <1>2, SameConstants
  DEF Threads!claimed, Threads!nanos_for_tokens, Threads!MinOf,
      Facts!claimed, Facts!nanos_for_tokens, Facts!MinOf
<1> QED BY <1>1, <1>2, <1>3

\* So are the three steps that move timestamps or claims.
LEMMA SameMoves ==
    ASSUME NEW t \in Thread
    PROVE  /\ Threads!Insert(t) <=> Facts!Insert(t)
           /\ Threads!Claim(t) <=> Facts!Claim(t)
           /\ Threads!Credit(t) <=> Facts!Credit(t)
<1>1. Threads!Insert(t) <=> Facts!Insert(t)
  BY SameConstants
  DEF Threads!Insert, Threads!Free, Threads!Goto, Facts!Insert, Facts!Free, Facts!Goto
<1>2. Threads!Claim(t) <=> Facts!Claim(t)
  BY SameAccrued
  DEF Threads!Claim, Threads!Goto, Threads!history, Threads!saturating_add, Threads!MinOf,
      Facts!Claim, Facts!Goto, Facts!history, Facts!saturating_add, Facts!MinOf
<1>3. Threads!Credit(t) <=> Facts!Credit(t)
  BY SameAccrued, SameConstants
  DEF Threads!Credit, Threads!Goto, Threads!history, Threads!saturating_add, Threads!MinOf,
      Facts!Credit, Facts!Goto, Facts!history, Facts!saturating_add, Facts!MinOf
<1> QED BY <1>1, <1>2, <1>3

\* And so is the ledger.
LEMMA SameLedger ==
    /\ \A r \in Ref : Threads!Outstanding(r) = Facts!Outstanding(r)
    /\ \A S : Threads!Cardinality(S) = Cardinality(S)
    /\ Threads!Ledger <=> Facts!Ledger
    /\ Threads!ExactRate <=> Facts!ExactRate
    /\ Threads!Budget <=> Facts!Budget
<1>1. ASSUME NEW r \in Ref PROVE Threads!Outstanding(r) = Facts!Outstanding(r)
  <2>1. Threads!Crediting(r) = Facts!Crediting(r) /\ Facts!Crediting(r) \subseteq Thread
    BY DEF Threads!Crediting, Facts!Crediting
  <2>2. \A t \in Thread : Threads!Interval(t) = Facts!Interval(t)
    BY SameAccrued DEF Threads!Interval, Facts!Interval
  <2> QED BY <2>1, <2>2 DEF Threads!Outstanding, Facts!Outstanding
<1>2. \A S : Threads!Cardinality(S) = Cardinality(S)
  BY DEF Threads!Cardinality, Cardinality
<1>3. Threads!Ledger <=> Facts!Ledger
  BY <1>1, <1>2, SameSizes, SameConstants DEF Threads!Ledger, Facts!Ledger
<1>4. Threads!ExactRate <=> Facts!ExactRate
  BY SameConstants DEF Threads!ExactRate, Facts!ExactRate
<1>5. Threads!Budget <=> Facts!Budget
  BY SameConstants DEF Threads!Budget, Facts!Budget
<1> QED BY <1>1, <1>2, <1>3, <1>4, <1>5

-----------------------------------------------------------------------------
(***************************************************************************)
(* What a request pays                                                     *)
(***************************************************************************)

\* What a debit is computed from.
Operands ==
    /\ call \in [Thread -> [key : Key, cost : Cost \cup {0}, now : Nat \cup {Unread}]]
    /\ observed \in [Thread -> Int]
    /\ sample_rate \in SampleRate

\* A debit is a natural number, at most the lump, and nothing where nothing has
\* been observed.
LEMMA DebitTyped ==
    ASSUME Operands, NEW t \in Thread
    PROVE  /\ call[t].cost \in Nat
           /\ cost_scaled(t) \in Nat /\ asked(t) \in Nat
           /\ lump(t) \in Nat /\ ramp(t) \in Nat \ {0}
           /\ debit(t) \in Nat /\ debit(t) <= lump(t)
           /\ observed[t] <= 0 => debit(t) = 0
<1>1. call[t].cost \in Nat /\ sample_rate \in Nat \ {0} /\ observed[t] \in Int
  <2>1. call[t].cost \in Cost \cup {0} /\ sample_rate \in SampleRate
    BY DEF Operands
  <2>2. \A c \in Cost : c \in Nat
    BY ProbabilisticAssumption, MathAssumption DEF u64
  <2> QED BY <2>1, <2>2, ProbabilisticAssumption DEF Operands
<1>2. call[t].cost * SCALE \in Nat
  BY <1>1, MathAssumption
<1>3. cost_scaled(t) \in Nat
  BY <1>2, Constants DEF cost_scaled, Threads!token_cost, Threads!saturating_mul, Threads!MinOf
<1>4. cost_scaled(t) * sample_rate \in Nat
  BY <1>1, <1>3
<1>5. lump(t) \in Nat
  BY <1>4, Constants DEF lump, MinOf
<1>6. ramp(t) \in Nat \ {0}
  BY <1>5, Constants, SameConstants DEF ramp, MinOf, MaxOf
<1>7. /\ debit(t) \in Nat /\ debit(t) <= lump(t)
      /\ observed[t] <= 0 => debit(t) = 0
  <2> DEFINE l == lump(t)
             o == observed[t]
             p == ramp(t)
  <2>1. l \in Nat /\ p \in Nat \ {0} /\ o \in Int
    BY <1>1, <1>5, <1>6
  <2>2. debit(t) = CASE o >= p -> l [] o <= 0 -> 0 [] OTHER -> (l * o) \div p
    BY DEF debit
  <2> HIDE DEF l, o, p
  <2>3. CASE o >= p
    BY <2>1, <2>2, <2>3 DEF l, o
  <2>4. CASE o <= 0
    BY <2>1, <2>2, <2>4 DEF l, o
  <2>5. CASE o > 0 /\ o < p
    <3>1. debit(t) = (l * o) \div p
      BY <2>1, <2>2, <2>5
    <3>2. o \in Nat /\ l * o \in Nat /\ l * o <= l * p /\ l * p \in Nat
      BY <2>1, <2>5, KeepFactor
    <3>3. /\ (l * o) \div p \in Nat
          /\ p * ((l * o) \div p) <= l * o
      BY <2>1, <3>2, DivisionBounds
    <3>4. (l * o) \div p <= l
      <4> DEFINE q == (l * o) \div p
      <4>1. q \in Nat /\ p * q <= p * l
        BY <2>1, <3>2, <3>3
      <4> HIDE DEF q
      <4>2. q <= l
        BY <2>1, <4>1, CancelFactor
      <4> QED BY <4>2 DEF q
    <3> QED BY <2>1, <2>5, <3>1, <3>3, <3>4 DEF l, o
  <2> QED BY <2>1, <2>3, <2>4, <2>5
<1> QED BY <1>1, <1>2, <1>3, <1>5, <1>6, <1>7 DEF asked

-----------------------------------------------------------------------------
(***************************************************************************)
(* Type correctness                                                        *)
(***************************************************************************)

\* Where a thread holds no bucket, and where it has read the clock for certain:
\* what follows the reading of a level, and a claim.
Unheld == {"idle", "lookup", "insert"}
Timed  == {"estimate_refill", "observe_refill", "admit", "claim", "credit",
           "load_tokens", "debit"}

\* Without sampling no thread observes anything; with it none takes the way of
\* consume_exact.
SamplingInv ==
    /\ sample_rate = 1 => \A t \in Thread :
          /\ pc[t] \notin SamplerSteps
          /\ observed[t] = 0 /\ seen[t] = 0
    /\ sample_rate > 1 => \A t \in Thread : pc[t] # "debit"
    /\ \A t \in Thread :
          pc[t] \in Timed \/ (pc[t] = "load_refill" /\ sample_rate > 1) => HasNow(t)

\* The types of all variables, and what a thread's step says of its locals.
TypeInv ==
    /\ clock \in 0..MaxTime
    /\ shards \in [Key -> Ref \cup {NoRef}]
    /\ tokens \in [Ref -> Int]
    /\ last_refill \in [Ref -> Nat]
    /\ created \in [Ref -> Nat]
    /\ pc \in [Thread -> Threads!Steps \cup SamplerSteps]
    /\ call \in [Thread -> [key : Key, cost : Cost \cup {0}, now : Nat \cup {Unread}]]
    /\ state \in [Thread -> Ref \cup {NoRef}]
    /\ loaded \in [Thread -> Int]
    /\ observed \in [Thread -> Int]
    /\ seen \in [Thread -> Int]
    /\ sample_rate \in SampleRate
    /\ request_tick \in [Ref -> u64]
    /\ admitted \in [Ref -> Nat]
    /\ debited \in [Ref -> Nat]
    /\ SamplingInv
    /\ \A t \in Thread :
          /\ state[t] = NoRef <=> pc[t] \in Unheld
          /\ observed[t] <= capacity_scaled
          /\ seen[t] <= IF state[t] = NoRef THEN 0 ELSE debited[state[t]]
          /\ pc[t] \in {"claim", "credit"} => loaded[t] \in Nat

LEMMA TypesFollow == TypeInv => Operands /\ Facts!ClockTypes
<1> SUFFICES ASSUME TypeInv PROVE Operands /\ Facts!ClockTypes
  OBVIOUS
<1>1. \E Labels : pc \in [Thread -> Labels]
  BY DEF TypeInv
<1>2. \A t \in Thread : call[t].now \in Int
  BY DEF TypeInv, Unread
<1>3. \A t \in Thread : pc[t] \in {"claim", "credit"} => state[t] \in Ref /\ loaded[t] \in Nat
  BY DEF TypeInv, Unheld
<1>4. Facts!ClockTypes
  BY <1>1, <1>2, <1>3 DEF TypeInv, Facts!ClockTypes
<1> QED BY <1>4 DEF TypeInv, Operands

LEMMA NextTypesFollow == TypeInv' => Operands' /\ Facts!ClockTypes'
  BY TypesFollow, PTL

\* The initial state has its types.
LEMMA InitTypeInv == Init => TypeInv
<1> SUFFICES ASSUME Init PROVE TypeInv
  OBVIOUS
<1>1. /\ clock = 0 /\ shards = [k \in Key |-> NoRef]
      /\ tokens = [r \in Ref |-> 0] /\ last_refill = [r \in Ref |-> 0]
      /\ pc = [t \in Thread |-> "idle"] /\ state = [t \in Thread |-> NoRef]
      /\ call = [t \in Thread |-> Threads!NoCall]
      /\ loaded = [t \in Thread |-> 0]
      /\ created = [r \in Ref |-> 0] /\ debited = [r \in Ref |-> 0]
      /\ sample_rate \in SampleRate /\ request_tick = [r \in Ref |-> 0]
      /\ observed = [t \in Thread |-> 0] /\ admitted = [r \in Ref |-> 0]
      /\ seen = [t \in Thread |-> 0]
  BY DEF Init, Threads!Init
<1>2. Threads!NoCall \in [key : Key, cost : Cost \cup {0}, now : Nat \cup {Unread}]
  BY ProbabilisticAssumption DEF Threads!NoCall
<1>3. 0 \in 0..MaxTime /\ 0 \in u64
  BY ProbabilisticAssumption, Constants DEF u64
<1>4. SamplingInv
  BY <1>1 DEF SamplingInv, SamplerSteps, Timed
<1>5. \A t \in Thread : observed[t] <= capacity_scaled
  BY <1>1, Constants, SameConstants
<1> QED BY <1>1, <1>2, <1>3, <1>4, <1>5 DEF TypeInv, Unheld, Threads!Steps

\* A call that returns from a bucket.
LEMMA ReturnTyped ==
    ASSUME TypeInv, NEW t \in Thread, NEW permitted, Decide(t, permitted), state[t] \in Ref
    PROVE  /\ pc' = [pc EXCEPT ![t] = "idle"]
           /\ call' \in [Thread -> [key : Key, cost : Cost \cup {0}, now : Nat \cup {Unread}]]
           /\ state' = [state EXCEPT ![t] = NoRef]
           /\ loaded' = [loaded EXCEPT ![t] = 0]
           /\ observed' = [observed EXCEPT ![t] = 0]
           /\ seen' = [seen EXCEPT ![t] = 0]
           /\ \A u \in Thread : u # t => call'[u] = call[u]
           /\ admitted' \in [Ref -> Nat]
<1>1. Threads!NoCall \in [key : Key, cost : Cost \cup {0}, now : Nat \cup {Unread}]
  BY ProbabilisticAssumption DEF Threads!NoCall
<1>2. call' = [call EXCEPT ![t] = Threads!NoCall]
  BY DEF Decide, Threads!Return
<1>3. asked(t) \in Nat
  BY TypesFollow, DebitTyped
<1>4. admitted' \in [Ref -> Nat]
  BY <1>3 DEF Decide, TypeInv
<1> QED BY <1>1, <1>2, <1>4 DEF Decide, Threads!Return, Threads!Goto, TypeInv

\* What accrues is a natural number.
LEMMA AccrualTyped ==
    ASSUME TypeInv, NEW t \in Thread, NEW x \in Int
    PROVE  Threads!accrued_since(t, x) \in Nat
<1>1. call[t].now \in Int
  BY DEF TypeInv, Unread
<1>2. Facts!saturating_sub(call[t].now, x) \in Nat
  BY <1>1 DEF Facts!saturating_sub
<1>3. Facts!accrued_since(t, x) \in Nat
  BY <1>2, FactsApply, Constants, Facts!ClaimedWithinElapsed DEF Facts!accrued_since
<1> QED BY <1>3, SameAccrued

\* It leaves the types right, whatever it has charged.
LEMMA ReturnKeepsTypes ==
    ASSUME TypeInv, NEW t \in Thread, NEW permitted, Decide(t, permitted), state[t] \in Ref,
           tokens' \in [Ref -> Int], debited' \in [Ref -> Nat],
           \A r \in Ref : debited[r] <= debited'[r],
           UNCHANGED <<clock, shards, last_refill, created, sample_rate, request_tick>>
    PROVE  TypeInv'
<1> USE DEF TypeInv
<1>1. /\ pc' = [pc EXCEPT ![t] = "idle"]
      /\ call' \in [Thread -> [key : Key, cost : Cost \cup {0}, now : Nat \cup {Unread}]]
      /\ state' = [state EXCEPT ![t] = NoRef]
      /\ loaded' = [loaded EXCEPT ![t] = 0]
      /\ observed' = [observed EXCEPT ![t] = 0]
      /\ seen' = [seen EXCEPT ![t] = 0]
      /\ \A u \in Thread : u # t => call'[u] = call[u]
      /\ admitted' \in [Ref -> Nat]
  BY ReturnTyped
<1>2. SamplingInv'
  BY <1>1 DEF SamplingInv, SamplerSteps, Timed, HasNow
<1>3. \A u \in Thread : state'[u] = NoRef <=> pc'[u] \in Unheld
  BY <1>1 DEF Unheld
<1>4. \A u \in Thread :
          /\ observed'[u] <= capacity_scaled
          /\ pc'[u] \in {"claim", "credit"} => loaded'[u] \in Nat
  BY <1>1, Constants, SameConstants
<1>5. \A u \in Thread : seen'[u] <= IF state'[u] = NoRef THEN 0 ELSE debited'[state'[u]]
  <2>1. ASSUME NEW u \in Thread, u # t
        PROVE  seen'[u] <= IF state'[u] = NoRef THEN 0 ELSE debited'[state'[u]]
    BY <1>1, <2>1
  <2> QED BY <1>1, <2>1
<1>6. /\ pc' \in [Thread -> Threads!Steps \cup SamplerSteps]
      /\ state' \in [Thread -> Ref \cup {NoRef}]
      /\ loaded' \in [Thread -> Int] /\ observed' \in [Thread -> Int] /\ seen' \in [Thread -> Int]
  BY <1>1 DEF Threads!Steps
<1>7. capacity_scaled' = capacity_scaled
  BY DEF capacity_scaled
<1>8. \A u \in Thread :
          /\ state'[u] = NoRef <=> pc'[u] \in Unheld
          /\ observed'[u] <= capacity_scaled'
          /\ seen'[u] <= IF state'[u] = NoRef THEN 0 ELSE debited'[state'[u]]
          /\ pc'[u] \in {"claim", "credit"} => loaded'[u] \in Nat
  BY <1>3, <1>4, <1>5, <1>7
<1>9. /\ clock' \in 0..MaxTime
      /\ shards' \in [Key -> Ref \cup {NoRef}]
      /\ last_refill' \in [Ref -> Nat]
      /\ created' \in [Ref -> Nat]
      /\ sample_rate' \in SampleRate
      /\ request_tick' \in [Ref -> u64]
  OBVIOUS
<1> QED BY <1>1, <1>2, <1>6, <1>8, <1>9

\* Every step keeps the types.
LEMMA NextTypeInv == TypeInv /\ [Next]_vars => TypeInv'
<1> SUFFICES ASSUME TypeInv, [Next]_vars PROVE TypeInv'
  OBVIOUS
<1> USE DEF TypeInv, SamplingInv, SamplerSteps, Unheld, Timed, HasNow, Unread,
            Threads!Steps, Threads!Consuming
<1>1. CASE UNCHANGED vars
  BY <1>1 DEF vars, bucket, sampler, capacity_scaled
<1>2. CASE Tick
  BY <1>2, ProbabilisticAssumption DEF Tick, Threads!Tick, Threads!shared, Threads!history, sampler
<1>3. ASSUME NEW t \in Thread, Check(t) PROVE TypeInv'
  BY <1>3 DEF Check, Goto, Threads!Goto, sampler
<1>4. ASSUME NEW t \in Thread, ReadNow(t) PROVE TypeInv'
  <2>1. /\ call' \in [Thread -> [key : Key, cost : Cost \cup {0}, now : Nat \cup {Unread}]]
        /\ \A u \in Thread : HasNow(u) => HasNow(u)'
    <3>1. call' = [call EXCEPT ![t].now = clock] /\ clock \in Nat
      BY <1>4, ProbabilisticAssumption DEF ReadNow
    <3>2. call'[t] = [call[t] EXCEPT !.now = clock] /\ call'[t].now = clock
      <4>1. call[t] \in [key : Key, cost : Cost \cup {0}, now : Nat \cup {Unread}]
        OBVIOUS
      <4>2. call'[t] = [call[t] EXCEPT !.now = clock]
        BY <3>1
      <4> QED BY <4>1, <4>2
    <3>3. \A u \in Thread : u # t => call'[u] = call[u]
      BY <3>1
    <3>4. call' \in [Thread -> [key : Key, cost : Cost \cup {0}, now : Nat \cup {Unread}]]
      <4>1. call'[t] \in [key : Key, cost : Cost \cup {0}, now : Nat \cup {Unread}]
        BY <3>1, <3>2
      <4> QED BY <3>1, <3>3, <4>1
    <3> QED BY <3>1, <3>2, <3>3, <3>4
  <2>2. UNCHANGED <<clock, shards, tokens, last_refill, created, pc, state, loaded, observed, seen,
                    sample_rate, request_tick, admitted, debited>>
    BY <1>4 DEF ReadNow, sampler
  <2>3. SamplingInv'
    BY <2>1, <2>2
  <2>4. capacity_scaled' = capacity_scaled
    BY DEF capacity_scaled
  <2> HIDE DEF SamplingInv
  <2> QED BY <2>1, <2>2, <2>3, <2>4
<1>5. ASSUME NEW t \in Thread, Lookup(t) PROVE TypeInv'
  BY <1>5, ProbabilisticAssumption
  DEF Lookup, Threads!Lookup, Threads!Goto, Threads!shared, Threads!history, sampler
<1>6. ASSUME NEW t \in Thread, Insert(t) PROVE TypeInv'
  BY <1>6, ProbabilisticAssumption, Constants, SameConstants
  DEF Insert, Threads!Insert, Threads!Free, Threads!Goto
<1>7. ASSUME NEW t \in Thread, AlreadyInserted(t) PROVE TypeInv'
  BY <1>7, ProbabilisticAssumption
  DEF AlreadyInserted, Threads!AlreadyInserted, Threads!Goto, Threads!shared, Threads!history,
      sampler
<1>8. ASSUME NEW t \in Thread, Unsampled(t) PROVE TypeInv'
  BY <1>8 DEF Unsampled, Goto, Threads!Goto, sampler
<1>9. ASSUME NEW t \in Thread, should_sample(t) PROVE TypeInv'
  BY <1>9, Constants DEF should_sample, Goto, Threads!Goto, u64
<1>10. ASSUME NEW t \in Thread, PeekAdmits(t) PROVE TypeInv'
  <2>1. Decide(t, TRUE) /\ state[t] \in Ref
    BY <1>10 DEF PeekAdmits
  <2>2. tokens' \in [Ref -> Int] /\ debited' \in [Ref -> Nat] /\ \A r \in Ref : debited[r] <= debited'[r]
    BY <1>10 DEF PeekAdmits
  <2> HIDE DEF TypeInv
  <2>3. UNCHANGED <<clock, shards, last_refill, created, sample_rate, request_tick>>
    BY <1>10 DEF PeekAdmits
  <2> QED BY <2>1, <2>2, <2>3, ReturnKeepsTypes
<1>11. ASSUME NEW t \in Thread, PeekFails(t) PROVE TypeInv'
  BY <1>11 DEF PeekFails, Goto, Threads!Goto, sampler
<1>12. ASSUME NEW t \in Thread, LoadLevel(t) PROVE TypeInv'
  BY <1>12 DEF LoadLevel, AfterTokens, Goto, Threads!Goto
<1>13. ASSUME NEW t \in Thread, LoadAccrual(t) PROVE TypeInv'
  <2>1. PICK plus \in Nat, step \in {"admit", "load_refill"} :
          /\ Observe(t, loaded[t], plus, step)
          /\ \/ pc[t] = "estimate_refill" /\ step = "admit"
             \/ pc[t] = "observe_refill" /\ step = "load_refill"
    <3>1. accrued(t) \in Nat
      <4>1. last_refill[state[t]] \in Int
        BY <1>13 DEF LoadAccrual
      <4>2. TypeInv
        OBVIOUS
      <4> HIDE DEF TypeInv
      <4> QED BY <4>1, <4>2, AccrualTyped DEF accrued
    <3>2. \A plus \in random_fraction_of(accrued(t)) : plus \in Nat
      BY <3>1 DEF random_fraction_of
    <3>3. \/ pc[t] = "estimate_refill" /\ Observe(t, loaded[t], accrued(t), "admit")
          \/ /\ pc[t] = "observe_refill"
             /\ \E plus \in random_fraction_of(accrued(t)) :
                   Observe(t, loaded[t], plus, "load_refill")
      BY <1>13 DEF LoadAccrual
    <3> QED BY <3>1, <3>2, <3>3
  <2>2. /\ observed' = [observed EXCEPT ![t] = MinOf(loaded[t] + plus, capacity_scaled)]
        /\ loaded' = [loaded EXCEPT ![t] = 0]
        /\ pc' = [pc EXCEPT ![t] = step]
        /\ UNCHANGED <<clock, shards, tokens, last_refill, call, state, seen,
                       created, debited, sample_rate, request_tick, admitted>>
    BY <1>13, <2>1 DEF Observe, Goto, Threads!Goto, LoadAccrual
  <2>3. /\ MinOf(loaded[t] + plus, capacity_scaled) \in Int
        /\ MinOf(loaded[t] + plus, capacity_scaled) <= capacity_scaled
    BY <2>1, Constants, SameConstants DEF MinOf
  <2>4. capacity_scaled' = capacity_scaled
    BY DEF capacity_scaled
  <2> HIDE DEF capacity_scaled
  <2> QED BY <2>1, <2>2, <2>3, <2>4
<1>14. ASSUME NEW t \in Thread, Admit(t) PROVE TypeInv'
  <2>1. PICK permitted : Decide(t, permitted)
    BY <1>14 DEF Admit
  <2>2. /\ tokens' \in [Ref -> Int] /\ debited' \in [Ref -> Nat] /\ state[t] \in Ref
        /\ \A r \in Ref : debited[r] <= debited'[r]
    BY <1>14 DEF Admit
  <2> HIDE DEF TypeInv
  <2> QED BY <1>14, <2>1, <2>2, ReturnKeepsTypes DEF Admit
<1>15. ASSUME NEW t \in Thread, apply_refill(t) PROVE TypeInv'
  <2>1. CASE Threads!NothingAccrued(t)
    BY <1>15, <2>1
    DEF apply_refill, Threads!NothingAccrued, Threads!Goto, Threads!shared, Threads!history, sampler
  <2>2. CASE Threads!LoadRefill(t)
    BY <1>15, <2>2
    DEF apply_refill, Threads!LoadRefill, Threads!Goto, Threads!shared, Threads!history, sampler
  <2>3. CASE Threads!Claim(t)
    <3>1. Threads!saturating_add(loaded[t], Threads!claimed(t)) \in Nat
      <4>1. Facts!claimed(t) \in Nat
        BY TypesFollow, FactsApply, Facts!AccruedTyped
      <4> QED BY <2>3, <4>1, SameAccrued, Constants
              DEF Threads!Claim, Threads!saturating_add, Threads!MinOf
    <3> QED BY <1>15, <2>3, <3>1
            DEF apply_refill, Threads!Claim, Threads!Goto, Threads!history, sampler
  <2>4. CASE Threads!ClaimFails(t)
    BY <1>15, <2>4
    DEF apply_refill, Threads!ClaimFails, Threads!Goto, Threads!shared, Threads!history, sampler
  <2>5. CASE Threads!Credit(t)
    <3>1. tokens' \in [Ref -> Int]
      <4>1. Facts!added(t) \in Nat
        BY TypesFollow, FactsApply, Facts!AccruedTyped
      <4>2. \A x \in Int : Threads!MinOf(Threads!saturating_add(x, Threads!added(t)),
                                        Threads!scaled_capacity) \in Int
        BY <4>1, SameAccrued, SameConstants, Constants
        DEF Threads!MinOf, Threads!saturating_add
      <4> QED BY <2>5, <4>2 DEF Threads!Credit
    <3> QED BY <1>15, <2>5, <3>1
            DEF apply_refill, Threads!Credit, Threads!Goto, Threads!history, sampler
  <2> QED BY <1>15, <2>1, <2>2, <2>3, <2>4, <2>5 DEF apply_refill, Threads!Claiming
<1>16. ASSUME NEW t \in Thread, consume_exact(t) PROVE TypeInv'
  <2>1. UNCHANGED <<sample_rate, request_tick, observed, seen>> /\ sample_rate = 1
    BY <1>16 DEF consume_exact
  <2>2. CASE Threads!LoadTokens(t) /\ UNCHANGED admitted
    BY <1>16, <2>1, <2>2 DEF Threads!LoadTokens, Threads!Goto, Threads!shared, Threads!history
  <2>3. CASE Threads!DebitFails(t) /\ UNCHANGED admitted
    BY <1>16, <2>1, <2>3 DEF Threads!DebitFails, Threads!Goto, Threads!shared, Threads!history
  <2>4. Threads!NoCall \in [key : Key, cost : Cost \cup {0}, now : Nat \cup {Unread}]
    BY ProbabilisticAssumption DEF Threads!NoCall
  <2>5. CASE Threads!Deny(t) /\ UNCHANGED admitted
    BY <1>16, <2>1, <2>4, <2>5
    DEF Threads!Deny, Threads!Return, Threads!Goto, Threads!shared, Threads!history
  <2>6. CASE Threads!Debit(t) /\ admitted' = [admitted EXCEPT ![state[t]] = @ + asked(t)]
    <3>1. asked(t) \in Nat /\ cost_scaled(t) \in Nat /\ asked(t) = call[t].cost * SCALE
      BY TypesFollow, DebitTyped DEF asked
    <3>2. state[t] \in Ref
      BY <2>6 DEF Threads!Debit
    <3>3. /\ tokens' \in [Ref -> Int] /\ admitted' \in [Ref -> Nat] /\ debited' \in [Ref -> Nat]
          /\ \A r \in Ref : debited[r] <= debited'[r]
      BY <2>6, <3>1, <3>2 DEF Threads!Debit, cost_scaled
    <3> QED BY <2>1, <2>4, <2>6, <3>2, <3>3
            DEF Threads!Debit, Threads!Return, Threads!Goto, Threads!history
  <2> QED BY <1>16, <2>2, <2>3, <2>5, <2>6 DEF consume_exact
<1>17. ASSUME NEW t \in Thread, Charge(t) PROVE TypeInv'
  <2>1. PICK permitted : Decide(t, permitted)
    BY <1>17 DEF Charge
  <2>2. debit(t) \in Nat /\ state[t] \in Ref
    BY <1>17, TypesFollow, DebitTyped DEF Charge
  <2>3. /\ tokens' \in [Ref -> Int]
        /\ debited' \in [Ref -> Nat]
        /\ \A r \in Ref : debited[r] <= debited'[r]
    BY <1>17, <2>2, Constants DEF Charge, MaxOf
  <2> QED BY <1>17, <2>1, <2>2, <2>3, ReturnKeepsTypes DEF Charge
<1> QED
  BY <1>1, <1>2, <1>3, <1>4, <1>5, <1>6, <1>7, <1>8, <1>9, <1>10, <1>11, <1>12, <1>13,
     <1>14, <1>15, <1>16, <1>17
  DEF Next, Running, ReadLevel

-----------------------------------------------------------------------------
(***************************************************************************)
(* What kinds of steps there are                                           *)
(***************************************************************************)

\* The debit of a request that is not sampled because none is.
ExactDebit(t) == Threads!Debit(t) /\ admitted' = [admitted EXCEPT ![state[t]] = @ + asked(t)]

\* A step that leaves alone what buckets hold, what they have been charged, and
\* all that is claimed.
Quiet == Facts!Still /\ UNCHANGED <<tokens, debited>>

\* Every step is quiet, or moves timestamps or claims, or takes tokens.
LEMMA StepKinds ==
    ASSUME TypeInv, [Next]_vars
    PROVE  \/ Quiet
           \/ \E t \in Thread : Facts!Moves(t)
           \/ \E t \in Thread : Charge(t) /\ Facts!Still
           \/ \E t \in Thread : sample_rate = 1 /\ ExactDebit(t) /\ Facts!Still
<1> USE DEF TypeInv, Quiet, Facts!Still, Goto, Threads!Goto, Threads!shared, Threads!history
<1>1. CASE UNCHANGED vars
  BY <1>1 DEF vars, bucket
<1>2. CASE Tick
  BY <1>2 DEF Tick, Threads!Tick
<1>3. ASSUME NEW t \in Thread, Check(t) PROVE Quiet
  BY <1>3 DEF Check
<1>4. ASSUME NEW t \in Thread, ReadNow(t) PROVE Quiet
  BY <1>4 DEF ReadNow
<1>5. ASSUME NEW t \in Thread, Lookup(t) PROVE Quiet
  BY <1>5 DEF Lookup, Threads!Lookup
<1>6. ASSUME NEW t \in Thread, Insert(t) PROVE Facts!Moves(t)
  BY <1>6, SameMoves DEF Insert, Facts!Moves
<1>7. ASSUME NEW t \in Thread, AlreadyInserted(t) PROVE Quiet
  BY <1>7 DEF AlreadyInserted, Threads!AlreadyInserted
<1>8. ASSUME NEW t \in Thread, Unsampled(t) \/ should_sample(t) PROVE Quiet
  BY <1>8 DEF Unsampled, should_sample
<1>9. ASSUME NEW t \in Thread, NEW permitted, Decide(t, permitted), pc[t] # "credit",
             UNCHANGED <<last_refill, created>>
      PROVE  Facts!Still
  BY <1>9 DEF Decide, Threads!Return
<1>10. ASSUME NEW t \in Thread, PeekAdmits(t) PROVE Quiet
  BY <1>9, <1>10 DEF PeekAdmits
<1>11. ASSUME NEW t \in Thread, PeekFails(t) PROVE Quiet
  BY <1>11 DEF PeekFails
<1>12. ASSUME NEW t \in Thread, LoadLevel(t) PROVE Quiet
  BY <1>12 DEF LoadLevel, AfterTokens
<1>13. ASSUME NEW t \in Thread, LoadAccrual(t) PROVE Quiet
  BY <1>13 DEF LoadAccrual, Observe
<1>14. ASSUME NEW t \in Thread, Admit(t) PROVE Quiet
  BY <1>9, <1>14 DEF Admit
<1>15. ASSUME NEW t \in Thread, apply_refill(t) PROVE Quiet \/ Facts!Moves(t)
  <2>1. CASE Threads!NothingAccrued(t) \/ Threads!LoadRefill(t) \/ Threads!ClaimFails(t)
    BY <2>1 DEF Threads!NothingAccrued, Threads!LoadRefill, Threads!ClaimFails
  <2>2. CASE Threads!Claim(t) \/ Threads!Credit(t)
    BY <2>2, SameMoves DEF Facts!Moves
  <2> QED BY <1>15, <2>1, <2>2 DEF apply_refill, Threads!Claiming
<1>16. ASSUME NEW t \in Thread, consume_exact(t)
       PROVE  Quiet \/ (sample_rate = 1 /\ ExactDebit(t) /\ Facts!Still)
  <2>1. CASE Threads!LoadTokens(t) \/ Threads!DebitFails(t) \/ Threads!Deny(t)
    BY <2>1 DEF Threads!LoadTokens, Threads!DebitFails, Threads!Deny, Threads!Return
  <2>2. CASE ExactDebit(t)
    <3>1. Facts!Still
      BY <2>2 DEF ExactDebit, Threads!Debit, Threads!Return
    <3> QED BY <1>16, <2>2, <3>1 DEF consume_exact
  <2> QED BY <1>16, <2>1, <2>2 DEF consume_exact, ExactDebit
<1>17. ASSUME NEW t \in Thread, Charge(t) PROVE Facts!Still
  BY <1>9, <1>17 DEF Charge
<1> QED
  BY <1>1, <1>2, <1>3, <1>4, <1>5, <1>6, <1>7, <1>8, <1>10, <1>11, <1>12, <1>13,
     <1>14, <1>15, <1>16, <1>17
  DEF Next, Running, ReadLevel

\* A step of a thread leaves the locals of the others alone, the clock only runs
\* forward, and a call reads it.
OwnStep(t) ==
    /\ UNCHANGED <<clock, sample_rate>>
    /\ call'[t].now \in {call[t].now, clock, 0, Unread}
    /\ \A u \in Thread \ {t} :
          /\ pc'[u] = pc[u] /\ call'[u] = call[u] /\ state'[u] = state[u]
          /\ loaded'[u] = loaded[u] /\ observed'[u] = observed[u] /\ seen'[u] = seen[u]

TickStep == clock' = clock + 1 /\ UNCHANGED <<shards, tokens, last_refill, pc, call, state,
                                              loaded, created, debited, sampler>>

LEMMA StepOwners ==
    ASSUME TypeInv, [Next]_vars
    PROVE  \/ UNCHANGED vars
           \/ TickStep
           \/ \E t \in Thread : OwnStep(t) /\ (Check(t) \/ Running(t))
<1> USE DEF TypeInv, OwnStep, Goto, Threads!Goto, Threads!shared, Threads!history, sampler
<1>2. CASE Tick
  BY <1>2 DEF Tick, Threads!Tick, TickStep
<1>3. ASSUME NEW t \in Thread, Check(t) PROVE OwnStep(t)
  BY <1>3 DEF Check
<1>4. ASSUME NEW t \in Thread, ReadNow(t) PROVE OwnStep(t)
  BY <1>4 DEF ReadNow
<1>5. ASSUME NEW t \in Thread, Lookup(t) \/ AlreadyInserted(t) PROVE OwnStep(t)
  BY <1>5 DEF Lookup, Threads!Lookup, AlreadyInserted, Threads!AlreadyInserted
<1>6. ASSUME NEW t \in Thread, Insert(t) PROVE OwnStep(t)
  BY <1>6 DEF Insert, Threads!Insert
<1>8. ASSUME NEW t \in Thread, Unsampled(t) \/ should_sample(t) PROVE OwnStep(t)
  BY <1>8 DEF Unsampled, should_sample
<1>9. ASSUME NEW t \in Thread, NEW permitted, Decide(t, permitted),
             UNCHANGED <<clock, sample_rate>>
      PROVE  OwnStep(t)
  BY <1>9 DEF Decide, Threads!Return, Threads!NoCall
<1>10. ASSUME NEW t \in Thread, PeekAdmits(t) PROVE OwnStep(t)
  BY <1>9, <1>10 DEF PeekAdmits
<1>11. ASSUME NEW t \in Thread, PeekFails(t) PROVE OwnStep(t)
  BY <1>11 DEF PeekFails
<1>12. ASSUME NEW t \in Thread, LoadLevel(t) PROVE OwnStep(t)
  BY <1>12 DEF LoadLevel, AfterTokens
<1>13. ASSUME NEW t \in Thread, LoadAccrual(t) PROVE OwnStep(t)
  BY <1>13 DEF LoadAccrual, Observe
<1>14. ASSUME NEW t \in Thread, Admit(t) PROVE OwnStep(t)
  BY <1>9, <1>14 DEF Admit
<1>15. ASSUME NEW t \in Thread, apply_refill(t) PROVE OwnStep(t)
  BY <1>15 DEF apply_refill, Threads!Claiming, Threads!NothingAccrued, Threads!LoadRefill,
               Threads!ClaimFails, Threads!Claim, Threads!Credit
<1>16. ASSUME NEW t \in Thread, consume_exact(t) PROVE OwnStep(t)
  BY <1>16 DEF consume_exact, Threads!LoadTokens, Threads!DebitFails, Threads!Deny, Threads!Debit,
               Threads!Return, Threads!NoCall
<1>17. ASSUME NEW t \in Thread, Charge(t) PROVE OwnStep(t)
  BY <1>9, <1>17 DEF Charge
<1> QED
  BY <1>2, <1>3, <1>4, <1>5, <1>6, <1>8, <1>10, <1>11, <1>12, <1>13,
     <1>14, <1>15, <1>16, <1>17
  DEF Next, Running, ReadLevel

-----------------------------------------------------------------------------
(***************************************************************************)
(* The level: an i64 of at most the capacity                               *)
(***************************************************************************)

\* What an unsampled debit takes has been seen.
LevelInv ==
    /\ \A r \in Ref : tokens[r] \in -I64_MAX - 1 .. capacity_scaled
    /\ \A t \in Thread : pc[t] = "debit" => cost_scaled(t) <= loaded[t]

\* Only a load of enough tokens leads to a debit.
LEMMA SeenBeforeDebit ==
    ASSUME TypeInv, NEW t \in Thread, Check(t) \/ Running(t), pc'[t] = "debit"
    PROVE  cost_scaled(t)' <= loaded'[t]
<1> USE DEF TypeInv, Goto, Threads!Goto
<1>1. ~(Check(t) \/ Unsampled(t) \/ should_sample(t))
  BY DEF Check, Unsampled, should_sample
<1>2. ~ReadNow(t)
  BY DEF ReadNow
<1>3. ~(Lookup(t) \/ Insert(t) \/ AlreadyInserted(t))
  BY DEF Lookup, Threads!Lookup, Insert, Threads!Insert, AlreadyInserted, Threads!AlreadyInserted
<1>4. ~(PeekAdmits(t) \/ PeekFails(t) \/ Admit(t) \/ Charge(t))
  BY DEF PeekAdmits, PeekFails, Admit, Charge, Decide, Threads!Return
<1>5. ~ReadLevel(t)
  BY DEF ReadLevel, LoadLevel, LoadAccrual, Observe, AfterTokens
<1>6. ~apply_refill(t)
  BY DEF apply_refill, Threads!Claiming, Threads!NothingAccrued, Threads!LoadRefill,
         Threads!ClaimFails, Threads!Claim, Threads!Credit
<1>7. Threads!LoadTokens(t)
  <2>1. consume_exact(t)
    BY <1>1, <1>2, <1>3, <1>4, <1>5, <1>6 DEF Running
  <2>2. ~(Threads!DebitFails(t) \/ Threads!Deny(t) \/ Threads!Debit(t))
    BY DEF Threads!DebitFails, Threads!Deny, Threads!Debit, Threads!Return
  <2> QED BY <2>1, <2>2 DEF consume_exact
<1>8. /\ tokens[state[t]] >= cost_scaled(t) /\ loaded' = [loaded EXCEPT ![t] = tokens[state[t]]]
      /\ call' = call
  BY <1>7 DEF Threads!LoadTokens, cost_scaled
<1>9. cost_scaled(t)' = cost_scaled(t)
  BY <1>8 DEF cost_scaled, Threads!token_cost
<1>10. state[t] \in Ref /\ tokens[state[t]] \in Int /\ cost_scaled(t) \in Int
  BY <1>7, TypesFollow, DebitTyped DEF Threads!LoadTokens, Unheld
<1> QED BY <1>8, <1>9, <1>10

\* A credit stops at the capacity, a charge at the end of the i64, and an unsampled
\* debit at zero.
LEMMA LevelsStayWithin ==
    ASSUME TypeInv, LevelInv, [Next]_vars, NEW r \in Ref
    PROVE  tokens'[r] \in -I64_MAX - 1 .. capacity_scaled
<1>1. /\ tokens[r] \in Int /\ -I64_MAX - 1 <= tokens[r] /\ tokens[r] <= capacity_scaled
      /\ tokens \in [Ref -> Int]
  BY DEF LevelInv, TypeInv
<1>2. capacity_scaled \in Nat /\ I64_MAX \in Nat
  BY Constants, SameConstants
<1>3. CASE Quiet
  BY <1>1, <1>2, <1>3 DEF Quiet
<1>4. ASSUME NEW t \in Thread, Facts!Moves(t)
      PROVE  tokens'[r] \in -I64_MAX - 1 .. capacity_scaled
  <2>1. CASE Facts!Insert(t)
    BY <1>1, <1>2, <2>1, SameConstants DEF Facts!Insert
  <2>2. CASE Facts!Claim(t)
    BY <1>1, <1>2, <2>2 DEF Facts!Claim
  <2>3. CASE Facts!Credit(t)
    <3>1. Facts!added(t) \in Nat
      BY TypesFollow, FactsApply, Facts!AccruedTyped
    <3>2. tokens'[r] \in {tokens[r],
                          Facts!MinOf(Facts!saturating_add(tokens[r], Facts!added(t)),
                                      Facts!scaled_capacity)}
      BY <1>1, <2>3 DEF Facts!Credit
    <3>3. Facts!MinOf(Facts!saturating_add(tokens[r], Facts!added(t)), Facts!scaled_capacity)
             \in -I64_MAX - 1 .. capacity_scaled
      BY <1>1, <1>2, <3>1, SameConstants DEF Facts!MinOf, Facts!saturating_add
    <3> QED BY <1>1, <1>2, <3>2, <3>3
  <2> QED BY <1>4, <2>1, <2>2, <2>3 DEF Facts!Moves
<1>5. ASSUME NEW t \in Thread, Charge(t)
      PROVE  tokens'[r] \in -I64_MAX - 1 .. capacity_scaled
  <2>1. debit(t) \in Nat
    BY TypesFollow, DebitTyped
  <2>2. tokens'[r] \in {tokens[r], MaxOf(tokens[r] - debit(t), -I64_MAX - 1)}
    BY <1>1, <1>5 DEF Charge
  <2> QED BY <1>1, <1>2, <2>1, <2>2 DEF MaxOf
<1>6. ASSUME NEW t \in Thread, ExactDebit(t)
      PROVE  tokens'[r] \in -I64_MAX - 1 .. capacity_scaled
  <2>1. /\ tokens' = [tokens EXCEPT ![state[t]] = loaded[t] - cost_scaled(t)]
        /\ tokens[state[t]] = loaded[t] /\ pc[t] = "debit"
    BY <1>6 DEF ExactDebit, Threads!Debit, cost_scaled
  <2>2. cost_scaled(t) \in Nat /\ cost_scaled(t) <= loaded[t] /\ loaded[t] \in Int
    BY <2>1, TypesFollow, DebitTyped DEF LevelInv, TypeInv
  <2>3. tokens'[r] \in {tokens[r], tokens[r] - cost_scaled(t)}
        /\ (tokens'[r] = tokens[r] \/ tokens[r] = loaded[t])
    BY <1>1, <2>1
  <2> QED BY <1>1, <1>2, <2>2, <2>3
<1> QED BY <1>3, <1>4, <1>5, <1>6, StepKinds

LEMMA NextLevelInv == TypeInv /\ LevelInv /\ [Next]_vars => LevelInv'
<1> SUFFICES ASSUME TypeInv, LevelInv, [Next]_vars PROVE LevelInv'
  OBVIOUS
<1>1. \A r \in Ref : tokens'[r] \in -I64_MAX - 1 .. capacity_scaled
  BY LevelsStayWithin
<1>2. ASSUME NEW t \in Thread, pc'[t] = "debit"
      PROVE  cost_scaled(t)' <= loaded'[t]
  <2>1. CASE pc'[t] = pc[t] /\ call'[t] = call[t] /\ loaded'[t] = loaded[t]
    <3>1. cost_scaled(t)' = cost_scaled(t)
      BY <2>1 DEF cost_scaled, Threads!token_cost
    <3>2. cost_scaled(t) <= loaded[t]
      BY <1>2, <2>1 DEF LevelInv
    <3> QED BY <2>1, <3>1, <3>2
  <2>2. CASE UNCHANGED vars \/ TickStep
    <3>1. UNCHANGED <<pc, call, loaded>>
      BY <2>2 DEF vars, bucket, TickStep
    <3> QED BY <2>1, <3>1
  <2>3. ASSUME NEW u \in Thread, OwnStep(u), Check(u) \/ Running(u)
        PROVE  cost_scaled(t)' <= loaded'[t]
    BY <1>2, <2>1, <2>3, SeenBeforeDebit DEF OwnStep
  <2> QED BY <2>2, <2>3, StepOwners
<1>3. capacity_scaled' = capacity_scaled
  BY DEF capacity_scaled
<1> QED BY <1>1, <1>2, <1>3 DEF LevelInv

LEMMA LevelsAreTyped == TypeInv /\ LevelInv => TypeOK
  BY DEF TypeInv, LevelInv, TypeOK

\* Every variable keeps its type: whoever credits and charges, and at whatever
\* level they have decided to, a bucket never has more than its capacity nor a debt
\* that an i64 does not hold; and no thread remembers more debits than there have
\* been.
THEOREM TypeCorrect == Spec => []TypeOK
<1>1. Init => LevelInv
  BY Constants, SameConstants DEF Init, Threads!Init, LevelInv
<1> QED BY <1>1, InitTypeInv, NextTypeInv, NextLevelInv, LevelsAreTyped, PTL DEF Spec

-----------------------------------------------------------------------------
(***************************************************************************)
(* No nanosecond is credited twice, here as in TokenBucket                 *)
(***************************************************************************)

\* The types, the timestamps in order, and the claims disjoint.
ClaimInv == TypeInv /\ Facts!Timeline /\ Facts!NoDoubleCredit

LEMMA ClaimFacts == ClaimInv => Facts!ClockInv /\ Facts!ClockTypes
  BY TypesFollow DEF ClaimInv, Facts!ClockInv

LEMMA InitClaimInv == Init => ClaimInv
<1> SUFFICES ASSUME Init PROVE ClaimInv
  OBVIOUS
<1>1. TypeInv
  BY InitTypeInv
<1>2. Facts!Timeline
  BY DEF Init, Threads!Init, Threads!NoCall, Facts!Timeline
<1>3. Facts!NoDoubleCredit
  BY DEF Init, Threads!Init, Facts!NoDoubleCredit
<1> QED BY <1>1, <1>2, <1>3 DEF ClaimInv

\* Every step keeps them.
LEMMA NextClaimInv == ClaimInv /\ [Next]_vars => ClaimInv'
<1> SUFFICES ASSUME ClaimInv, [Next]_vars PROVE ClaimInv'
  OBVIOUS
<1>1. TypeInv /\ TypeInv' /\ Facts!ClockInv /\ Facts!ClockTypes'
  BY NextTypeInv, ClaimFacts, NextTypesFollow DEF ClaimInv
<1>2. clock \in Nat /\ clock' \in Nat
  BY <1>1, ProbabilisticAssumption DEF TypeInv
<1>3. Facts!ClockStep
  BY <1>1, StepKinds DEF Facts!ClockStep, Quiet
<1>4. clock <= clock' /\ \A u \in Thread : call'[u].now <= clock'
  <2>1. \A u \in Thread : call[u].now \in Int /\ call[u].now <= clock
    BY <1>1 DEF ClaimInv, Facts!Timeline, TypeInv, Unread
  <2>2. CASE UNCHANGED vars
    BY <1>2, <2>1, <2>2 DEF vars, bucket
  <2>3. CASE TickStep
    BY <1>2, <2>1, <2>3 DEF TickStep
  <2>4. ASSUME NEW t \in Thread, OwnStep(t)
        PROVE  clock <= clock' /\ \A u \in Thread : call'[u].now <= clock'
    <3>1. call'[t].now <= clock
      BY <1>2, <2>1, <2>4 DEF OwnStep, Unread
    <3> QED BY <1>2, <2>1, <2>4, <3>1 DEF OwnStep
  <2> QED BY <1>1, <2>2, <2>3, <2>4, StepOwners
<1>5. Facts!Timeline'
  BY <1>1, <1>3, <1>4, FactsApply, Facts!NextStamps DEF Facts!Timeline
<1>6. Facts!NoDoubleCredit'
  BY <1>1, <1>3, <1>5, FactsApply, Facts!NextNoDoubleCredit
<1> QED BY <1>1, <1>5, <1>6 DEF ClaimInv

\* They hold in every state.
LEMMA ClaimInvariant == Spec => []ClaimInv
  BY InitClaimInv, NextClaimInv, PTL DEF Spec

-----------------------------------------------------------------------------
(***************************************************************************)
(* The ledger, for whoever takes from a bucket                             *)
(***************************************************************************)

\* It balances initially.
LEMMA InitLedger == Init => Facts!Ledger
<1> SUFFICES ASSUME Init, NEW r \in Ref
             PROVE  Facts!Balanced(tokens[r], debited[r], Cardinality(Facts!Outstanding(r)),
                                   last_refill[r], created[r])
  BY SameSizes DEF Facts!Ledger, Facts!Balanced
<1>1. Facts!Outstanding(r) = {}
  BY DEF Init, Threads!Init, Facts!Outstanding, Facts!Crediting
<1>2. /\ tokens[r] = 0 /\ debited[r] = 0 /\ created[r] = 0
      /\ last_refill[r] = 0 /\ Cardinality(Facts!Outstanding(r)) = 0
  BY <1>1, FS_EmptySet DEF Init, Threads!Init
<1>3. NANOS_PER_SEC * (0 + 0) + Facts!rate_scaled * 0
        <= NANOS_PER_SEC * Facts!scaled_capacity + Facts!rate_scaled * (0 - 0)
  BY Constants
<1> QED BY <1>2, <1>3, Constants DEF Facts!Balanced

\* A step that takes c tokens, whatever is left, and moves no claim.
LEMMA DebitKeepsLedger ==
    ASSUME ClaimInv, Facts!Ledger, Facts!Still, NEW q \in Ref, NEW c \in Nat,
           tokens' = [tokens EXCEPT ![q] = @ - c], debited' = [debited EXCEPT ![q] = @ + c]
    PROVE  Facts!Ledger'
<1> SUFFICES ASSUME NEW r \in Ref
             PROVE  Facts!Balanced(tokens'[r], debited'[r],
                                   Facts!Cardinality(Facts!Outstanding(r)'),
                                   last_refill'[r], created'[r])
  BY DEF Facts!Ledger, Facts!Balanced
<1>1. /\ Facts!Outstanding(r)' = Facts!Outstanding(r)
      /\ last_refill' = last_refill /\ created' = created
  BY FactsApply, Facts!StillOutstanding DEF Facts!Still
<1>2. Facts!Balanced(tokens[r], debited[r], Facts!Cardinality(Facts!Outstanding(r)),
                     last_refill[r], created[r])
  BY DEF Facts!Ledger, Facts!Balanced
<1>3. tokens[r] \in Int /\ debited[r] \in Nat
  BY DEF ClaimInv, TypeInv
<1>4. CASE r = q
  <2>1. tokens'[r] = tokens[r] - c /\ debited'[r] = debited[r] + c
    BY <1>4 DEF ClaimInv, TypeInv
  <2>2. tokens'[r] + debited'[r] = tokens[r] + debited[r] /\ tokens'[r] <= tokens[r]
    BY <1>3, <2>1
  <2>3. tokens'[r] <= Facts!scaled_capacity
    BY <1>2, <1>3, <2>1, Constants DEF Facts!Balanced
  <2> QED BY <1>1, <1>2, <2>2, <2>3 DEF Facts!Balanced
<1>5. CASE r # q
  <2>1. tokens'[r] = tokens[r] /\ debited'[r] = debited[r]
    BY <1>5 DEF ClaimInv, TypeInv
  <2> QED BY <1>1, <1>2, <2>1
<1> QED BY <1>4, <1>5

\* All other steps keep it as they do in TokenBucket.
LEMMA OthersKeepLedger ==
    ASSUME Facts!ExactRate, ClaimInv, ClaimInv', Facts!Ledger,
           Quiet \/ \E t \in Thread : Facts!Moves(t)
    PROVE  Facts!Ledger'
<1>1. Facts!ClockInv /\ Facts!ClockTypes'
  BY ClaimFacts, NextTypesFollow DEF ClaimInv
<1>2. tokens \in [Ref -> Int] /\ debited \in [Ref -> Int]
  BY DEF ClaimInv, TypeInv
<1> QED BY <1>1, <1>2, FactsApply, Facts!RefillKeepsLedger DEF Quiet

\* What has been charged never exceeds the capacity and what has accrued, if no
\* bucket is overdrawn.
LEMMA LedgerImpliesBudget ==
    ASSUME ClaimInv, Facts!Ledger, \A r \in Ref : tokens[r] >= 0
    PROVE  Facts!Budget
<1> SUFFICES ASSUME NEW r \in Ref
             PROVE  NANOS_PER_SEC * debited[r] <= NANOS_PER_SEC * Facts!scaled_capacity
                                                   + Facts!rate_scaled * (clock - created[r])
  BY DEF Facts!Budget
<1> DEFINE N == NANOS_PER_SEC
           R == Facts!rate_scaled
           out == Facts!Cardinality(Facts!Outstanding(r))
           bound == N * Facts!scaled_capacity
<1>1. /\ N \in Nat /\ R \in Nat /\ bound \in Nat /\ out \in Nat
      /\ tokens[r] \in Nat /\ debited[r] \in Nat
      /\ last_refill[r] \in Nat /\ created[r] \in Nat /\ clock \in Nat
  <2>1. out \in Nat
    BY ClaimFacts, FactsApply, Facts!OutstandingFinite
  <2>2. clock \in Nat
    BY ProbabilisticAssumption DEF ClaimInv, TypeInv
  <2> QED BY <2>1, <2>2, Constants DEF ClaimInv, TypeInv
<1>2. created[r] <= last_refill[r] /\ last_refill[r] <= clock
  BY DEF ClaimInv, Facts!Timeline
<1>3. N * (tokens[r] + debited[r]) + R * out <= bound + R * (last_refill[r] - created[r])
  BY DEF Facts!Ledger
<1> HIDE DEF N, R, out, bound
<1>4. N * debited[r] <= N * (tokens[r] + debited[r]) + R * out
  BY <1>1
<1>5. R * (last_refill[r] - created[r]) <= R * (clock - created[r])
  BY <1>1, <1>2
<1>6. /\ N * debited[r] \in Int /\ N * (tokens[r] + debited[r]) + R * out \in Int
      /\ R * (last_refill[r] - created[r]) \in Int /\ R * (clock - created[r]) \in Int
  <2>1. tokens[r] + debited[r] \in Nat
    BY <1>1
  <2>2. last_refill[r] - created[r] \in Nat /\ clock - created[r] \in Nat
    BY <1>1, <1>2
  <2>3. \A x, y \in Nat : x * y \in Nat /\ x + y \in Nat
    OBVIOUS
  <2>4. N * (tokens[r] + debited[r]) \in Nat /\ R * out \in Nat
    BY <1>1, <2>1, <2>3
  <2> QED BY <1>1, <2>2, <2>3, <2>4
<1>7. N * debited[r] <= bound + R * (clock - created[r])
  BY <1>1, <1>3, <1>4, <1>5, <1>6
<1> QED BY <1>7 DEF N, R, bound

-----------------------------------------------------------------------------
(***************************************************************************)
(* A sampling rate of one                                                  *)
(***************************************************************************)

\* What a call has loaded covers the cost it is about to take; the tokens let
\* through are those charged, and none are borrowed.
Unborrowed ==
    /\ \A t \in Thread : pc[t] = "debit" => cost_scaled(t) <= loaded[t]
    /\ \A r \in Ref : admitted[r] = debited[r] /\ tokens[r] >= 0

ExactInv == ClaimInv /\ (sample_rate = 1 => Facts!Ledger /\ Unborrowed)

\* The steps that let through or charge, where nothing is sampled.
LEMMA ExactSteps ==
    ASSUME TypeInv, [Next]_vars, sample_rate = 1
    PROVE  /\ sample_rate' = 1
           /\ \/ Quiet /\ admitted' = admitted
              \/ \E t \in Thread : Insert(t)
              \/ \E t \in Thread : (Facts!Claim(t) \/ Facts!Credit(t)) /\ admitted' = admitted
              \/ \E t \in Thread : ExactDebit(t) /\ Facts!Still
           /\ \A u \in Thread : pc'[u] = "debit" =>
                 \/ pc[u] = "debit" /\ loaded'[u] = loaded[u] /\ call'[u] = call[u]
                 \/ call'[u] = call[u] /\ cost_scaled(u) <= loaded'[u]
<1> DEFINE Covers(u) == pc'[u] = "debit" =>
                          \/ pc[u] = "debit" /\ loaded'[u] = loaded[u] /\ call'[u] = call[u]
                          \/ call'[u] = call[u] /\ cost_scaled(u) <= loaded'[u]
           Calm == Quiet /\ admitted' = admitted
<1>1. CASE UNCHANGED vars
  <2>1. Calm
    BY <1>1 DEF vars, bucket, sampler, Quiet, Facts!Still
  <2> QED BY <1>1, <2>1 DEF vars, bucket, sampler
<1>2. CASE TickStep
  <2>1. Calm
    BY <1>2 DEF TickStep, sampler, Quiet, Facts!Still
  <2> QED BY <1>2, <2>1 DEF TickStep, sampler
<1>3. ASSUME NEW t \in Thread, OwnStep(t), Check(t) \/ Running(t)
      PROVE  /\ Covers(t)
             /\ \/ Calm \/ Insert(t) \/ (ExactDebit(t) /\ Facts!Still)
                \/ (Facts!Claim(t) \/ Facts!Credit(t)) /\ admitted' = admitted
  <2> USE DEF TypeInv, SamplingInv, SamplerSteps, Quiet, Facts!Still, Goto, Threads!Goto,
              Threads!shared, Threads!history, sampler
  <2>1. CASE Check(t)
    BY <2>1 DEF Check
  <2>2. CASE ReadNow(t)
    BY <2>2 DEF ReadNow
  <2>3. CASE Lookup(t) \/ AlreadyInserted(t)
    BY <2>3 DEF Lookup, Threads!Lookup, AlreadyInserted, Threads!AlreadyInserted
  <2>4. CASE Insert(t)
    <3>1. Covers(t)
      <4>1. pc'[t] = "touch"
        BY <2>4 DEF Insert, Threads!Insert
      <4> QED BY <4>1
    <3> HIDE DEF Covers, Calm
    <3> QED BY <2>4, <3>1
  <2>5. CASE Unsampled(t)
    BY <2>5 DEF Unsampled
  <2>6. CASE apply_refill(t)
    <3>1. CASE Threads!NothingAccrued(t) \/ Threads!LoadRefill(t) \/ Threads!ClaimFails(t)
      BY <2>6, <3>1
      DEF apply_refill, Threads!NothingAccrued, Threads!LoadRefill, Threads!ClaimFails
    <3>2. CASE Threads!Claim(t) \/ Threads!Credit(t)
      <4>1. Facts!Claim(t) \/ Facts!Credit(t)
        BY <3>2, SameMoves
      <4> QED BY <2>6, <3>2, <4>1 DEF apply_refill, Threads!Claim, Threads!Credit
    <3> QED BY <2>6, <3>1, <3>2 DEF apply_refill, Threads!Claiming
  <2>7. CASE consume_exact(t)
    <3>1. CASE (Threads!DebitFails(t) \/ Threads!Deny(t)) /\ UNCHANGED admitted
      BY <3>1 DEF Threads!DebitFails, Threads!Deny, Threads!Return
    <3>2. CASE Threads!LoadTokens(t) /\ UNCHANGED admitted
      <4>1. Calm
        BY <3>2 DEF Threads!LoadTokens
      <4>2. tokens[state[t]] >= cost_scaled(t) /\ tokens[state[t]] \in Int /\ cost_scaled(t) \in Int
            /\ loaded'[t] = tokens[state[t]] /\ call' = call
        <5>1. state[t] \in Ref /\ TypeInv
          BY <3>2 DEF Threads!LoadTokens, Unheld
        <5>2. cost_scaled(t) \in Nat
          BY <5>1, TypesFollow, DebitTyped
        <5> QED BY <3>2, <5>1, <5>2 DEF Threads!LoadTokens, cost_scaled
      <4> QED BY <4>1, <4>2
    <3>3. CASE ExactDebit(t)
      BY <3>3 DEF ExactDebit, Threads!Debit, Threads!Return
    <3> QED BY <2>7, <3>1, <3>2, <3>3 DEF consume_exact, ExactDebit
  <2>8. ~(should_sample(t) \/ PeekAdmits(t) \/ PeekFails(t) \/ ReadLevel(t) \/ Admit(t) \/ Charge(t))
    <3>1. ~(should_sample(t) \/ Charge(t))
      BY DEF should_sample, Charge
    <3>2. ~(PeekAdmits(t) \/ PeekFails(t) \/ Admit(t))
      BY DEF PeekAdmits, PeekFails, Admit
    <3>3. ~ReadLevel(t)
      BY DEF ReadLevel, LoadLevel, LoadAccrual, AfterTokens
    <3> QED BY <3>1, <3>2, <3>3
  <2> QED BY <1>3, <2>1, <2>2, <2>3, <2>4, <2>5, <2>6, <2>7, <2>8 DEF Running
<1>4. ASSUME NEW t \in Thread, OwnStep(t), Check(t) \/ Running(t)
      PROVE  sample_rate' = 1 /\ \A u \in Thread : Covers(u)
  <2> HIDE DEF Calm
  <2> QED BY <1>3, <1>4 DEF OwnStep
<1> HIDE DEF Covers, Calm
<1>5. \A t \in Thread : OwnStep(t) /\ (Check(t) \/ Running(t)) =>
         \/ Calm \/ Insert(t) \/ (ExactDebit(t) /\ Facts!Still)
         \/ (Facts!Claim(t) \/ Facts!Credit(t)) /\ admitted' = admitted
  BY <1>3
<1>6. CASE \E t \in Thread : OwnStep(t) /\ (Check(t) \/ Running(t))
  BY <1>4, <1>5, <1>6 DEF Covers, Calm
<1> QED BY <1>1, <1>2, <1>6, StepOwners

LEMMA InitExactInv == Init => ExactInv
<1>1. Init => Unborrowed
  <2> SUFFICES ASSUME Init PROVE Unborrowed
    OBVIOUS
  <2> QED BY DEF Init, Threads!Init, Unborrowed
<1> QED BY <1>1, InitClaimInv, InitLedger DEF ExactInv

\* Every step keeps the invariant of an unsampled bucket.
LEMMA NextExactInv ==
    ASSUME Facts!ExactRate
    PROVE  ExactInv /\ [Next]_vars => ExactInv'
<1> SUFFICES ASSUME ExactInv, [Next]_vars PROVE ExactInv'
  OBVIOUS
<1>1. ClaimInv /\ ClaimInv' /\ TypeInv /\ TypeInv'
  BY NextClaimInv DEF ExactInv, ClaimInv
<1>2. ASSUME sample_rate # 1 PROVE sample_rate' # 1
  <2>1. UNCHANGED sample_rate
    BY <1>1, StepOwners DEF vars, sampler, TickStep, OwnStep
  <2> QED BY <1>2, <2>1
<1>3. ASSUME sample_rate = 1 PROVE Facts!Ledger' /\ Unborrowed'
  <2>1. Facts!Ledger /\ Unborrowed
    BY <1>3 DEF ExactInv
  <2>2. \A u \in Thread : pc'[u] = "debit" => cost_scaled(u)' <= loaded'[u]
    <3>1. \A u \in Thread : call'[u] = call[u] => cost_scaled(u)' = cost_scaled(u)
      BY DEF cost_scaled, Threads!token_cost
    <3> QED BY <1>1, <1>3, <2>1, <3>1, ExactSteps DEF Unborrowed
  <2>3. CASE Quiet /\ admitted' = admitted
    <3>1. Facts!Ledger'
      BY <1>1, <2>1, <2>3, OthersKeepLedger
    <3> QED BY <2>1, <2>2, <2>3, <3>1 DEF Unborrowed, Quiet
  <2>4. ASSUME NEW t \in Thread, Insert(t) PROVE Facts!Ledger' /\ Unborrowed'
    <3>1. Facts!Insert(t)
      BY <2>4, SameMoves DEF Insert
    <3>2. Facts!Ledger'
      BY <1>1, <2>1, <3>1, OthersKeepLedger DEF Facts!Moves
    <3>3. PICK r \in Facts!Free :
            /\ tokens' = [tokens EXCEPT ![r] = Facts!scaled_capacity]
            /\ debited' = [debited EXCEPT ![r] = 0]
            /\ state' = [state EXCEPT ![t] = r]
      BY <3>1 DEF Facts!Insert
    <3>4. admitted' = [admitted EXCEPT ![r] = 0]
      BY <1>1, <2>4, <3>3 DEF Insert, TypeInv
    <3>5. \A q \in Ref : admitted'[q] = debited'[q] /\ tokens'[q] >= 0
      BY <1>1, <2>1, <3>3, <3>4, Constants DEF TypeInv, Unborrowed
    <3> QED BY <2>2, <3>2, <3>5 DEF Unborrowed
  <2>5. ASSUME NEW t \in Thread, Facts!Claim(t) \/ Facts!Credit(t), admitted' = admitted
        PROVE  Facts!Ledger' /\ Unborrowed'
    <3>1. Facts!Ledger'
      BY <1>1, <2>1, <2>5, OthersKeepLedger DEF Facts!Moves
    <3>2. debited' = debited
      BY <2>5 DEF Facts!Claim, Facts!Credit, Facts!history
    <3>3. \A q \in Ref : tokens'[q] >= 0
      <4>1. Facts!added(t) \in Nat
        BY <1>1, TypesFollow, FactsApply, Facts!AccruedTyped
      <4>2. CASE Facts!Claim(t)
        BY <2>1, <4>2 DEF Facts!Claim, Unborrowed
      <4>3. CASE Facts!Credit(t)
        BY <1>1, <2>1, <4>1, <4>3, Constants
        DEF Facts!Credit, Unborrowed, TypeInv, Facts!saturating_add, Facts!MinOf
      <4> QED BY <2>5, <4>2, <4>3
    <3> QED BY <2>1, <2>2, <2>5, <3>1, <3>2, <3>3 DEF Unborrowed
  <2>6. ASSUME NEW t \in Thread, ExactDebit(t), Facts!Still
        PROVE  Facts!Ledger' /\ Unborrowed'
    <3> DEFINE c == cost_scaled(t)
               r == state[t]
    <3>1. pc[t] = "debit" /\ r \in Ref /\ tokens[r] = loaded[t] /\ tokens[r] \in Int
      BY <1>1, <2>6 DEF ExactDebit, Threads!Debit, TypeInv, Unheld
    <3>2. c \in Nat /\ asked(t) \in Nat /\ c <= tokens[r] /\ tokens[r] <= Facts!scaled_capacity
      BY <1>1, <2>1, <3>1, TypesFollow, DebitTyped DEF Unborrowed, Facts!Ledger
    <3>3. c = asked(t)
      <4>1. c < I64_MAX
        BY <3>1, <3>2, Constants
      <4> QED BY <3>2, <4>1, Constants
              DEF cost_scaled, Threads!token_cost, Threads!saturating_mul, Threads!MinOf, asked
    <3>4. /\ tokens' = [tokens EXCEPT ![r] = @ - c]
          /\ debited' = [debited EXCEPT ![r] = @ + c]
          /\ admitted' = [admitted EXCEPT ![r] = @ + c]
      BY <1>1, <2>6, <3>1, <3>3 DEF ExactDebit, Threads!Debit, asked, cost_scaled, TypeInv
    <3> HIDE DEF c, r
    <3>5. Facts!Ledger'
      BY <1>1, <2>1, <2>6, <3>1, <3>2, <3>4, DebitKeepsLedger
    <3>6. \A q \in Ref : admitted'[q] = debited'[q] /\ tokens'[q] >= 0
      BY <1>1, <2>1, <3>1, <3>2, <3>4 DEF TypeInv, Unborrowed
    <3> QED BY <2>2, <3>5, <3>6 DEF Unborrowed
  <2> QED BY <1>1, <1>3, <2>3, <2>4, <2>5, <2>6, ExactSteps
<1> QED BY <1>1, <1>2, <1>3 DEF ExactInv

\* "sample_rate = 1 is exactly the deterministic token bucket": at an exact rate it
\* lets through no more than its capacity and what has accrued, what it lets through
\* is what it charges, and it is never overdrawn, however threads interleave.
THEOREM UnsampledIsExact ==
    ASSUME Threads!ExactRate
    PROVE  Spec => []ExactWithoutSampling
<1>1. Facts!ExactRate
  BY SameLedger
<1>2. Init => ExactInv
  BY InitExactInv
<1>3. ExactInv /\ [Next]_vars => ExactInv'
  BY <1>1, NextExactInv
<1>4. ExactInv => ExactWithoutSampling
  <2> SUFFICES ASSUME ExactInv, sample_rate = 1
               PROVE  Threads!Budget /\ \A r \in Ref : admitted[r] = debited[r] /\ tokens[r] >= 0
    BY DEF ExactWithoutSampling
  <2>1. Facts!Budget
    BY LedgerImpliesBudget DEF ExactInv, Unborrowed
  <2> QED BY <2>1, SameLedger DEF ExactInv, Unborrowed
<1> QED BY <1>2, <1>3, <1>4, PTL DEF Spec

-----------------------------------------------------------------------------
(***************************************************************************)
(* The overdraft.  A sampled request may be charged after others have taken*)
(* what it saw.  So each request that has seen a level above zero, and has *)
(* still to pay, needs a lump in reserve: it owes.  A request owes at time *)
(* n if its own clock reading is no later: before that, what it saw of the *)
(* refill may not have accrued yet.                                        *)
(***************************************************************************)

\* What the time from the bucket's timestamp to n is worth.
Yield(r, n) == Facts!refill_tokens(Facts!saturating_sub(n, last_refill[r]), Facts!rate_scaled)

\* What the bucket has at time n, once claims are credited.
Level(r, n) ==
    NANOS_PER_SEC * (tokens[r] + Yield(r, n))
       + Facts!rate_scaled * Cardinality(Facts!Outstanding(r))

\* A sampled request that will pay something: it has observed a level above zero,
\* or it may yet.
Armed(t) ==
    \/ pc[t] = "observe_refill" /\ MinOf(loaded[t] + accrued(t), capacity_scaled) > 0
    \/ pc[t] \in {"load_refill", "claim", "credit", "load_tokens"} /\ observed[t] > 0

Owes(t, r, n) ==
    /\ state[t] = r
    /\ Armed(t)
    /\ call[t].now <= n \/ pc[t] \in {"credit", "load_tokens"}

Owing(r, n) == {t \in Thread : Owes(t, r, n)}

\* The level at which k requests can pay a lump each without taking the bucket as
\* far below zero as a lump for each thread.
Reserve(k) == NANOS_PER_SEC * (1 + (k - Cardinality(Thread)) * Lump)

\* Each request that owes keeps its lump in reserve.
Covered(r, n) == Level(r, n) >= Reserve(Cardinality(Owing(r, n)))

Cover == \A r \in Ref, n \in Nat : Covered(r, n)

\* There are threads, finitely many; and a largest cost, above zero.
Callers ==
    /\ IsFiniteSet(Thread) /\ Thread # {}
    /\ \E c \in Cost \ {0} : \A d \in Cost : d <= c

LEMMA CrowdTyped == Callers => Cardinality(Thread) \in Nat \ {0}
<1> SUFFICES ASSUME Callers PROVE Cardinality(Thread) \in Nat \ {0}
  OBVIOUS
<1>1. Cardinality(Thread) \in Nat
  BY FS_CardinalityType DEF Callers
<1>2. Cardinality(Thread) # 0
  BY FS_EmptySet DEF Callers
<1> QED BY <1>1, <1>2

\* No request pays more than a whole lump of the largest cost.
LEMMA LumpIsLargest ==
    ASSUME Callers, TypeInv
    PROVE  /\ Lump \in Nat \ {0}
           /\ \A t \in Thread : debit(t) \in Nat /\ debit(t) <= Lump
<1> DEFINE top == CHOOSE c \in Cost : \A d \in Cost : d <= c
<1>1. \A c \in Cost : c \in Nat
  BY ProbabilisticAssumption, MathAssumption DEF u64
<1>2. top \in Nat \ {0} /\ \A d \in Cost : d <= top
  <2>1. PICK c \in Cost \ {0} : \A d \in Cost : d <= c
    BY DEF Callers
  <2>2. top \in Cost /\ \A d \in Cost : d <= top
    BY <2>1
  <2>3. c <= top /\ c \in Nat \ {0} /\ top \in Nat
    BY <1>1, <2>1, <2>2
  <2> HIDE DEF top
  <2> QED BY <2>2, <2>3
<1> HIDE DEF top
<1>3. sample_rate \in Nat \ {0} /\ SCALE \in Nat \ {0}
  BY ProbabilisticAssumption, MathAssumption DEF TypeInv
<1>4. Lump = (SCALE * sample_rate) * top
  BY DEF Lump, top
<1>5. SCALE * sample_rate \in Nat \ {0}
  BY <1>3
<1>6. Lump \in Nat \ {0}
  BY <1>2, <1>4, <1>5
<1>7. ASSUME NEW t \in Thread PROVE debit(t) \in Nat /\ debit(t) <= Lump
  <2>1. debit(t) \in Nat /\ debit(t) <= lump(t) /\ lump(t) \in Nat /\ cost_scaled(t) \in Nat
        /\ call[t].cost \in Nat
    BY TypesFollow, DebitTyped
  <2>2. call[t].cost <= top
    <3>1. call[t].cost \in Cost \cup {0}
      BY DEF TypeInv
    <3> QED BY <1>2, <3>1
  <2>3. cost_scaled(t) <= call[t].cost * SCALE
    <3>1. call[t].cost * SCALE \in Nat
      BY <1>3, <2>1
    <3> QED BY <3>1, Constants DEF cost_scaled, Threads!token_cost, Threads!saturating_mul, Threads!MinOf
  <2>4. call[t].cost * SCALE <= top * SCALE
    BY <1>2, <1>3, <2>1, <2>2, KeepFactor
  <2>5. cost_scaled(t) <= top * SCALE
    BY <1>2, <1>3, <2>1, <2>3, <2>4
  <2>6. cost_scaled(t) * sample_rate <= (top * SCALE) * sample_rate
    BY <1>2, <1>3, <2>1, <2>5, KeepFactor
  <2>7. (top * SCALE) * sample_rate = Lump
    BY <1>2, <1>3, <1>4
  <2>8. lump(t) <= cost_scaled(t) * sample_rate
    <3>1. cost_scaled(t) * sample_rate \in Nat
      BY <1>3, <2>1
    <3> QED BY <3>1, Constants DEF lump, MinOf
  <2>9. cost_scaled(t) * sample_rate \in Nat
    BY <1>3, <2>1
  <2> QED BY <1>6, <2>1, <2>6, <2>7, <2>8, <2>9
<1> QED BY <1>6, <1>7

\* A reserve for fewer requests is smaller, by a lump each; for all threads it is
\* one scaled token, and for none it is not above zero.
LEMMA ReserveFalls ==
    ASSUME NEW n \in Nat, NEW c \in Nat, NEW l \in Nat, NEW j \in Nat, NEW k \in Nat, j <= k
    PROVE  n * (1 + (j - c) * l) <= n * (1 + (k - c) * l)
<1>1. (j - c) * l <= (k - c) * l
  OBVIOUS
<1>2. (j - c) * l \in Int /\ (k - c) * l \in Int
  OBVIOUS
<1> DEFINE a == (j - c) * l
           b == (k - c) * l
<1> HIDE DEF a, b
<1>3. n * (1 + a) <= n * (1 + b)
  <2>1. a \in Int /\ b \in Int /\ a <= b
    BY <1>1, <1>2 DEF a, b
  <2> QED BY <2>1
<1> QED BY <1>3 DEF a, b

LEMMA ReserveDrops ==
    ASSUME NEW n \in Nat, NEW c \in Nat, NEW l \in Nat, NEW j \in Nat, NEW k \in Nat, j + 1 <= k
    PROVE  n * (1 + (j - c) * l) <= n * (1 + (k - c) * l) - n * l
<1>1. n * (1 + ((j + 1) - c) * l) <= n * (1 + (k - c) * l)
  BY ReserveFalls
<1>2. ((j + 1) - c) * l = (j - c) * l + l
  OBVIOUS
<1>3. n * (1 + ((j - c) * l + l)) = n * (1 + (j - c) * l) + n * l
  OBVIOUS
<1>4. n * (1 + (j - c) * l) \in Int /\ n * (1 + (k - c) * l) \in Int /\ n * l \in Int
  OBVIOUS
<1> QED BY <1>1, <1>2, <1>3, <1>4

LEMMA ReserveOfAll ==
    ASSUME NEW n \in Nat, NEW c \in Nat, NEW l \in Nat, NEW k \in Nat, k <= c
    PROVE  n * (1 + (k - c) * l) <= n
<1>1. n * (1 + (k - c) * l) <= n * (1 + (c - c) * l)
  BY ReserveFalls
<1>2. n * (1 + (c - c) * l) = n
  OBVIOUS
<1> QED BY <1>1, <1>2

LEMMA ReserveOfNone ==
    ASSUME NEW n \in Nat, NEW c \in Nat \ {0}, NEW l \in Nat \ {0}
    PROVE  n * (1 + (0 - c) * l) <= 0
<1>1. c * l \in Nat \ {0}
  OBVIOUS
<1>2. (0 - c) * l = -(c * l)
  OBVIOUS
<1> DEFINE m == c * l
<1> HIDE DEF m
<1>3. n * (1 - m) <= 0
  BY <1>1 DEF m
<1> QED BY <1>2, <1>3 DEF m

\* The sizes of sets of threads.
LEMMA CrowdSizes ==
    ASSUME Callers, NEW S \in SUBSET Thread, NEW T \in SUBSET Thread, S \subseteq T
    PROVE  /\ IsFiniteSet(T) /\ Cardinality(T) \in Nat /\ Cardinality(T) <= Cardinality(Thread)
           /\ Cardinality(S) \in Nat /\ Cardinality(S) <= Cardinality(T)
           /\ \A t \in T \ S : Cardinality(S) + 1 <= Cardinality(T)
<1>1. IsFiniteSet(Thread) /\ IsFiniteSet(T) /\ IsFiniteSet(S)
  BY FS_Subset DEF Callers
<1>2. /\ Cardinality(T) \in Nat /\ Cardinality(T) <= Cardinality(Thread)
      /\ Cardinality(S) \in Nat /\ Cardinality(S) <= Cardinality(T)
  BY <1>1, FS_CardinalityType, FS_Subset
<1>3. ASSUME NEW t \in T \ S PROVE Cardinality(S) + 1 <= Cardinality(T)
  <2>1. Cardinality(S \cup {t}) = Cardinality(S) + 1
    BY <1>1, <1>3, FS_AddElement
  <2>2. S \cup {t} \subseteq T
    BY <1>3
  <2> QED BY <1>1, <2>1, <2>2, FS_Subset
<1> QED BY <1>1, <1>2, <1>3

\* What accrues is a natural number, and grows with time.
LEMMA YieldTyped ==
    ASSUME TypeInv, NEW r \in Ref, NEW n \in Int, NEW m \in Int, n <= m
    PROVE  /\ Yield(r, n) \in Nat /\ Yield(r, m) \in Nat
           /\ Yield(r, n) <= Yield(r, m)
<1> DEFINE d(x) == Facts!saturating_sub(x, last_refill[r])
<1>1. d(n) \in Nat /\ d(m) \in Nat /\ d(n) <= d(m)
  BY DEF TypeInv, Facts!saturating_sub
<1> HIDE DEF d
<1>2. /\ Facts!refill_tokens(d(n), Facts!rate_scaled) \in Nat
      /\ Facts!refill_tokens(d(m), Facts!rate_scaled) \in Nat
  BY <1>1, Constants, FactsApply, Facts!ClaimedWithinElapsed
<1>3. Facts!refill_tokens(d(n), Facts!rate_scaled) <= Facts!refill_tokens(d(m), Facts!rate_scaled)
  BY <1>1, Constants, FactsApply, Facts!RefillMonotone
<1> QED BY <1>2, <1>3 DEF Yield, d

\* It is what a thread reads off the timestamp.
AccrualIsYield == \A t \in Thread : accrued(t) = Yield(state[t], call[t].now)

LEMMA AccruedIsYield == AccrualIsYield
  BY SameAccrued DEF AccrualIsYield, accrued, Yield, Facts!accrued_since

LEMMA NextAccruedIsYield == AccrualIsYield'
  BY AccruedIsYield, PTL

\* A level is a number.
LEMMA LevelTyped ==
    ASSUME ClaimInv, NEW r \in Ref, NEW n \in Nat
    PROVE  /\ Level(r, n) \in Int
           /\ Cardinality(Facts!Outstanding(r)) \in Nat
           /\ Facts!rate_scaled * Cardinality(Facts!Outstanding(r)) \in Nat
           /\ tokens[r] \in Int /\ Yield(r, n) \in Nat
           /\ NANOS_PER_SEC * (tokens[r] + Yield(r, n)) \in Int
<1>1. Cardinality(Facts!Outstanding(r)) \in Nat
  BY ClaimFacts, FactsApply, Facts!OutstandingFinite, SameSizes
<1>2. Facts!rate_scaled * Cardinality(Facts!Outstanding(r)) \in Nat
  BY <1>1, Constants
<1>3. Yield(r, n) \in Nat /\ tokens[r] \in Int
  BY YieldTyped DEF ClaimInv, TypeInv
<1>4. NANOS_PER_SEC * (tokens[r] + Yield(r, n)) \in Int
  BY <1>3, Constants
<1> QED BY <1>1, <1>2, <1>3, <1>4 DEF Level

LevelsTyped ==
    \A r \in Ref, n \in Nat :
        /\ Level(r, n) \in Int
        /\ Cardinality(Facts!Outstanding(r)) \in Nat
        /\ Facts!rate_scaled * Cardinality(Facts!Outstanding(r)) \in Nat
        /\ tokens[r] \in Int /\ Yield(r, n) \in Nat
        /\ NANOS_PER_SEC * (tokens[r] + Yield(r, n)) \in Int

LEMMA NextLevelTyped == ClaimInv' => LevelsTyped'
<1>1. ClaimInv => LevelsTyped
  BY LevelTyped DEF LevelsTyped
<1> QED BY <1>1, PTL

\* Four ways to stay covered: nothing less and nobody more; a lump less and one
\* fewer; a whole scaled token; nobody, and no debt.
LEMMA StaysCovered ==
    ASSUME Callers, ClaimInv, ClaimInv', sample_rate' = sample_rate,
           NEW r \in Ref, NEW n \in Nat, NEW m \in Nat
    PROVE  /\ Covered(r, m) /\ Level(r, n)' >= Level(r, m) /\ Owing(r, n)' \subseteq Owing(r, m)
                 => Covered(r, n)'
           /\ \A t \in Owing(r, m) :
                 /\ Covered(r, m) /\ Level(r, n)' >= Level(r, m) - NANOS_PER_SEC * Lump
                 /\ Owing(r, n)' \subseteq Owing(r, m) \ {t}
                 => Covered(r, n)'
           /\ Level(r, n)' >= NANOS_PER_SEC => Covered(r, n)'
           /\ Owing(r, n)' = {} /\ Level(r, n)' >= 0 => Covered(r, n)'
<1> DEFINE N == NANOS_PER_SEC
           C == Cardinality(Thread)
           S == Owing(r, n)'
           T == Owing(r, m)
           j == Cardinality(S)
           k == Cardinality(T)
<1>1. /\ Level(r, m) \in Int /\ Level(r, n)' \in Int
      /\ N \in Nat /\ C \in Nat \ {0} /\ Lump \in Nat \ {0}
  BY Constants, CrowdTyped, LumpIsLargest, LevelTyped, NextLevelTyped DEF ClaimInv, LevelsTyped
<1>2. S \in SUBSET Thread /\ T \in SUBSET Thread
  BY DEF Owing
<1> HIDE DEF S, T
<1>3. j \in Nat /\ j <= C /\ k \in Nat
  BY <1>2, CrowdSizes
<1>4. Covered(r, n)' <=> Level(r, n)' >= N * (1 + (j - C) * Lump)
  <2>1. Lump' = Lump
    BY DEF Lump
  <2> QED BY <2>1 DEF Covered, Reserve, S
<1>5. Covered(r, m) <=> Level(r, m) >= N * (1 + (k - C) * Lump)
  BY DEF Covered, Reserve, T
<1> HIDE DEF N, C, j, k
<1>6. /\ N * (1 + (j - C) * Lump) \in Int /\ N * (1 + (k - C) * Lump) \in Int /\ N * Lump \in Int
  <2>1. \A x, y \in Int : x * y \in Int /\ x + y \in Int /\ x - y \in Int
    OBVIOUS
  <2>2. N \in Int /\ C \in Int /\ Lump \in Int /\ j \in Int /\ k \in Int /\ 1 \in Int
    BY <1>1, <1>3
  <2>3. (j - C) * Lump \in Int /\ (k - C) * Lump \in Int
    BY <2>1, <2>2
  <2> QED BY <2>1, <2>2, <2>3
<1>7. ASSUME Covered(r, m), Level(r, n)' >= Level(r, m), S \subseteq T PROVE Covered(r, n)'
  <2>1. j <= k
    BY <1>2, <1>7, CrowdSizes DEF j, k
  <2>2. N * (1 + (j - C) * Lump) <= N * (1 + (k - C) * Lump)
    BY <1>1, <1>3, <2>1, ReserveFalls
  <2> QED BY <1>1, <1>4, <1>5, <1>6, <1>7, <2>2
<1>8. ASSUME NEW t \in T, Covered(r, m), Level(r, n)' >= Level(r, m) - N * Lump, S \subseteq T \ {t}
      PROVE  Covered(r, n)'
  <2>1. j + 1 <= k
    <3>1. S \subseteq T /\ t \in T \ S
      BY <1>8
    <3> QED BY <1>2, <3>1, CrowdSizes DEF j, k
  <2>2. N * (1 + (j - C) * Lump) <= N * (1 + (k - C) * Lump) - N * Lump
    BY <1>1, <1>3, <2>1, ReserveDrops
  <2> QED BY <1>1, <1>4, <1>5, <1>6, <1>8, <2>2
<1>9. ASSUME Level(r, n)' >= N PROVE Covered(r, n)'
  <2>1. N * (1 + (j - C) * Lump) <= N
    BY <1>1, <1>3, ReserveOfAll
  <2> QED BY <1>1, <1>4, <1>6, <1>9, <2>1
<1>10. ASSUME S = {}, Level(r, n)' >= 0 PROVE Covered(r, n)'
  <2>1. j = 0
    BY <1>10, FS_EmptySet DEF j
  <2>2. N * (1 + (0 - C) * Lump) <= 0
    BY <1>1, ReserveOfNone
  <2> QED BY <1>1, <1>4, <1>6, <1>10, <2>1, <2>2
<1> QED BY <1>7, <1>8, <1>9, <1>10 DEF S, T, N

\* A later timestamp leaves less to accrue.
LEMMA YieldFalls ==
    ASSUME TypeInv, TypeInv', NEW r \in Ref, last_refill[r] <= last_refill'[r], NEW n \in Int
    PROVE  Yield(r, n)' <= Yield(r, n) /\ Yield(r, n)' \in Nat
<1> DEFINE d == Facts!saturating_sub(n, last_refill'[r])
           e == Facts!saturating_sub(n, last_refill[r])
<1>1. d \in Nat /\ e \in Nat /\ d <= e
  BY DEF TypeInv, Facts!saturating_sub
<1>2. Yield(r, n) = Facts!refill_tokens(e, Facts!rate_scaled)
  BY DEF Yield
<1>3. Yield(r, n)' = Facts!refill_tokens(d, Facts!rate_scaled)
  BY DEF Yield
<1> HIDE DEF d, e
<1>4. Facts!refill_tokens(d, Facts!rate_scaled) \in Nat
  BY <1>1, Constants, FactsApply, Facts!ClaimedWithinElapsed
<1>5. Facts!refill_tokens(d, Facts!rate_scaled) <= Facts!refill_tokens(e, Facts!rate_scaled)
  BY <1>1, Constants, FactsApply, Facts!RefillMonotone
<1> QED BY <1>2, <1>3, <1>4, <1>5

\* Nobody comes to owe by another thread's step: at most, what others claim is no
\* longer there to be seen.
LEMMA OthersOwe ==
    ASSUME ClaimInv, ClaimInv', Facts!ClockStep, NEW t \in Thread, OwnStep(t),
           NEW u \in Thread, u # t, NEW r \in Ref, NEW n \in Nat, Owes(u, r, n)'
    PROVE  Owes(u, r, n)
<1>1. /\ pc'[u] = pc[u] /\ call'[u] = call[u] /\ state'[u] = state[u]
      /\ loaded'[u] = loaded[u] /\ observed'[u] = observed[u]
  BY DEF OwnStep
<1>2. state[u] = r
  BY <1>1 DEF Owes
<1>3. last_refill[r] <= last_refill'[r]
  <2>1. r \notin Facts!Free
    BY <1>2 DEF Facts!Free
  <2>2. Facts!Forward
    BY ClaimFacts, FactsApply, Facts!NextForward
  <2>3. last_refill[r] \in Nat /\ last_refill'[r] \in Nat
    BY DEF ClaimInv, TypeInv
  <2> QED BY <2>1, <2>2, <2>3 DEF Facts!Forward
<1>4. Armed(u)
  <2>1. CASE pc[u] = "observe_refill"
    <3>0. PICK x \in Int : x = call[u].now
      BY DEF ClaimInv, TypeInv, Unread
    <3>1. accrued(u)' = Yield(r, x)' /\ accrued(u) = Yield(r, x)
      <4>1. accrued(u)' = Yield(state[u], call[u].now)'
        BY NextAccruedIsYield DEF AccrualIsYield
      <4>2. Yield(state[u], call[u].now)' = Yield(r, x)'
        BY <1>1, <1>2, <3>0 DEF Yield
      <4> QED BY <1>2, <3>0, <4>1, <4>2, AccruedIsYield DEF AccrualIsYield
    <3>2. Yield(r, x)' <= Yield(r, x) /\ Yield(r, x)' \in Nat /\ Yield(r, x) \in Nat
      BY <1>3, YieldFalls, YieldTyped DEF ClaimInv
    <3>3. loaded[u] \in Int /\ capacity_scaled \in Nat
      BY Constants, SameConstants DEF ClaimInv, TypeInv
    <3>4. MinOf(loaded[u] + accrued(u)', capacity_scaled) > 0
      BY <1>1, <2>1 DEF Owes, Armed
    <3> QED BY <2>1, <3>1, <3>2, <3>3, <3>4 DEF Armed, MinOf
  <2>2. CASE pc[u] # "observe_refill"
    BY <1>1, <2>2 DEF Owes, Armed
  <2> QED BY <2>1, <2>2
<1> QED BY <1>1, <1>2, <1>4 DEF Owes

\* A quiet step leaves every level as it was.
LEMMA QuietLevel ==
    ASSUME Facts!Still, UNCHANGED tokens, NEW r \in Ref, NEW n \in Nat
    PROVE  Level(r, n)' = Level(r, n)
<1>1. Facts!Outstanding(r)' = Facts!Outstanding(r)
  BY FactsApply, Facts!StillOutstanding
<1>2. last_refill' = last_refill
  BY DEF Facts!Still
<1> QED BY <1>1, <1>2 DEF Level, Yield

\* The steps after which a thread owes what it did not owe before: it loads a level
\* above zero; or, whatever its clock reading, it has seen to the time before it.
Indebting(t) == LoadLevel(t) \/ Threads!NothingAccrued(t) \/ Threads!Claim(t)

\* After any other step it owes only what it did.
LEMMA OwesNoMore ==
    ASSUME ClaimInv, sample_rate > 1, NEW t \in Thread, OwnStep(t), Check(t) \/ Running(t),
           ~Indebting(t), NEW r \in Ref, NEW n \in Nat, Owes(t, r, n)'
    PROVE  Owes(t, r, n)
<1> DEFINE Payers == {"observe_refill", "load_refill", "claim", "credit", "load_tokens"}
<1>1. pc'[t] \in Payers
  BY DEF Owes, Armed
<1>2. TypeInv
  BY DEF ClaimInv
<1> USE DEF TypeInv, Goto, Threads!Goto, Threads!shared, Threads!history, sampler
<1>3. ~(Check(t) \/ Lookup(t) \/ Insert(t) \/ AlreadyInserted(t) \/ Unsampled(t) \/ should_sample(t))
  BY <1>1, <1>2
  DEF Check, Lookup, Threads!Lookup, Insert, Threads!Insert, AlreadyInserted,
      Threads!AlreadyInserted, Unsampled, should_sample
<1>4. ~(PeekAdmits(t) \/ PeekFails(t) \/ Admit(t) \/ Charge(t))
  BY <1>1, <1>2 DEF PeekAdmits, PeekFails, Admit, Charge, Decide, Threads!Return
<1>5. ~consume_exact(t)
  BY DEF consume_exact
<1>6. ~ReadNow(t)
  <2>1. SUFFICES ASSUME ReadNow(t) PROVE FALSE
    OBVIOUS
  <2>2. pc[t] = "load_refill" /\ ~HasNow(t)
    BY <1>1, <2>1 DEF ReadNow
  <2> QED BY <1>2, <2>2 DEF SamplingInv
<1>7. CASE LoadAccrual(t)
  <2>1. /\ pc[t] = "observe_refill" /\ pc'[t] = "load_refill"
        /\ UNCHANGED <<call, state>>
        /\ \E plus \in random_fraction_of(accrued(t)) :
              observed'[t] = MinOf(loaded[t] + plus, capacity_scaled)
    BY <1>1, <1>2, <1>7 DEF LoadAccrual, Observe
  <2>2. state[t] = r /\ call[t].now <= n /\ observed'[t] > 0
    BY <2>1 DEF Owes, Armed
  <2>3. accrued(t) \in Nat
    BY <1>2, <2>2, AccrualTyped DEF accrued
  <2>4. PICK plus \in random_fraction_of(accrued(t)) :
           observed'[t] = MinOf(loaded[t] + plus, capacity_scaled)
    BY <2>1
  <2>5. plus \in Nat /\ plus <= accrued(t)
    BY <2>3 DEF random_fraction_of
  <2>6. loaded[t] \in Int /\ capacity_scaled \in Nat
    BY <1>2, Constants, SameConstants
  <2>7. MinOf(loaded[t] + accrued(t), capacity_scaled) > 0
    BY <2>2, <2>3, <2>4, <2>5, <2>6 DEF MinOf
  <2> QED BY <2>1, <2>2, <2>7 DEF Owes, Armed
<1>8. CASE apply_refill(t)
  <2>1. CASE Threads!LoadRefill(t)
    BY <1>2, <1>8, <2>1 DEF apply_refill, Threads!LoadRefill, Owes, Armed
  <2>2. CASE Threads!ClaimFails(t)
    BY <1>2, <1>8, <2>2 DEF apply_refill, Threads!ClaimFails, Owes, Armed
  <2>3. CASE Threads!Credit(t)
    BY <1>2, <1>8, <2>3 DEF apply_refill, Threads!Credit, Owes, Armed
  <2> QED BY <1>8, <2>1, <2>2, <2>3 DEF apply_refill, Threads!Claiming, Indebting
<1> QED BY <1>3, <1>4, <1>5, <1>6, <1>7, <1>8 DEF Running, ReadLevel, Indebting

\* A step of t in a bucket that is sampled.
SampledStep(t) ==
    /\ ClaimInv /\ ClaimInv' /\ Cover /\ sample_rate > 1
    /\ OwnStep(t) /\ (Check(t) \/ Running(t)) /\ Facts!ClockStep

LEMMA OwingFalls ==
    ASSUME NEW t \in Thread, SampledStep(t), NEW r \in Ref, NEW n \in Nat, NEW m \in Nat, n <= m
    PROVE  /\ Owing(r, n)' \ {t} \subseteq Owing(r, m)
           /\ ~Indebting(t) => Owing(r, n)' \subseteq Owing(r, m)
<1>1. ASSUME NEW u \in Thread, Owes(u, r, n) PROVE Owes(u, r, m)
  <2>1. call[u].now \in Int
    BY DEF SampledStep, ClaimInv, TypeInv, Unread
  <2> QED BY <1>1, <2>1 DEF Owes
<1>2. \A u \in Thread \ {t} : Owes(u, r, n)' => Owes(u, r, n)
  BY OthersOwe DEF SampledStep
<1>3. ~Indebting(t) => (Owes(t, r, n)' => Owes(t, r, n))
  BY OwesNoMore DEF SampledStep
<1> QED BY <1>1, <1>2, <1>3 DEF Owing

\* A thread that loads a level above zero owes; but then the level is there.
LEMMA LoadCovered ==
    ASSUME Callers, NEW t \in Thread, SampledStep(t), LoadLevel(t), Facts!Still,
           NEW r \in Ref, NEW n \in Nat
    PROVE  Covered(r, n)'
<1>1. ClaimInv /\ ClaimInv' /\ TypeInv /\ sample_rate' = sample_rate /\ Covered(r, n)
  BY DEF SampledStep, ClaimInv, OwnStep, Cover
<1>2. /\ UNCHANGED <<tokens, last_refill, call, state>> /\ pc[t] \in {"estimate", "observe"}
      /\ loaded' = [loaded EXCEPT ![t] = tokens[state[t]]]
  BY DEF LoadLevel, AfterTokens
<1>3. Level(r, n)' = Level(r, n) /\ Level(r, n) \in Int
  BY <1>1, <1>2, QuietLevel, LevelTyped
<1>4. CASE ~Owes(t, r, n)'
  <2>1. Owing(r, n)' \subseteq Owing(r, n)
    <3>1. Owing(r, n)' \ {t} \subseteq Owing(r, n)
      BY OwingFalls
    <3> QED BY <1>4, <3>1 DEF Owing
  <2> QED BY <1>1, <1>3, <2>1, StaysCovered
<1>5. CASE Owes(t, r, n)'
  <2>1. state[t] = r /\ call[t].now <= n /\ loaded'[t] = tokens[r]
        /\ MinOf(loaded'[t] + accrued(t)', capacity_scaled) > 0
    BY <1>1, <1>2, <1>5 DEF Owes, Armed, LoadLevel, AfterTokens, Goto, Threads!Goto, TypeInv
  <2>2. PICK x \in Int : x = call[t].now
    BY <1>1 DEF TypeInv, Unread
  <2>3. accrued(t)' = Yield(r, x)
    <3>1. accrued(t)' = Yield(state[t], call[t].now)'
      BY NextAccruedIsYield DEF AccrualIsYield
    <3> QED BY <1>2, <2>1, <2>2, <3>1 DEF Yield
  <2>4. Yield(r, x) \in Nat /\ Yield(r, n) \in Nat /\ Yield(r, x) <= Yield(r, n)
    BY <1>1, <2>1, <2>2, YieldTyped
  <2>5. tokens[r] \in Int /\ capacity_scaled \in Nat
    BY <1>1, Constants, SameConstants DEF TypeInv
  <2>6. tokens[r] + Yield(r, n) >= 1
    BY <2>1, <2>3, <2>4, <2>5 DEF MinOf
  <2>7. NANOS_PER_SEC * (tokens[r] + Yield(r, n)) >= NANOS_PER_SEC
    <3> DEFINE z == tokens[r] + Yield(r, n)
    <3>1. z \in Int /\ z >= 1
      BY <2>4, <2>5, <2>6
    <3> HIDE DEF z
    <3>2. NANOS_PER_SEC * z >= NANOS_PER_SEC
      BY <3>1, Constants
    <3> QED BY <3>2 DEF z
  <2>8. Level(r, n)' >= NANOS_PER_SEC
    BY <1>1, <1>3, <2>7, LevelTyped, Constants DEF Level
  <2> QED BY <1>1, <2>8, StaysCovered
<1> QED BY <1>4, <1>5

\* A thread that finds nothing accrued when it looks has seen to all time before.
LEMMA NothingCovered ==
    ASSUME Callers, NEW t \in Thread, SampledStep(t), Threads!NothingAccrued(t), Facts!Still,
           NEW r \in Ref, NEW n \in Nat
    PROVE  Covered(r, n)'
<1>1. ClaimInv /\ ClaimInv' /\ TypeInv /\ sample_rate' = sample_rate /\ sample_rate > 1 /\ Cover
  BY DEF SampledStep, ClaimInv, OwnStep
<1>2. /\ UNCHANGED <<tokens, last_refill, call, state, observed>> /\ pc[t] = "load_refill"
      /\ Threads!accrued_since(t, last_refill[state[t]]) = 0
      /\ pc'[t] = "load_tokens"
  <2>1. UNCHANGED observed
    BY DEF SampledStep, Check, Running, Threads!NothingAccrued, ReadNow, Lookup, Threads!Lookup, Insert,
           Threads!Insert, AlreadyInserted, Threads!AlreadyInserted, Unsampled, should_sample, PeekAdmits,
           PeekFails, ReadLevel, LoadLevel, AfterTokens, LoadAccrual, Admit, apply_refill, consume_exact,
           Threads!LoadTokens, Threads!DebitFails, Threads!Deny, Threads!Debit, Charge, sampler
  <2> QED BY <1>1, <2>1 DEF Threads!NothingAccrued, Threads!shared, Threads!Goto, TypeInv
<1>3. call[t].now \in Nat
  BY <1>1, <1>2 DEF TypeInv, SamplingInv, HasNow, Unread
<1>4. PICK x \in Nat : x = call[t].now
  BY <1>3
<1>5. PICK m \in Nat : n <= m /\ x <= m /\ (m = n \/ (n < x /\ m = x))
  <2>1. CASE n < x
    BY <1>4, <2>1
  <2>2. CASE x <= n
    BY <1>4, <2>2
  <2> QED BY <1>4, <2>1, <2>2
<1>6. Owing(r, n)' \subseteq Owing(r, m)
  <2>1. Owing(r, n)' \ {t} \subseteq Owing(r, m)
    BY <1>5, OwingFalls
  <2>2. Owes(t, r, n)' => Owes(t, r, m)
    BY <1>2, <1>4, <1>5 DEF Owes, Armed
  <2> QED BY <2>1, <2>2 DEF Owing
<1>7. CASE m = n
  <2>1. Level(r, n)' >= Level(r, n)
    BY <1>1, <1>2, QuietLevel, LevelTyped
  <2> QED BY <1>1, <1>6, <1>7, <2>1, StaysCovered DEF Cover
<1>8. CASE n < x /\ m = x /\ state[t] = r
  <2>1. Yield(r, x) = 0
    BY <1>2, <1>4, <1>8, SameAccrued DEF Yield, Facts!accrued_since
  <2>2. Level(r, n)' = Level(r, n)
    BY <1>2, QuietLevel
  <2>3. Level(r, n) >= Level(r, m)
    <3>1. NANOS_PER_SEC * (tokens[r] + Yield(r, n)) >= NANOS_PER_SEC * (tokens[r] + 0)
      <4>1. tokens[r] \in Int /\ Yield(r, n) \in Nat
        BY <1>1, LevelTyped
      <4>2. NANOS_PER_SEC * (tokens[r] + Yield(r, n))
               = NANOS_PER_SEC * (tokens[r] + 0) + NANOS_PER_SEC * Yield(r, n)
        BY <4>1, Constants
      <4>3. NANOS_PER_SEC * Yield(r, n) \in Nat /\ NANOS_PER_SEC * (tokens[r] + 0) \in Int
        BY <4>1, Constants
      <4> QED BY <4>2, <4>3
    <3>2. Level(r, m) = NANOS_PER_SEC * (tokens[r] + 0)
                          + Facts!rate_scaled * Cardinality(Facts!Outstanding(r))
      BY <1>8, <2>1 DEF Level
    <3>3. NANOS_PER_SEC * (tokens[r] + 0) \in Int
          /\ Facts!rate_scaled * Cardinality(Facts!Outstanding(r)) \in Nat
          /\ NANOS_PER_SEC * (tokens[r] + Yield(r, n)) \in Int
      <4>1. NANOS_PER_SEC * (tokens[r] + 0) \in Int
        BY <1>1, Constants DEF TypeInv
      <4> QED BY <1>1, <4>1, LevelTyped
    <3> QED BY <3>1, <3>2, <3>3 DEF Level
  <2> QED BY <1>1, <1>6, <2>2, <2>3, StaysCovered DEF Cover
<1>9. CASE state[t] # r
  <2>1. ~Owes(t, r, n)'
    BY <1>2, <1>9 DEF Owes
  <2>2. Owing(r, n)' \subseteq Owing(r, n)
    <3>1. Owing(r, n)' \ {t} \subseteq Owing(r, n)
      BY OwingFalls
    <3> QED BY <2>1, <3>1 DEF Owing
  <2>3. Level(r, n)' >= Level(r, n)
    BY <1>1, <1>2, QuietLevel, LevelTyped
  <2> QED BY <1>1, <2>2, <2>3, StaysCovered DEF Cover
<1> QED BY <1>5, <1>7, <1>8, <1>9

\* A multiple keeps the order, and splits over a sum.
LEMMA Scaled ==
    ASSUME NEW n \in Nat, NEW x \in Int, NEW y \in Int
    PROVE  /\ n * x \in Int /\ n * y \in Int /\ n * (x + y) \in Int
           /\ n * (x + y) = n * x + n * y
           /\ x <= y => n * x <= n * y
<1>1. n * x \in Int /\ n * y \in Int /\ n * (x + y) \in Int /\ n * (x + y) = n * x + n * y
  OBVIOUS
<1>2. ASSUME x <= y PROVE n * x <= n * y
  <2> DEFINE d == y - x
  <2>1. d \in Nat /\ y = x + d
    BY <1>2
  <2> HIDE DEF d
  <2>2. n * (x + d) = n * x + n * d /\ n * d \in Nat
    BY <2>1
  <2> QED BY <1>1, <2>1, <2>2
<1> QED BY <1>1, <1>2

\* A claim of n nanoseconds worth a takes from what has yet to accrue, and adds to
\* what has yet to be credited: no less is left.
LEMMA ClaimBalance ==
    ASSUME NEW n \in Nat, NEW tok \in Int, NEW old \in Nat, NEW new \in Nat, NEW a \in Nat,
           NEW out \in Nat, old <= a + new
    PROVE  n * (tok + new) + (out + n * a) >= n * (tok + old) + out
<1>1. n * (tok + old) <= n * ((tok + new) + a)
  BY Scaled
<1>2. n * ((tok + new) + a) = n * (tok + new) + n * a
  BY Scaled
<1>3. n * (tok + old) \in Int /\ n * (tok + new) \in Int /\ n * a \in Int
  BY Scaled
<1> QED BY <1>1, <1>2, <1>3

\* A claim takes from every later level what it adds to the claims; and before its
\* clock reading it finds the level that its thread has.
LEMMA ClaimCovered ==
    ASSUME Facts!ExactRate, Callers, NEW t \in Thread, SampledStep(t), Threads!Claim(t),
           UNCHANGED observed, NEW r \in Ref, NEW n \in Nat
    PROVE  Covered(r, n)'
<1> DEFINE N == NANOS_PER_SEC
           R == Facts!rate_scaled
           out == Cardinality(Facts!Outstanding(r))
           a == Facts!added(t)
           c == Facts!claimed(t)
<1>1. /\ ClaimInv /\ ClaimInv' /\ TypeInv /\ sample_rate' = sample_rate /\ Cover
      /\ sample_rate > 1 /\ Facts!ClockInv /\ Facts!ClockTypes
  BY ClaimFacts DEF SampledStep, ClaimInv, OwnStep
<1>2. /\ UNCHANGED <<tokens, call, state>> /\ pc[t] = "claim" /\ pc'[t] = "credit"
      /\ loaded[t] = last_refill[state[t]]
  BY <1>1 DEF Threads!Claim, Threads!Goto, TypeInv
<1>3. /\ state[t] \in Ref /\ c \in Nat
      /\ last_refill' = [last_refill EXCEPT ![state[t]] = @ + c]
      /\ Facts!Cardinality(Facts!Outstanding(r)') =
            Facts!Cardinality(Facts!Outstanding(r)) + (IF r = state[t] THEN c ELSE 0)
  <2>1. Facts!Claim(t)
    BY SameMoves
  <2> QED BY <1>1, <2>1, FactsApply, Facts!ClaimMoves
<1>4. /\ R * c = N * a
      /\ a \in Nat /\ c <= Facts!saturating_sub(call[t].now, loaded[t])
  BY <1>1, <1>2, FactsApply, Facts!CreditIsWorthItsClaim, Facts!AccruedTyped
<1>5. PICK x \in Nat : x = call[t].now
  BY <1>1, <1>2 DEF TypeInv, SamplingInv, HasNow, Unread, Timed
<1>6. /\ tokens[r] \in Int /\ Yield(r, n) \in Nat /\ out \in Nat /\ R * out \in Nat
      /\ Level(r, n) = N * (tokens[r] + Yield(r, n)) + R * out /\ Level(r, n) \in Int
      /\ Yield(r, x) \in Nat /\ Level(r, x) = N * (tokens[r] + Yield(r, x)) + R * out
  BY <1>1, LevelTyped DEF Level
<1>7. /\ Yield(r, n)' \in Nat
      /\ Level(r, n)' = N * (tokens[r] + Yield(r, n)') + R * Cardinality(Facts!Outstanding(r)')
  <2>1. Yield(r, n)' \in Nat
    BY <1>1, NextLevelTyped DEF LevelsTyped
  <2> QED BY <1>2, <2>1 DEF Level
<1>8. Owing(r, n)' \ {t} \subseteq Owing(r, n)
  BY OwingFalls
<1>9. CASE r # state[t]
  <2>1. Cardinality(Facts!Outstanding(r)') = out
    BY <1>3, <1>6, <1>9, SameSizes
  <2>2. Yield(r, n)' = Yield(r, n)
    <3>1. last_refill'[r] = last_refill[r]
      BY <1>1, <1>3, <1>9 DEF TypeInv
    <3> QED BY <3>1 DEF Yield
  <2>3. Level(r, n)' >= Level(r, n)
    BY <1>6, <1>7, <2>1, <2>2
  <2>4. ~Owes(t, r, n)'
    BY <1>2, <1>9 DEF Owes
  <2>5. Owing(r, n)' \subseteq Owing(r, n)
    BY <1>8, <2>4 DEF Owing
  <2> QED BY <1>1, <2>3, <2>5, StaysCovered DEF Cover
<1>10. ASSUME r = state[t] PROVE Level(r, n)' = N * (tokens[r] + Yield(r, n)') + (R * out + N * a)
  <2>1. Cardinality(Facts!Outstanding(r)') = out + c
    BY <1>3, <1>10, SameSizes
  <2>2. R * (out + c) = R * out + R * c
    BY <1>3, <1>6, Constants, Scaled
  <2> QED BY <1>4, <1>7, <2>1, <2>2
<1>11. CASE r = state[t] /\ x <= n
  <2> DEFINE e == Facts!saturating_sub(n, last_refill[r])
  <2>1. e \in Nat /\ c <= e /\ Facts!saturating_sub(n, last_refill[r] + c) = e - c
    BY <1>1, <1>2, <1>3, <1>4, <1>5, <1>11 DEF TypeInv, Facts!saturating_sub
  <2>2. Yield(r, n) = Facts!refill_tokens(e, R)
    BY DEF Yield
  <2>3. Yield(r, n)' = Facts!refill_tokens(e - c, R)
    <3>1. last_refill'[r] = last_refill[r] + c
      BY <1>1, <1>3, <1>11 DEF TypeInv
    <3> QED BY <2>1, <3>1 DEF Yield
  <2> HIDE DEF e
  <2>4. Yield(r, n) <= a + Yield(r, n)'
    <3>1. Facts!refill_tokens(e, R) <= a + Facts!refill_tokens(e - c, R)
      BY <1>3, <1>4, <2>1, FactsApply, Constants, Facts!RefillJoins
    <3> QED BY <2>2, <2>3, <3>1
  <2>5. Level(r, n)' >= Level(r, n)
    <3> HIDE DEF N, R, out, a
    <3>1. N \in Nat
      BY Constants DEF N
    <3> QED BY <1>4, <1>6, <1>7, <1>10, <1>11, <2>4, <3>1, ClaimBalance
  <2>6. Owes(t, r, n)' => Owes(t, r, n)
    BY <1>2, <1>5, <1>11 DEF Owes, Armed
  <2>7. Owing(r, n)' \subseteq Owing(r, n)
    BY <1>8, <2>6 DEF Owing
  <2> QED BY <1>1, <2>5, <2>7, StaysCovered DEF Cover
<1>12. CASE r = state[t] /\ n < x
  <2>1. Yield(r, x) = a
    BY <1>2, <1>5, <1>12 DEF Yield, Facts!added, Facts!accrued_since
  <2>2. Level(r, n)' >= Level(r, x)
    <3> HIDE DEF N, R, out, a
    <3>1. N \in Nat
      BY Constants DEF N
    <3> QED BY <1>4, <1>6, <1>7, <1>10, <1>12, <2>1, <3>1, ClaimBalance
  <2>3. Owing(r, n)' \subseteq Owing(r, x)
    <3>1. Owing(r, n)' \ {t} \subseteq Owing(r, x)
      BY <1>5, <1>12, OwingFalls
    <3>2. Owes(t, r, n)' => Owes(t, r, x)
      BY <1>2, <1>5 DEF Owes, Armed
    <3> QED BY <3>1, <3>2 DEF Owing
  <2> QED BY <1>1, <2>2, <2>3, StaysCovered DEF Cover
<1> QED BY <1>5, <1>9, <1>11, <1>12

\* A full bucket covers whoever owes; one without capacity has shown no level above
\* zero to anybody.
LEMMA FullCovered ==
    ASSUME Callers, ClaimInv, ClaimInv', sample_rate' = sample_rate,
           NEW r \in Ref, tokens'[r] >= capacity_scaled, NEW n \in Nat
    PROVE  Covered(r, n)'
<1> DEFINE N == NANOS_PER_SEC
<1>1. /\ tokens'[r] \in Int /\ Yield(r, n)' \in Nat
      /\ Facts!rate_scaled * Cardinality(Facts!Outstanding(r)') \in Nat
      /\ Level(r, n)' = N * (tokens'[r] + Yield(r, n)')
                           + Facts!rate_scaled * Cardinality(Facts!Outstanding(r)')
  BY NextLevelTyped DEF LevelsTyped, Level
<1>2. capacity_scaled \in Nat /\ N \in Nat
  BY Constants, SameConstants
<1>3. CASE capacity_scaled >= 1
  <2>1. N * 1 <= N * (tokens'[r] + Yield(r, n)') /\ N * (tokens'[r] + Yield(r, n)') \in Int
    BY <1>1, <1>2, <1>3, Scaled
  <2>2. Level(r, n)' >= N
    BY <1>1, <1>2, <2>1
  <2> QED BY <2>2, StaysCovered
<1>4. CASE capacity_scaled = 0
  <2>1. \A u \in Thread : observed'[u] <= 0 /\ observed'[u] \in Int
    <3>1. capacity_scaled' = capacity_scaled
      BY DEF capacity_scaled
    <3> QED BY <1>4, <3>1 DEF ClaimInv, TypeInv
  <2>2. \A u \in Thread : ~Armed(u)'
    <3>1. ASSUME NEW u \in Thread, pc'[u] = "observe_refill"
          PROVE  ~(MinOf(loaded'[u] + accrued(u)', capacity_scaled) > 0)
      <4>1. loaded'[u] + accrued(u)' \in Int
        <5>1. state'[u] \in Ref /\ call'[u].now \in Int /\ loaded'[u] \in Int
          <6>1. TypeInv'
            BY DEF ClaimInv
          <6>2. state'[u] \in Ref
            BY <3>1, <6>1 DEF TypeInv, Unheld
          <6>3. call'[u].now \in Int
            BY <6>1 DEF TypeInv, Unread
          <6> QED BY <6>1, <6>2, <6>3 DEF TypeInv
        <5>2. PICK v \in Ref, x \in Int : v = state'[u] /\ x = call'[u].now
          BY <5>1
        <5>3. accrued(u)' = Yield(state[u], call[u].now)'
          BY NextAccruedIsYield DEF AccrualIsYield
        <5>4. Yield(state[u], call[u].now)' = Yield(v, x)'
          BY <5>2 DEF Yield
        <5>5. Yield(v, x)' \in Nat
          <6>1. last_refill'[v] \in Int
            BY DEF ClaimInv, TypeInv
          <6>2. Facts!saturating_sub(x, last_refill'[v]) \in Nat
            BY <5>2, <6>1 DEF Facts!saturating_sub
          <6>3. Facts!refill_tokens(Facts!saturating_sub(x, last_refill'[v]), Facts!rate_scaled) \in Nat
            BY <6>2, Constants, FactsApply, Facts!ClaimedWithinElapsed
          <6> QED BY <6>3 DEF Yield
        <5> QED BY <5>1, <5>3, <5>4, <5>5
      <4> QED BY <1>4, <4>1 DEF MinOf
    <3> QED BY <2>1, <3>1 DEF Armed
  <2>3. Owing(r, n)' = {}
    BY <2>2 DEF Owing, Owes
  <2>4. N * (tokens'[r] + Yield(r, n)') >= 0
    <3>1. tokens'[r] + Yield(r, n)' \in Nat
      BY <1>1, <1>4
    <3> QED BY <1>2, <3>1
  <2>5. Level(r, n)' >= 0
    <3>1. N * (tokens'[r] + Yield(r, n)') \in Int
      BY <1>1, <1>2, Scaled
    <3> QED BY <1>1, <2>4, <3>1
  <2> QED BY <2>3, <2>5, StaysCovered
<1> QED BY <1>2, <1>3, <1>4

\* A credit turns a claim into tokens, or fills the bucket.
LEMMA CreditCovered ==
    ASSUME Facts!ExactRate, Callers, NEW t \in Thread, SampledStep(t), Threads!Credit(t),
           NEW r \in Ref, NEW n \in Nat
    PROVE  Covered(r, n)'
<1> DEFINE N == NANOS_PER_SEC
           R == Facts!rate_scaled
           out == Cardinality(Facts!Outstanding(r))
           a == Facts!added(t)
           c == Facts!claimed(t)
<1>1. /\ ClaimInv /\ ClaimInv' /\ TypeInv /\ sample_rate' = sample_rate /\ Cover
      /\ Facts!ClockInv /\ Facts!ClockTypes /\ Facts!Credit(t)
  BY ClaimFacts, SameMoves DEF SampledStep, ClaimInv, OwnStep
<1>2. /\ UNCHANGED last_refill /\ pc[t] = "credit"
      /\ tokens' = [tokens EXCEPT ![state[t]] =
                      IF @ >= capacity_scaled THEN @
                      ELSE Facts!MinOf(Facts!saturating_add(@, a), capacity_scaled)]
  BY <1>1, SameConstants DEF Facts!Credit
<1>3. /\ state[t] \in Ref /\ c \in Nat
      /\ c <= Facts!Cardinality(Facts!Outstanding(state[t]))
      /\ Facts!Cardinality(Facts!Outstanding(r)') =
            Facts!Cardinality(Facts!Outstanding(r)) - (IF r = state[t] THEN c ELSE 0)
  BY <1>1, FactsApply, Facts!CreditMoves
<1>4. R * c = N * a /\ a \in Nat
  BY <1>1, <1>2, FactsApply, Facts!CreditIsWorthItsClaim, Facts!AccruedTyped
<1>5. /\ tokens[r] \in Int /\ Yield(r, n) \in Nat /\ out \in Nat /\ R * out \in Nat
      /\ Level(r, n) = N * (tokens[r] + Yield(r, n)) + R * out /\ Level(r, n) \in Int
  BY <1>1, LevelTyped DEF Level
<1>6. Level(r, n)' = N * (tokens'[r] + Yield(r, n)) + R * Cardinality(Facts!Outstanding(r)')
  BY <1>2 DEF Level, Yield
<1>7. Owing(r, n)' \subseteq Owing(r, n)
  <2>1. ~Indebting(t)
    BY <1>2 DEF Indebting, LoadLevel, AfterTokens, Threads!NothingAccrued, Threads!Claim
  <2> QED BY <2>1, OwingFalls
<1>8. CASE r # state[t]
  <2>1. Cardinality(Facts!Outstanding(r)') = out /\ tokens'[r] = tokens[r]
    BY <1>1, <1>2, <1>3, <1>5, <1>8, SameSizes DEF TypeInv
  <2>2. Level(r, n)' >= Level(r, n)
    BY <1>5, <1>6, <2>1
  <2> QED BY <1>1, <1>7, <2>2, StaysCovered DEF Cover
<1>9. CASE r = state[t] /\ tokens'[r] = tokens[r] + a
  <2>1. Cardinality(Facts!Outstanding(r)') = out - c /\ c <= out
    BY <1>3, <1>9, SameSizes
  <2>2. R * (out - c) = R * out - R * c
    BY <1>3, <1>5, Constants
  <2>3. N * ((tokens[r] + Yield(r, n)) + a) = N * (tokens[r] + Yield(r, n)) + N * a
        /\ N * (tokens[r] + Yield(r, n)) \in Int /\ N * a \in Int
    BY <1>4, <1>5, Constants, Scaled
  <2>4. tokens'[r] + Yield(r, n) = (tokens[r] + Yield(r, n)) + a
    BY <1>4, <1>5, <1>9
  <2>5. Level(r, n)' = (N * (tokens[r] + Yield(r, n)) + N * a) + (R * out - N * a)
    BY <1>4, <1>6, <2>1, <2>2, <2>3, <2>4
  <2>6. Level(r, n)' >= Level(r, n)
    BY <1>5, <2>3, <2>5
  <2> QED BY <1>1, <1>7, <2>6, StaysCovered DEF Cover
<1>10. r = state[t] => tokens'[r] = tokens[r] + a \/ tokens'[r] >= capacity_scaled
  <2>1. capacity_scaled \in Nat /\ capacity_scaled < I64_MAX /\ I64_MAX \in Nat
    BY Constants, SameConstants
  <2>2. r = state[t] => tokens'[r] = IF tokens[r] >= capacity_scaled THEN tokens[r]
                        ELSE Facts!MinOf(Facts!saturating_add(tokens[r], a), capacity_scaled)
    BY <1>1, <1>2 DEF TypeInv
  <2> QED BY <1>4, <1>5, <2>1, <2>2 DEF Facts!MinOf, Facts!saturating_add
<1>11. CASE r = state[t] /\ tokens'[r] >= capacity_scaled
  BY <1>1, <1>11, FullCovered
<1> QED BY <1>8, <1>9, <1>10, <1>11

\* A new bucket is full; the others see nothing of the insertion.
LEMMA InsertCovered ==
    ASSUME Callers, NEW t \in Thread, SampledStep(t), Insert(t), NEW r \in Ref, NEW n \in Nat
    PROVE  Covered(r, n)'
<1>1. /\ ClaimInv /\ ClaimInv' /\ TypeInv /\ sample_rate' = sample_rate /\ Cover
      /\ Facts!ClockTypes /\ Facts!Insert(t)
  BY ClaimFacts, SameMoves DEF SampledStep, ClaimInv, OwnStep, Insert
<1>2. PICK q \in Facts!Free :
         /\ tokens' = [tokens EXCEPT ![q] = capacity_scaled]
         /\ last_refill' = [last_refill EXCEPT ![q] = call[t].now]
         /\ state' = [state EXCEPT ![t] = q]
  BY <1>1, SameConstants DEF Facts!Insert
<1>3. CASE r = q
  <2>1. tokens'[r] >= capacity_scaled
    BY <1>1, <1>2, <1>3, Constants, SameConstants DEF TypeInv
  <2> QED BY <1>1, <2>1, FullCovered
<1>4. CASE r # q
  <2>1. Facts!Outstanding(r)' = Facts!Outstanding(r)
    BY <1>1, <1>2, FactsApply, Facts!InsertOutstanding
  <2>2. tokens'[r] = tokens[r] /\ last_refill'[r] = last_refill[r]
    BY <1>1, <1>2, <1>4 DEF TypeInv
  <2>3. Level(r, n)' = Level(r, n) /\ Level(r, n) \in Int
    BY <1>1, <2>1, <2>2, LevelTyped DEF Level, Yield
  <2>4. ~Indebting(t)
    BY <1>1 DEF Facts!Insert, Indebting, LoadLevel, AfterTokens, Threads!NothingAccrued,
                Threads!Claim
  <2>5. Owing(r, n)' \subseteq Owing(r, n)
    BY <2>4, OwingFalls
  <2> QED BY <1>1, <2>3, <2>5, StaysCovered DEF Cover
<1> QED BY <1>3, <1>4

\* A request that pays has owed, and takes no more than the lump it had in reserve.
LEMMA ChargeCovered ==
    ASSUME Callers, NEW t \in Thread, SampledStep(t), Charge(t), Facts!Still,
           NEW r \in Ref, NEW n \in Nat
    PROVE  Covered(r, n)'
<1> DEFINE N == NANOS_PER_SEC
           R == Facts!rate_scaled
           out == Cardinality(Facts!Outstanding(r))
<1>1. ClaimInv /\ ClaimInv' /\ TypeInv /\ sample_rate' = sample_rate /\ Cover
  BY DEF SampledStep, ClaimInv, OwnStep
<1>2. /\ UNCHANGED last_refill /\ pc[t] = "load_tokens" /\ pc'[t] = "idle"
      /\ tokens' = [tokens EXCEPT ![state[t]] = MaxOf(@ - debit(t), -I64_MAX - 1)]
  BY <1>1 DEF Charge, Decide, Threads!Return, Threads!Goto, TypeInv
<1>3. /\ debit(t) \in Nat /\ debit(t) <= Lump /\ Lump \in Nat
      /\ observed[t] <= 0 => debit(t) = 0
  BY <1>1, TypesFollow, DebitTyped, LumpIsLargest
<1>4. /\ tokens[r] \in Int /\ tokens'[r] \in Int /\ Yield(r, n) \in Nat /\ R * out \in Nat
      /\ Level(r, n) = N * (tokens[r] + Yield(r, n)) + R * out /\ Level(r, n) \in Int
      /\ Level(r, n)' = N * (tokens'[r] + Yield(r, n)) + R * out
  <2>1. Facts!Outstanding(r)' = Facts!Outstanding(r)
    BY FactsApply, Facts!StillOutstanding
  <2>2. tokens'[r] \in Int
    BY <1>1, NextLevelTyped DEF LevelsTyped
  <2> QED BY <1>1, <1>2, <2>1, <2>2, LevelTyped DEF Level, Yield
<1>5. Owing(r, n)' \subseteq Owing(r, n)
  <2>1. ~Indebting(t)
    BY <1>2 DEF Indebting, LoadLevel, AfterTokens, Threads!NothingAccrued, Threads!Claim
  <2> QED BY <2>1, OwingFalls
<1>6. state[t] = r => tokens'[r] >= tokens[r] - debit(t)
  BY <1>1, <1>2, <1>3, <1>4 DEF TypeInv, MaxOf
<1>7. CASE state[t] # r \/ observed[t] <= 0
  <2>1. tokens'[r] >= tokens[r]
    <3>1. CASE state[t] # r
      BY <1>1, <1>2, <1>4, <3>1 DEF TypeInv
    <3>2. CASE state[t] = r /\ observed[t] <= 0
      BY <1>3, <1>4, <1>6, <3>2
    <3> QED BY <1>7, <3>1, <3>2
  <2>2. N * (tokens[r] + Yield(r, n)) <= N * (tokens'[r] + Yield(r, n))
        /\ N * (tokens[r] + Yield(r, n)) \in Int /\ N * (tokens'[r] + Yield(r, n)) \in Int
    <3>1. tokens[r] + Yield(r, n) \in Int /\ tokens'[r] + Yield(r, n) \in Int
          /\ tokens[r] + Yield(r, n) <= tokens'[r] + Yield(r, n)
      BY <1>4, <2>1
    <3> QED BY <3>1, Constants, Scaled
  <2>3. Level(r, n)' >= Level(r, n)
    BY <1>4, <2>2
  <2> QED BY <1>1, <1>5, <2>3, StaysCovered DEF Cover
<1>8. CASE state[t] = r /\ ~(observed[t] <= 0)
  <2>1. observed[t] > 0
    BY <1>1, <1>8 DEF TypeInv
  <2>2. t \in Owing(r, n) /\ Owing(r, n)' \subseteq Owing(r, n) \ {t}
    BY <1>2, <1>5, <1>8, <2>1 DEF Owing, Owes, Armed
  <2>3. N * ((tokens'[r] + Yield(r, n)) + Lump) = N * (tokens'[r] + Yield(r, n)) + N * Lump
        /\ N * (tokens[r] + Yield(r, n)) <= N * ((tokens'[r] + Yield(r, n)) + Lump)
        /\ N * (tokens'[r] + Yield(r, n)) \in Int /\ N * Lump \in Int
        /\ N * (tokens[r] + Yield(r, n)) \in Int
    <3>1. tokens[r] + Yield(r, n) \in Int /\ tokens'[r] + Yield(r, n) \in Int
          /\ tokens[r] + Yield(r, n) <= (tokens'[r] + Yield(r, n)) + Lump
      BY <1>3, <1>4, <1>6, <1>8
    <3> QED BY <1>3, <3>1, Constants, Scaled
  <2>4. Level(r, n)' >= Level(r, n) - NANOS_PER_SEC * Lump
    BY <1>4, <2>3
  <2> QED BY <1>1, <2>2, <2>4, StaysCovered DEF Cover
<1> QED BY <1>7, <1>8

\* A step that only reads, and puts nobody in debt.
LEMMA QuietCovered ==
    ASSUME Callers, NEW t \in Thread, SampledStep(t), Quiet, ~Indebting(t),
           NEW r \in Ref, NEW n \in Nat
    PROVE  Covered(r, n)'
<1>1. /\ ClaimInv /\ ClaimInv' /\ sample_rate' = sample_rate /\ Cover
  BY DEF SampledStep, OwnStep
<1>2. Level(r, n)' = Level(r, n) /\ Level(r, n) \in Int
  BY <1>1, QuietLevel, LevelTyped DEF Quiet
<1>3. Owing(r, n)' \subseteq Owing(r, n)
  BY OwingFalls
<1> QED BY <1>1, <1>2, <1>3, StaysCovered DEF Cover

\* What a thread may do in a bucket that is sampled.
LEMMA SampledKinds ==
    ASSUME TypeInv, sample_rate > 1, NEW t \in Thread, Check(t) \/ Running(t)
    PROVE  \/ Quiet
           \/ Insert(t)
           \/ Threads!Claim(t) /\ UNCHANGED observed
           \/ Threads!Credit(t)
           \/ Charge(t) /\ Facts!Still
<1> USE DEF TypeInv, Quiet, Facts!Still, Goto, Threads!Goto, Threads!shared, Threads!history
<1>1. ASSUME Check(t) \/ ReadNow(t) PROVE Quiet
  BY <1>1 DEF Check, ReadNow
<1>2. ASSUME Lookup(t) \/ AlreadyInserted(t) PROVE Quiet
  BY <1>2 DEF Lookup, Threads!Lookup, AlreadyInserted, Threads!AlreadyInserted
<1>3. ASSUME Unsampled(t) \/ should_sample(t) PROVE Quiet
  BY <1>3 DEF Unsampled, should_sample
<1>4. ASSUME NEW permitted, Decide(t, permitted), pc[t] # "credit",
             UNCHANGED <<last_refill, created>>
      PROVE  Facts!Still
  BY <1>4 DEF Decide, Threads!Return
<1>5. ASSUME PeekAdmits(t) \/ PeekFails(t) \/ Admit(t) PROVE Quiet
  <2>1. CASE PeekAdmits(t)
    BY <1>4, <2>1 DEF PeekAdmits
  <2>2. CASE PeekFails(t)
    BY <2>2 DEF PeekFails
  <2>3. CASE Admit(t)
    BY <1>4, <2>3 DEF Admit
  <2> QED BY <1>5, <2>1, <2>2, <2>3
<1>6. ASSUME ReadLevel(t) PROVE Quiet
  <2>1. CASE LoadLevel(t)
    BY <2>1 DEF LoadLevel, AfterTokens
  <2>2. CASE LoadAccrual(t)
    BY <2>2 DEF LoadAccrual, Observe
  <2> QED BY <1>6, <2>1, <2>2 DEF ReadLevel
<1>7. ASSUME apply_refill(t)
      PROVE  Quiet \/ (Threads!Claim(t) /\ UNCHANGED observed) \/ Threads!Credit(t)
  <2>1. CASE Threads!NothingAccrued(t) \/ Threads!LoadRefill(t) \/ Threads!ClaimFails(t)
    BY <2>1 DEF Threads!NothingAccrued, Threads!LoadRefill, Threads!ClaimFails
  <2>2. UNCHANGED observed
    BY <1>7 DEF apply_refill, sampler
  <2> QED BY <1>7, <2>1, <2>2 DEF apply_refill, Threads!Claiming
<1>8. ~consume_exact(t)
  BY DEF consume_exact
<1>9. ASSUME Charge(t) PROVE Facts!Still
  BY <1>4, <1>9 DEF Charge
<1> QED BY <1>1, <1>2, <1>3, <1>5, <1>6, <1>7, <1>8, <1>9 DEF Running

\* Every step of a thread keeps every bucket covered.
LEMMA StepCovered ==
    ASSUME Facts!ExactRate, Callers, NEW t \in Thread, SampledStep(t),
           NEW r \in Ref, NEW n \in Nat
    PROVE  Covered(r, n)'
<1>1. TypeInv /\ sample_rate > 1 /\ (Check(t) \/ Running(t))
  BY DEF SampledStep, ClaimInv
<1>2. CASE Quiet
  <2>1. ~Threads!Claim(t)
    BY <1>1, <1>2 DEF Quiet, Facts!Still, Threads!Claim, Threads!Goto, TypeInv
  <2>2. CASE LoadLevel(t)
    BY <1>2, <2>2, LoadCovered DEF Quiet
  <2>3. CASE Threads!NothingAccrued(t)
    BY <1>2, <2>3, NothingCovered DEF Quiet
  <2>4. CASE ~Indebting(t)
    BY <1>2, <2>4, QuietCovered
  <2> QED BY <2>1, <2>2, <2>3, <2>4 DEF Indebting
<1>3. CASE Insert(t)
  BY <1>3, InsertCovered
<1>4. CASE Threads!Claim(t) /\ UNCHANGED observed
  BY <1>4, ClaimCovered
<1>5. CASE Threads!Credit(t)
  BY <1>5, CreditCovered
<1>6. CASE Charge(t) /\ Facts!Still
  BY <1>6, ChargeCovered
<1> QED BY <1>1, <1>2, <1>3, <1>4, <1>5, <1>6, SampledKinds

\* A step that changes no bucket and no thread changes no cover.
LEMMA OthersCovered ==
    ASSUME Callers, ClaimInv, ClaimInv', Cover, Facts!Still,
           UNCHANGED <<tokens, last_refill, pc, call, state, loaded, observed, sample_rate>>,
           NEW r \in Ref, NEW n \in Nat
    PROVE  Covered(r, n)'
<1>1. Level(r, n)' = Level(r, n) /\ Level(r, n) \in Int
  BY QuietLevel, LevelTyped
<1>2. Owing(r, n)' \subseteq Owing(r, n)
  <2>1. capacity_scaled' = capacity_scaled
    BY DEF capacity_scaled
  <2>2. ASSUME NEW u \in Thread PROVE accrued(u)' = accrued(u)
    <3>1. accrued(u)' = Yield(state[u], call[u].now)'
      BY NextAccruedIsYield DEF AccrualIsYield
    <3>2. Yield(state[u], call[u].now)' = Yield(state[u], call[u].now)
      BY DEF Yield
    <3> QED BY <3>1, <3>2, AccruedIsYield DEF AccrualIsYield
  <2> QED BY <2>1, <2>2 DEF Owing, Owes, Armed
<1> QED BY <1>1, <1>2, StaysCovered DEF Cover

\* So every bucket that is sampled stays covered; one that is not sampled is never
\* overdrawn.
CoverInv == ExactInv /\ (sample_rate > 1 => Cover)

LEMMA InitCoverInv == ASSUME Callers PROVE Init => CoverInv
<1> SUFFICES ASSUME Init PROVE CoverInv
  OBVIOUS
<1>1. ClaimInv
  BY InitClaimInv
<1>2. ExactInv
  BY InitExactInv
<1>3. ASSUME NEW r \in Ref, NEW n \in Nat PROVE Covered(r, n)
  <2>1. Owing(r, n) = {}
    BY DEF Init, Threads!Init, Owing, Owes, Armed
  <2>2. /\ tokens[r] = 0 /\ Yield(r, n) \in Nat /\ NANOS_PER_SEC \in Nat
        /\ Facts!rate_scaled * Cardinality(Facts!Outstanding(r)) \in Nat
    BY <1>1, LevelTyped, Constants DEF Init, Threads!Init
  <2>3. NANOS_PER_SEC * (tokens[r] + Yield(r, n)) \in Nat
    BY <2>2
  <2>4. Level(r, n) >= 0
    BY <2>2, <2>3 DEF Level
  <2>5. Level(r, n) \in Int /\ Reserve(0) <= 0
    <3>1. Reserve(0) <= 0
      BY <1>1, Constants, CrowdTyped, LumpIsLargest, ReserveOfNone DEF Reserve, ClaimInv
    <3> QED BY <1>1, <3>1, LevelTyped
  <2>6. Reserve(0) \in Int
    <3>1. \A x, y \in Int : x * y \in Int /\ x + y \in Int /\ x - y \in Int
      OBVIOUS
    <3>2. Cardinality(Thread) \in Int /\ Lump \in Int /\ NANOS_PER_SEC \in Int /\ 0 \in Int /\ 1 \in Int
      BY <1>1, Constants, CrowdTyped, LumpIsLargest DEF ClaimInv
    <3> QED BY <3>1, <3>2 DEF Reserve
  <2> QED BY <2>1, <2>4, <2>5, <2>6, FS_EmptySet DEF Covered
<1> QED BY <1>2, <1>3 DEF CoverInv, Cover

LEMMA NextCoverInv ==
    ASSUME Facts!ExactRate, Callers
    PROVE  CoverInv /\ [Next]_vars => CoverInv'
<1> SUFFICES ASSUME CoverInv, [Next]_vars PROVE CoverInv'
  OBVIOUS
<1>1. ExactInv' /\ ClaimInv /\ ClaimInv' /\ TypeInv /\ TypeInv' /\ Facts!ClockTypes'
  BY NextExactInv, NextTypesFollow DEF CoverInv, ExactInv, ClaimInv
<1>2. UNCHANGED sample_rate
  BY <1>1, StepOwners DEF vars, sampler, TickStep, OwnStep
<1>3. ASSUME sample_rate > 1, NEW r \in Ref, NEW n \in Nat PROVE Covered(r, n)'
  <2>1. Cover
    BY <1>3 DEF CoverInv
  <2>2. CASE UNCHANGED vars
    BY <1>1, <2>1, <2>2, OthersCovered DEF vars, bucket, sampler, Facts!Still
  <2>3. CASE TickStep
    BY <1>1, <2>1, <2>3, OthersCovered DEF TickStep, sampler, Facts!Still
  <2>4. ASSUME NEW t \in Thread, OwnStep(t), Check(t) \/ Running(t) PROVE Covered(r, n)'
    <3>1. Facts!ClockStep
      BY <1>1, <1>3, StepKinds DEF Facts!ClockStep, Quiet
    <3>2. SampledStep(t)
      BY <1>1, <1>3, <2>1, <2>4, <3>1 DEF SampledStep
    <3> QED BY <3>2, StepCovered
  <2> QED BY <1>1, <2>2, <2>3, <2>4, StepOwners
<1> QED BY <1>1, <1>2, <1>3 DEF CoverInv, Cover

LEMMA CoverInvariant ==
    ASSUME Facts!ExactRate, Callers
    PROVE  Spec => []CoverInv
  BY InitCoverInv, NextCoverInv, PTL DEF Spec

\* No more threads owe than there are: so what is covered is never overdrawn by a
\* lump for each thread.
LEMMA CoverBoundsOverdraft == Callers /\ CoverInv => OverdraftBounded
<1> SUFFICES ASSUME Callers, CoverInv, NEW r \in Ref
             PROVE  NANOS_PER_SEC * tokens[r]
                      + Threads!rate_scaled * Cardinality(Threads!Outstanding(r))
                    > -(NANOS_PER_SEC * Cardinality(Thread) * Lump)
  BY DEF OverdraftBounded
<1> DEFINE N == NANOS_PER_SEC
           C == Cardinality(Thread)
           owed == Facts!rate_scaled * Cardinality(Facts!Outstanding(r))
<1>1. ClaimInv /\ TypeInv
  BY DEF CoverInv, ExactInv, ClaimInv
<1>2. N \in Nat \ {0} /\ C \in Nat \ {0} /\ Lump \in Nat \ {0}
  BY <1>1, Constants, CrowdTyped, LumpIsLargest
<1>3. N * C * Lump \in Nat /\ N * C * Lump > 0 /\ N * (C * Lump) = N * C * Lump
  <2>1. C * Lump \in Nat /\ C * Lump > 0
    BY <1>2
  <2> DEFINE m == C * Lump
  <2>2. N * C * Lump = N * m
    BY <1>2
  <2> HIDE DEF m
  <2>3. N * m \in Nat /\ N * m > 0
    <3>1. m \in Nat /\ m > 0
      BY <2>1 DEF m
    <3> QED BY <1>2, <3>1
  <2> QED BY <2>2, <2>3 DEF m
<1>4. tokens[r] \in Int /\ owed \in Nat
  BY <1>1, LevelTyped
<1>5. Threads!rate_scaled * Cardinality(Threads!Outstanding(r)) = owed
  BY SameConstants, SameLedger
<1>6. CASE sample_rate = 1
  <2>1. tokens[r] >= 0
    BY <1>6 DEF CoverInv, ExactInv, Unborrowed
  <2>2. N * tokens[r] \in Nat
    BY <1>2, <1>4, <2>1
  <2> HIDE DEF N, C, owed
  <2> QED BY <1>3, <1>4, <1>5, <2>2 DEF N, C
<1>7. CASE sample_rate > 1
  <2>1. Covered(r, 0)
    BY <1>7 DEF CoverInv, Cover
  <2>2. Yield(r, 0) = 0
    <3>1. Facts!saturating_sub(0, last_refill[r]) = 0
      BY <1>1 DEF TypeInv, Facts!saturating_sub
    <3> QED BY <3>1, Constants, FactsApply, Facts!NothingIsWorthNothing DEF Yield
  <2>3. Level(r, 0) = N * tokens[r] + owed
    BY <1>4, <2>2 DEF Level
  <2> DEFINE k == Cardinality(Owing(r, 0))
  <2>4. k \in Nat
    BY CrowdSizes DEF Owing
  <2>5. N * (1 + (0 - C) * Lump) <= N * (1 + (k - C) * Lump)
    BY <1>2, <2>4, ReserveFalls
  <2>6. N * (1 + (0 - C) * Lump) = N - N * C * Lump
    <3>1. (0 - C) * Lump = -(C * Lump) /\ C * Lump \in Nat
      BY <1>2
    <3> DEFINE m == C * Lump
    <3>2. N * (1 + -m) = N - N * m
      <4>1. m \in Nat
        BY <3>1
      <4> HIDE DEF m
      <4> QED BY <1>2, <4>1
    <3> QED BY <1>3, <3>1, <3>2
  <2>7. Level(r, 0) >= N * (1 + (k - C) * Lump)
    BY <2>1 DEF Covered, Reserve
  <2>8. N * (1 + (k - C) * Lump) \in Int /\ N * tokens[r] \in Int
    <3>1. \A x, y \in Int : x * y \in Int /\ x + y \in Int /\ x - y \in Int
      OBVIOUS
    <3> QED BY <1>2, <1>4, <2>4, <3>1
  <2> HIDE DEF N, C, owed, k
  <2>9. N * tokens[r] + owed >= N - N * C * Lump
    BY <1>2, <1>3, <1>4, <2>3, <2>5, <2>6, <2>7, <2>8
  <2>10. N * tokens[r] + owed > -(N * C * Lump)
    BY <1>2, <1>3, <1>4, <2>8, <2>9
  <2> QED BY <1>5, <2>10 DEF N, C
<1>8. sample_rate = 1 \/ sample_rate > 1
  BY <1>1, ProbabilisticAssumption DEF TypeInv
<1> QED BY <1>6, <1>7, <1>8

\* However many requests are charged for a level that others have used up by then,
\* and whatever the coins say: at an exact rate the overdraft of a bucket, once what
\* is claimed and not yet credited is counted in, stays below a lump for each thread.
THEOREM OverdraftIsBounded ==
    ASSUME Threads!ExactRate, Callers
    PROVE  Spec => []OverdraftBounded
<1>1. Facts!ExactRate
  BY SameLedger
<1> QED BY <1>1, CoverInvariant, CoverBoundsOverdraft, PTL

-----------------------------------------------------------------------------
(***************************************************************************)
(* The debt.  What bounds the overdraft also keeps an i64 from cutting it: *)
(* a charge takes all it says.                                             *)
(***************************************************************************)

\* A debt of a lump for each thread and one more, and what accrues while the clock
\* runs, fit in an i64.
DebtFits ==
    \A s \in SampleRate, c \in Cost :
        NANOS_PER_SEC * ((Cardinality(Thread) + 1) * (SCALE * s * c))
          + Threads!rate_scaled * MaxTime
        <= NANOS_PER_SEC * I64_MAX

\* No more is claimed than the time there has been.
LEMMA OutstandingBounded ==
    ASSUME ClaimInv, NEW r \in Ref
    PROVE  Cardinality(Facts!Outstanding(r)) <= MaxTime
<1>1. /\ created[r] \in Nat /\ last_refill[r] \in Nat /\ created[r] <= last_refill[r]
      /\ last_refill[r] <= MaxTime /\ MaxTime \in Nat
  BY ProbabilisticAssumption DEF ClaimInv, TypeInv, Facts!Timeline
<1>2. Facts!Outstanding(r) \subseteq created[r] + 1 .. last_refill[r]
  BY ClaimFacts, FactsApply, Facts!OutstandingFinite
<1>3. /\ IsFiniteSet(created[r] + 1 .. last_refill[r])
      /\ Cardinality(created[r] + 1 .. last_refill[r]) <= MaxTime
  <2>1. created[r] + 1 \in Int /\ last_refill[r] \in Int
    BY <1>1
  <2>2. /\ IsFiniteSet(created[r] + 1 .. last_refill[r])
        /\ Cardinality(created[r] + 1 .. last_refill[r]) =
              IF created[r] + 1 > last_refill[r] THEN 0 ELSE last_refill[r] - (created[r] + 1) + 1
    BY <2>1, FS_Interval
  <2> QED BY <1>1, <2>2
<1>4. Cardinality(Facts!Outstanding(r)) <= Cardinality(created[r] + 1 .. last_refill[r])
      /\ Cardinality(Facts!Outstanding(r)) \in Nat
      /\ Cardinality(created[r] + 1 .. last_refill[r]) \in Nat
  BY <1>2, <1>3, FS_Subset, FS_CardinalityType
<1> QED BY <1>1, <1>3, <1>4

\* A charge is not cut.
LEMMA ChargeIsExact ==
    ASSUME Callers, DebtFits, CoverInv, NEW t \in Thread, state[t] \in Ref
    PROVE  MaxOf(tokens[state[t]] - debit(t), -I64_MAX - 1) = tokens[state[t]] - debit(t)
<1> DEFINE N == NANOS_PER_SEC
           C == Cardinality(Thread)
           R == Facts!rate_scaled
           r == state[t]
           out == Cardinality(Facts!Outstanding(r))
<1>1. ClaimInv /\ TypeInv /\ OverdraftBounded
  BY CoverBoundsOverdraft DEF CoverInv, ExactInv, ClaimInv
<1>2. /\ N \in Nat \ {0} /\ C \in Nat /\ Lump \in Nat /\ R \in Nat /\ I64_MAX \in Nat
      /\ debit(t) \in Nat /\ debit(t) <= Lump
      /\ MaxTime \in Nat
  BY <1>1, Constants, CrowdTyped, LumpIsLargest, ProbabilisticAssumption
<1>3. tokens[r] \in Int /\ out \in Nat /\ R * out \in Nat
  BY <1>1, LevelTyped
<1>4. N * tokens[r] + R * out > -(N * C * Lump)
  BY <1>1, SameConstants, SameLedger DEF OverdraftBounded
<1>5. R * out <= R * MaxTime /\ R * MaxTime \in Int
  <2>1. out <= MaxTime
    BY <1>1, OutstandingBounded
  <2> QED BY <1>2, <1>3, <2>1, Scaled
<1>6. N * ((C + 1) * Lump) + R * MaxTime <= N * I64_MAX
  <2> DEFINE top == CHOOSE c \in Cost : \A d \in Cost : d <= c
  <2>1. top \in Cost
    <3>1. \E c \in Cost : \A d \in Cost : d <= c
      BY DEF Callers
    <3> QED BY <3>1
  <2>2. sample_rate \in SampleRate
    BY <1>1 DEF TypeInv
  <2>3. Lump = SCALE * sample_rate * top
    BY DEF Lump
  <2> HIDE DEF top
  <2> QED BY <2>1, <2>2, <2>3, SameConstants DEF DebtFits
<1>7. N * ((C + 1) * Lump) = N * C * Lump + N * Lump
      /\ N * C * Lump \in Int /\ N * Lump \in Int
  <2> DEFINE m == C * Lump
  <2>1. m \in Nat /\ (C + 1) * Lump = m + Lump /\ N * C * Lump = N * m
    BY <1>2
  <2> HIDE DEF m
  <2>2. N * (m + Lump) = N * m + N * Lump /\ N * m \in Int /\ N * Lump \in Int
    BY <1>2, <2>1, Scaled
  <2> QED BY <2>1, <2>2
<1>8. tokens[r] - debit(t) >= -I64_MAX
  <2>1. N * (tokens[r] + I64_MAX) = N * tokens[r] + N * I64_MAX
        /\ N * tokens[r] \in Int /\ N * I64_MAX \in Int
    BY <1>2, <1>3, Scaled
  <2>2. N * (tokens[r] + I64_MAX) > N * Lump
    <3> HIDE DEF N, C, R, r, out
    <3> QED BY <1>2, <1>3, <1>4, <1>5, <1>6, <1>7, <2>1
  <2>3. ~(tokens[r] + I64_MAX <= Lump)
    <3>1. ASSUME tokens[r] + I64_MAX <= Lump PROVE FALSE
      <4>1. N * (tokens[r] + I64_MAX) <= N * Lump
        BY <1>2, <1>3, <3>1, Scaled
      <4> HIDE DEF N, r
      <4> QED BY <1>7, <2>1, <2>2, <4>1, <1>2
    <3> QED BY <3>1
  <2> QED BY <1>2, <1>3, <2>3
<1> QED BY <1>2, <1>3, <1>8 DEF MaxOf

\* What is left, below zero or not, what has been charged, and what is claimed:
\* every step keeps them balanced.
DebtInv == CoverInv /\ Facts!Ledger

LEMMA NextDebtInv ==
    ASSUME Facts!ExactRate, Callers, DebtFits
    PROVE  DebtInv /\ [Next]_vars => DebtInv'
<1> SUFFICES ASSUME DebtInv, [Next]_vars PROVE DebtInv'
  OBVIOUS
<1>1. CoverInv /\ CoverInv' /\ Facts!Ledger /\ ClaimInv /\ ClaimInv' /\ TypeInv
  BY NextCoverInv DEF DebtInv, CoverInv, ExactInv, ClaimInv
<1>2. CASE sample_rate' = 1
  BY <1>1, <1>2 DEF DebtInv, CoverInv, ExactInv
<1>3. CASE Quiet \/ \E t \in Thread : Facts!Moves(t)
  BY <1>1, <1>3, OthersKeepLedger DEF DebtInv
<1>4. ASSUME NEW t \in Thread, Charge(t), Facts!Still PROVE Facts!Ledger'
  <2>1. state[t] \in Ref
    BY <1>1, <1>4 DEF Charge, TypeInv, Unheld
  <2>2. debit(t) \in Nat
    BY <1>1, TypesFollow, DebitTyped
  <2>3. MaxOf(tokens[state[t]] - debit(t), -I64_MAX - 1) = tokens[state[t]] - debit(t)
    BY <1>1, <2>1, ChargeIsExact
  <2>4. /\ tokens' = [tokens EXCEPT ![state[t]] = @ - debit(t)]
        /\ debited' = [debited EXCEPT ![state[t]] = @ + debit(t)]
    BY <1>1, <1>4, <2>1, <2>3 DEF Charge, TypeInv
  <2> QED BY <1>1, <1>4, <2>1, <2>2, <2>4, DebitKeepsLedger
<1>5. UNCHANGED sample_rate
  BY <1>1, StepOwners DEF vars, sampler, TickStep, OwnStep
<1> QED BY <1>1, <1>2, <1>3, <1>4, <1>5, StepKinds DEF DebtInv

LEMMA DebtInvariant ==
    ASSUME Facts!ExactRate, Callers, DebtFits
    PROVE  Spec => []DebtInv
<1>1. Init => DebtInv
  BY InitCoverInv, InitLedger DEF DebtInv
<1>2. DebtInv /\ [Next]_vars => DebtInv'
  BY NextDebtInv
<1> QED BY <1>1, <1>2, PTL DEF Spec

\* "The debt always carries": at an exact rate, where a debt fits in an i64, what is
\* charged is never forgiven, however deep it goes; what the bucket has been charged
\* can be read off what it holds.
THEOREM DebtIsCarried ==
    ASSUME Threads!ExactRate, Callers, DebtFits
    PROVE  Spec => []DebtCarries
<1>1. Facts!ExactRate
  BY SameLedger
<1>2. DebtInv => DebtCarries
  BY SameLedger DEF DebtInv, DebtCarries
<1> QED BY <1>1, <1>2, DebtInvariant, PTL

-----------------------------------------------------------------------------
(***************************************************************************)
(* What threads observe                                                    *)
(***************************************************************************)

Read == {"estimate_refill", "observe_refill"}

\* What a thread has read of the tokens, with what had been charged by then, is no
\* more than the bucket had been given up to its timestamp; with what it counts of the
\* refill, no more than up to now.
Estimated(t) ==
    /\ pc[t] \in Read =>
          NANOS_PER_SEC * (loaded[t] + seen[t])
          <= NANOS_PER_SEC * capacity_scaled
               + Facts!rate_scaled * (last_refill[state[t]] - created[state[t]])
    /\ pc[t] \in Observed =>
          NANOS_PER_SEC * (observed[t] + seen[t])
          <= NANOS_PER_SEC * capacity_scaled
               + Facts!rate_scaled * (clock - created[state[t]])

EstimateInv == DebtInv /\ (sample_rate > 1 => \A t \in Thread : Estimated(t))

\* A bucket that a thread holds keeps its date, and its timestamp moves forward.
LEMMA HeldStays ==
    ASSUME ClaimInv, ClaimInv', Facts!ClockStep, NEW t \in Thread, NEW r \in Ref, r = state[t]
    PROVE  created'[r] = created[r] /\ last_refill[r] <= last_refill'[r]
<1>1. r \notin Facts!Free
  BY DEF Facts!Free
<1>2. last_refill[r] <= last_refill'[r]
  <2>1. Facts!Forward
    BY ClaimFacts, FactsApply, Facts!NextForward
  <2>2. last_refill[r] \in Nat /\ last_refill'[r] \in Nat
    BY DEF ClaimInv, TypeInv
  <2> QED BY <1>1, <2>1, <2>2 DEF Facts!Forward
<1>3. created'[r] = created[r]
  <2>1. CASE Facts!Still
    BY <2>1 DEF Facts!Still
  <2>2. ASSUME NEW u \in Thread, Facts!Claim(u) \/ Facts!Credit(u) PROVE created' = created
    BY <2>2 DEF Facts!Claim, Facts!Credit, Facts!history
  <2>3. ASSUME NEW u \in Thread, Facts!Insert(u) PROVE created'[r] = created[r]
    BY <1>1, <2>3 DEF Facts!Insert, ClaimInv, TypeInv
  <2> QED BY <2>1, <2>2, <2>3 DEF Facts!ClockStep, Facts!Moves
<1> QED BY <1>2, <1>3

\* A bound by what has accrued stays one as time goes by.
LEMMA LaterBound ==
    ASSUME NEW lhs \in Int, NEW cap \in Int, NEW rate_ \in Nat, NEW from \in Int,
           NEW to \in Int, NEW later \in Int, to <= later, lhs <= cap + rate_ * (to - from)
    PROVE  lhs <= cap + rate_ * (later - from)
<1>1. rate_ * (to - from) <= rate_ * (later - from)
      /\ rate_ * (to - from) \in Int /\ rate_ * (later - from) \in Int
  BY Scaled
<1> QED BY <1>1

\* A thread that does not move keeps its estimate.
LEMMA EstimateStays ==
    ASSUME ClaimInv, ClaimInv', Facts!ClockStep, clock <= clock', NEW t \in Thread, Estimated(t),
           UNCHANGED <<state[t], seen[t]>>,
           pc'[t] \in Read => pc[t] \in Read /\ loaded'[t] = loaded[t],
           pc'[t] \in Observed => pc[t] \in Observed /\ observed'[t] = observed[t]
    PROVE  Estimated(t)'
<1> DEFINE N == NANOS_PER_SEC
           R == Facts!rate_scaled
<1>1. TypeInv /\ TypeInv'
  BY DEF ClaimInv
<1>2. /\ N \in Nat /\ R \in Nat /\ capacity_scaled \in Nat /\ N * capacity_scaled \in Int
      /\ clock \in Int /\ clock' \in Int
  <2>1. clock \in Int /\ clock' \in Int
    BY <1>1, ProbabilisticAssumption DEF TypeInv
  <2> QED BY <2>1, Constants, SameConstants
<1>3. capacity_scaled' = capacity_scaled
  BY DEF capacity_scaled
<1>4. CASE pc'[t] \in Read
  <2>1. state[t] \in Ref
    BY <1>1, <1>4 DEF TypeInv, Read, Unheld
  <2>2. PICK r \in Ref : r = state[t]
    BY <2>1
  <2>3. created'[r] = created[r] /\ last_refill[r] <= last_refill'[r]
    BY <2>2, HeldStays
  <2>4. /\ created[r] \in Int /\ last_refill[r] \in Int /\ last_refill'[r] \in Int
        /\ N * (loaded[t] + seen[t]) \in Int
    <3>1. loaded[t] \in Int /\ seen[t] \in Int
      BY <1>1 DEF TypeInv
    <3> QED BY <1>1, <1>2, <3>1, Scaled DEF TypeInv
  <2>5. N * (loaded[t] + seen[t]) <= N * capacity_scaled + R * (last_refill[r] - created[r])
    BY <1>4, <2>2 DEF Estimated
  <2>6. N * (loaded[t] + seen[t]) <= N * capacity_scaled + R * (last_refill'[r] - created[r])
    <3> HIDE DEF N, R
    <3> QED BY <1>2, <2>3, <2>4, <2>5, LaterBound
  <2>7. pc'[t] \notin Observed
    BY <1>4 DEF Read, Observed
  <2> QED BY <1>3, <1>4, <2>2, <2>3, <2>6, <2>7 DEF Estimated
<1>5. CASE pc'[t] \in Observed
  <2>1. state[t] \in Ref
    BY <1>1, <1>5 DEF TypeInv, Observed, Unheld
  <2>2. PICK r \in Ref : r = state[t]
    BY <2>1
  <2>3. created'[r] = created[r]
    BY <2>2, HeldStays
  <2>4. created[r] \in Int /\ N * (observed[t] + seen[t]) \in Int
    <3>1. observed[t] \in Int /\ seen[t] \in Int
      BY <1>1 DEF TypeInv
    <3> QED BY <1>1, <1>2, <3>1, Scaled DEF TypeInv
  <2>5. N * (observed[t] + seen[t]) <= N * capacity_scaled + R * (clock - created[r])
    BY <1>5, <2>2 DEF Estimated
  <2>6. N * (observed[t] + seen[t]) <= N * capacity_scaled + R * (clock' - created[r])
    <3> HIDE DEF N, R
    <3> QED BY <1>2, <2>4, <2>5, LaterBound
  <2>7. pc'[t] \notin Read
    BY <1>5 DEF Read, Observed
  <2> QED BY <1>3, <1>5, <2>2, <2>3, <2>6, <2>7 DEF Estimated
<1> QED BY <1>4, <1>5 DEF Estimated

\* A thread comes to its estimate by loading the tokens, then what has accrued.
LEMMA OwnEstimate ==
    ASSUME TypeInv, sample_rate > 1, NEW t \in Thread, Check(t) \/ Running(t)
    PROVE  /\ pc'[t] \in Read => LoadLevel(t)
           /\ pc'[t] \in Observed =>
                 \/ LoadAccrual(t)
                 \/ pc[t] \in Observed /\ UNCHANGED <<state[t], observed[t], seen[t]>>
<1> USE DEF TypeInv, Read, Observed, Goto, Threads!Goto, Threads!shared, Threads!history, sampler
<1>1. CASE Check(t) \/ ReadNow(t)
  BY <1>1 DEF Check, ReadNow
<1>2. CASE Lookup(t) \/ Insert(t) \/ AlreadyInserted(t)
  BY <1>2 DEF Lookup, Threads!Lookup, Insert, Threads!Insert, AlreadyInserted, Threads!AlreadyInserted
<1>3. CASE Unsampled(t) \/ should_sample(t)
  BY <1>3 DEF Unsampled, should_sample
<1>4. CASE PeekAdmits(t) \/ PeekFails(t) \/ Admit(t) \/ Charge(t)
  BY <1>4 DEF PeekAdmits, PeekFails, Admit, Charge, Decide, Threads!Return
<1>5. CASE ReadLevel(t)
  <2>1. ASSUME LoadLevel(t) PROVE pc'[t] \notin Observed
    <3>1. pc'[t] = AfterTokens[pc[t]] /\ pc[t] \in {"estimate", "observe"}
      BY <2>1 DEF LoadLevel, AfterTokens
    <3> QED BY <3>1 DEF AfterTokens
  <2>2. ASSUME LoadAccrual(t) PROVE pc'[t] \notin Read
    BY <2>2 DEF LoadAccrual, Observe
  <2> QED BY <1>5, <2>1, <2>2 DEF ReadLevel
<1>6. CASE apply_refill(t)
  BY <1>6 DEF apply_refill, Threads!Claiming, Threads!NothingAccrued, Threads!LoadRefill,
              Threads!ClaimFails, Threads!Claim, Threads!Credit
<1>7. ~consume_exact(t)
  BY DEF consume_exact
<1> QED BY <1>1, <1>2, <1>3, <1>4, <1>5, <1>6, <1>7 DEF Running

\* The tokens, with what had been charged: the ledger.
LEMMA LoadEstimate ==
    ASSUME DebtInv, ClaimInv', NEW t \in Thread, LoadLevel(t)
    PROVE  Estimated(t)'
<1> DEFINE N == NANOS_PER_SEC
           R == Facts!rate_scaled
<1>1. ClaimInv /\ TypeInv /\ Facts!Ledger
  BY DEF DebtInv, CoverInv, ExactInv, ClaimInv
<1>2. /\ pc'[t] \in Read /\ pc[t] \in {"estimate", "observe"}
      /\ loaded'[t] = tokens[state[t]] /\ seen'[t] = debited[state[t]]
      /\ UNCHANGED <<state, last_refill, created>>
  BY <1>1 DEF LoadLevel, AfterTokens, Goto, Threads!Goto, Read, TypeInv
<1>3. PICK r \in Ref : r = state[t]
  BY <1>1, <1>2 DEF TypeInv, Unheld
<1>4. /\ N * (tokens[r] + debited[r]) + R * Cardinality(Facts!Outstanding(r))
           <= N * capacity_scaled + R * (last_refill[r] - created[r])
      /\ R * Cardinality(Facts!Outstanding(r)) \in Nat
  BY <1>1, LevelTyped, SameConstants, SameSizes DEF Facts!Ledger
<1>5. /\ N * (tokens[r] + debited[r]) \in Int /\ N * capacity_scaled \in Int
      /\ R * (last_refill[r] - created[r]) \in Int
  <2>1. tokens[r] \in Int /\ debited[r] \in Int /\ last_refill[r] - created[r] \in Int
        /\ capacity_scaled \in Int
    BY <1>1, Constants, SameConstants DEF TypeInv
  <2> QED BY <2>1, Constants, Scaled
<1>6. N * (tokens[r] + debited[r]) <= N * capacity_scaled + R * (last_refill[r] - created[r])
  <2> HIDE DEF N, R
  <2> QED BY <1>4, <1>5
<1>7. pc'[t] \notin Observed /\ capacity_scaled' = capacity_scaled
  BY <1>2 DEF Read, Observed, capacity_scaled
<1> QED BY <1>2, <1>3, <1>6, <1>7 DEF Estimated

\* What a thread counts of the refill is no more than has accrued since the timestamp.
LEMMA AccrualEstimate ==
    ASSUME ClaimInv, ClaimInv', NEW t \in Thread, Estimated(t), LoadAccrual(t)
    PROVE  Estimated(t)'
<1> DEFINE N == NANOS_PER_SEC
           R == Facts!rate_scaled
           a == accrued(t)
<1>1. TypeInv
  BY DEF ClaimInv
<1>2. /\ pc[t] \in Read /\ pc'[t] \in Observed
      /\ UNCHANGED <<clock, state, created, seen>>
      /\ \E plus \in random_fraction_of(a) \cup {a} :
            observed'[t] = MinOf(loaded[t] + plus, capacity_scaled)
  BY <1>1 DEF LoadAccrual, Observe, Read, Observed, Goto, Threads!Goto, TypeInv
<1>3. PICK r \in Ref : r = state[t]
  BY <1>1, <1>2 DEF TypeInv, Unheld, Read
<1>4. PICK x \in Int : x = call[t].now
  BY <1>1 DEF TypeInv, Unread
<1>5. /\ x <= clock /\ clock \in Int /\ last_refill[r] \in Int /\ created[r] \in Int
      /\ last_refill[r] <= clock /\ capacity_scaled \in Nat /\ N \in Nat /\ R \in Nat
      /\ loaded[t] \in Int /\ seen[t] \in Int
  <2>1. x <= clock /\ last_refill[r] <= clock
    BY <1>4 DEF ClaimInv, Facts!Timeline
  <2>2. clock \in Int /\ last_refill[r] \in Int /\ created[r] \in Int /\ loaded[t] \in Int
        /\ seen[t] \in Int
    BY <1>1, ProbabilisticAssumption DEF TypeInv
  <2> QED BY <2>1, <2>2, Constants, SameConstants
<1>6. a \in Nat /\ N * a <= R * (clock - last_refill[r])
  <2> DEFINE e == Facts!saturating_sub(x, last_refill[r])
  <2>1. e \in Nat /\ e <= clock - last_refill[r]
    BY <1>5 DEF Facts!saturating_sub
  <2>2. a = Facts!refill_tokens(e, R)
    BY <1>3, <1>4, SameAccrued DEF accrued, Facts!accrued_since
  <2> HIDE DEF e
  <2>3. Facts!refill_tokens(e, R) \in Nat /\ N * Facts!refill_tokens(e, R) <= R * e
    <3> DEFINE q == (e * R) \div N
    <3>1. e * R \in Nat /\ N \in Nat \ {0}
      BY <1>5, <2>1, Constants
    <3>2. q \in Nat /\ q * N <= e * R
      BY <3>1, DivisionBounds
    <3>3. Facts!refill_tokens(e, R) = Facts!MinOf(q, I64_MAX)
      BY DEF Facts!refill_tokens
    <3> HIDE DEF q
    <3>4. Facts!refill_tokens(e, R) \in Nat /\ Facts!refill_tokens(e, R) <= q
      BY <3>2, <3>3, Constants DEF Facts!MinOf
    <3> DEFINE y == Facts!refill_tokens(e, R)
    <3>5. N * y <= N * q /\ N * y \in Int /\ N * q \in Int
      BY <1>5, <3>2, <3>4, Scaled
    <3>6. N * q = q * N /\ R * e = e * R
      BY <1>5, <2>1, <3>2
    <3> QED BY <3>1, <3>2, <3>4, <3>5, <3>6
  <2>4. R * e <= R * (clock - last_refill[r]) /\ R * e \in Int /\ R * (clock - last_refill[r]) \in Int
    <3>1. clock - last_refill[r] \in Int /\ e \in Int
      BY <1>5, <2>1
    <3> QED BY <1>5, <2>1, <3>1, Scaled
  <2>5. N * a \in Int
    BY <1>5, <2>2, <2>3
  <2> HIDE DEF N, R, a
  <2> QED BY <2>2, <2>3, <2>4, <2>5
<1> HIDE DEF a
<1>7. observed'[t] \in Int /\ observed'[t] <= loaded[t] + a
  BY <1>2, <1>5, <1>6 DEF MinOf, random_fraction_of
<1>8. /\ N * (observed'[t] + seen[t]) <= N * ((loaded[t] + seen[t]) + a)
      /\ N * ((loaded[t] + seen[t]) + a) = N * (loaded[t] + seen[t]) + N * a
      /\ N * (observed'[t] + seen[t]) \in Int /\ N * (loaded[t] + seen[t]) \in Int /\ N * a \in Int
      /\ N * capacity_scaled \in Int
  <2>1. observed'[t] + seen[t] \in Int /\ loaded[t] + seen[t] \in Int /\ (loaded[t] + seen[t]) + a \in Int
        /\ observed'[t] + seen[t] <= (loaded[t] + seen[t]) + a
    BY <1>5, <1>6, <1>7
  <2> QED BY <1>5, <1>6, <2>1, Scaled
<1>9. N * (loaded[t] + seen[t]) <= N * capacity_scaled + R * (last_refill[r] - created[r])
  BY <1>2, <1>3 DEF Estimated
<1>10. /\ R * ((last_refill[r] - created[r]) + (clock - last_refill[r]))
            = R * (last_refill[r] - created[r]) + R * (clock - last_refill[r])
       /\ R * (last_refill[r] - created[r]) \in Int /\ R * (clock - last_refill[r]) \in Int
       /\ (last_refill[r] - created[r]) + (clock - last_refill[r]) = clock - created[r]
  <2>1. last_refill[r] - created[r] \in Int /\ clock - last_refill[r] \in Int
    BY <1>5
  <2> QED BY <1>5, <2>1, Scaled
<1>11. N * (observed'[t] + seen[t]) <= N * capacity_scaled + R * (clock - created[r])
  <2> HIDE DEF N, R
  <2> QED BY <1>6, <1>8, <1>9, <1>10
<1>12. pc'[t] \notin Read /\ capacity_scaled' = capacity_scaled
  BY <1>2 DEF Read, Observed, capacity_scaled
<1> QED BY <1>2, <1>3, <1>11, <1>12 DEF Estimated

LEMMA NextEstimateInv ==
    ASSUME Facts!ExactRate, Callers, DebtFits
    PROVE  EstimateInv /\ [Next]_vars => EstimateInv'
<1> SUFFICES ASSUME EstimateInv, [Next]_vars PROVE EstimateInv'
  OBVIOUS
<1>1. DebtInv /\ DebtInv' /\ ClaimInv /\ ClaimInv' /\ TypeInv
  BY NextDebtInv DEF EstimateInv, DebtInv, CoverInv, ExactInv, ClaimInv
<1>2. UNCHANGED sample_rate /\ clock <= clock'
  <2>1. clock \in Int
    BY <1>1, ProbabilisticAssumption DEF TypeInv
  <2> QED BY <1>1, <2>1, StepOwners DEF vars, bucket, sampler, TickStep, OwnStep
<1>3. ASSUME sample_rate > 1, NEW t \in Thread PROVE Estimated(t)'
  <2>1. Estimated(t)
    BY <1>3 DEF EstimateInv
  <2>2. Facts!ClockStep
    BY <1>1, <1>3, StepKinds DEF Facts!ClockStep, Quiet
  <2>3. CASE UNCHANGED <<pc[t], state[t], loaded[t], observed[t], seen[t]>>
    BY <1>1, <1>2, <2>1, <2>2, <2>3, EstimateStays
  <2>4. CASE OwnStep(t) /\ (Check(t) \/ Running(t))
    <3>1. /\ pc'[t] \in Read => LoadLevel(t)
          /\ pc'[t] \in Observed =>
                \/ LoadAccrual(t)
                \/ pc[t] \in Observed /\ UNCHANGED <<state[t], observed[t], seen[t]>>
      BY <1>1, <1>3, <2>4, OwnEstimate
    <3>2. CASE LoadLevel(t)
      BY <1>1, <3>2, LoadEstimate
    <3>3. CASE LoadAccrual(t)
      BY <1>1, <2>1, <3>3, AccrualEstimate
    <3>4. CASE pc'[t] \notin Read /\ pc[t] \in Observed
               /\ UNCHANGED <<state[t], observed[t], seen[t]>>
      BY <1>1, <1>2, <2>1, <2>2, <3>4, EstimateStays
    <3>5. CASE pc'[t] \notin Read /\ pc'[t] \notin Observed
      BY <3>5 DEF Estimated
    <3> QED BY <3>1, <3>2, <3>3, <3>4, <3>5
  <2>5. ASSUME NEW u \in Thread, OwnStep(u), u # t
        PROVE  UNCHANGED <<pc[t], state[t], loaded[t], observed[t], seen[t]>>
    BY <2>5 DEF OwnStep
  <2>6. CASE UNCHANGED vars \/ TickStep
    BY <2>3, <2>6 DEF vars, bucket, sampler, TickStep
  <2> QED BY <1>1, <2>3, <2>4, <2>5, <2>6, StepOwners
<1> QED BY <1>1, <1>2, <1>3 DEF EstimateInv

\* "A reader that observes a credit also observes the matching claim and cannot
\* double-count the accrual" (estimate): at an exact rate, where a debt fits in an i64,
\* no thread decides on a level that the bucket has not been given, whatever is claimed,
\* credited and charged between its two loads.
THEOREM LevelsAreNotOverEstimated ==
    ASSUME Threads!ExactRate, Callers, DebtFits
    PROVE  Spec => []NeverOverEstimated
<1>1. Facts!ExactRate
  BY SameLedger
<1>2. Init => EstimateInv
  <2>1. Init => \A t \in Thread : Estimated(t)
    BY DEF Init, Threads!Init, Estimated, Read, Observed
  <2> QED BY <2>1, InitCoverInv, InitLedger DEF EstimateInv, DebtInv
<1>3. EstimateInv /\ [Next]_vars => EstimateInv'
  BY <1>1, NextEstimateInv
<1>4. EstimateInv => NeverOverEstimated
  <2> SUFFICES ASSUME EstimateInv, NEW t \in Thread, pc[t] \in Observed
               PROVE  NANOS_PER_SEC * (observed[t] + seen[t])
                      <= NANOS_PER_SEC * capacity_scaled
                           + Threads!rate_scaled * (clock - created[state[t]])
    BY DEF NeverOverEstimated
  <2>1. ClaimInv /\ TypeInv
    BY DEF EstimateInv, DebtInv, CoverInv, ExactInv, ClaimInv
  <2>2. CASE sample_rate > 1
    BY <2>2, SameConstants DEF EstimateInv, Estimated
  <2>3. CASE sample_rate = 1
    <3>1. observed[t] = 0 /\ seen[t] = 0
      BY <2>1, <2>3 DEF TypeInv, SamplingInv
    <3>2. state[t] \in Ref
      BY <2>1 DEF TypeInv, Observed, Unheld
    <3>3. clock - created[state[t]] \in Nat
      BY <2>1, <3>2, ProbabilisticAssumption DEF ClaimInv, TypeInv, Facts!Timeline
    <3>4. Threads!rate_scaled * (clock - created[state[t]]) \in Nat
          /\ NANOS_PER_SEC * capacity_scaled \in Nat /\ NANOS_PER_SEC * (0 + 0) = 0
      BY <3>3, Constants, SameConstants
    <3> QED BY <3>1, <3>4
  <2>4. sample_rate = 1 \/ sample_rate > 1
    BY <2>1, ProbabilisticAssumption DEF TypeInv
  <2> QED BY <2>2, <2>3, <2>4
<1> QED BY <1>2, <1>3, <1>4, PTL DEF Spec

-----------------------------------------------------------------------------
(***************************************************************************)
(* A burst: what a bucket lets through before anything has accrued.  While *)
(* it has tokens, each group that it lets through has paid for itself, or  *)
(* one of its requests has yet to pay; when they are gone, the requests    *)
(* that saw some of them may still be let through.                         *)
(***************************************************************************)

\* There are threads, finitely many, and one cost, above zero.
OneCost ==
    /\ IsFiniteSet(Thread) /\ Thread # {}
    /\ \E c \in Nat \ {0} : Cost = {c}

Crowd == Cardinality(Thread)

\* What a request asks for: the lump is for sample_rate of them.
Weight == SCALE * (CHOOSE c \in Cost : \A d \in Cost : d <= c)

\* Where a request holds a level: what it has loaded, then what it has observed.
Decided == {"admit", "load_refill", "load_tokens"}

LevelSeen(t) == IF pc[t] \in Read THEN loaded[t] ELSE observed[t]

Sees(t) == pc[t] \in Read \cup Decided

\* The requests that the sampler has counted and that are not decided; those of them
\* that pay for their group; and those that have seen tokens.
InFlight(r) == {t \in Thread : state[t] = r /\ pc[t] \in SamplerSteps \cup Decided}

Paying(r) ==
    {t \in Thread :
        /\ state[t] = r
        /\ pc[t] \in {"observe", "observe_refill", "load_refill", "load_tokens"}}

Hopeful(r) == {t \in Thread : state[t] = r /\ Sees(t) /\ LevelSeen(t) > 0}

\* The requests that go free before the next one that is sampled.
unsampled_left(q) == IF q % sample_rate = 0 THEN 0 ELSE sample_rate - (q % sample_rate)

Gap(r) == unsampled_left(request_tick[r])

\* What is let through, or may yet be, is paid for, but for the group that is being
\* counted; and not even that if all threads are about to pay.
Solvent(r) ==
    /\ tokens[r] <= capacity_scaled
    /\ admitted[r] + Weight * Cardinality(InFlight(r)) + Weight * Gap(r)
         <= (capacity_scaled - tokens[r]) + Cardinality(Paying(r)) * Lump
              + Weight * (sample_rate - 1)
    /\ Cardinality(Paying(r)) = Crowd =>
          admitted[r] + Weight * Cardinality(InFlight(r))
            <= (capacity_scaled - tokens[r]) + Crowd * Lump
    /\ \A t \in Thread : state[t] = r /\ Sees(t) => LevelSeen(t) >= tokens[r]

\* No tokens are left: only a request that has seen some may be let through.
Spent(r) ==
    admitted[r] + Weight * Cardinality(Hopeful(r)) < capacity_scaled + Crowd * Lump

Afforded(r) == IF tokens[r] > 0 THEN Solvent(r) ELSE Spent(r)

\* Where nothing has accrued nothing is claimed, a call that is not idle has its
\* cost, and what an unsampled call has loaded covers it.
BurstInv ==
    /\ ClaimInv
    /\ \A t \in Thread :
          /\ pc[t] # "idle" => call[t].cost \in Cost
          /\ pc[t] \in {"claim", "credit"} => created[state[t]] < clock
          /\ pc[t] = "debit" => cost_scaled(t) <= loaded[t]
    /\ \A r \in Ref : clock = created[r] =>
          IF sample_rate = 1
          THEN tokens[r] >= 0 /\ tokens[r] + admitted[r] <= capacity_scaled
          ELSE Afforded(r)

\* The numbers in it.
LEMMA OneCostTyped ==
    ASSUME OneCost, TypeInv
    PROVE  /\ Callers
           /\ Weight \in Nat \ {0} /\ Crowd \in Nat \ {0} /\ Lump \in Nat \ {0}
           /\ sample_rate \in Nat \ {0} /\ Lump = Weight * sample_rate
           /\ capacity_scaled \in Nat /\ capacity_scaled < I64_MAX
           /\ Cost \subseteq Nat \ {0}
           /\ \A t \in Thread : call[t].cost \in Cost =>
                 asked(t) = Weight /\ lump(t) = MinOf(Lump, I64_MAX)
<1>1. PICK c \in Nat \ {0} : Cost = {c}
  BY DEF OneCost
<1>2. Callers
  BY <1>1 DEF OneCost, Callers
<1>3. (CHOOSE d \in Cost : \A e \in Cost : e <= d) = c
  <2>1. \E d \in Cost : \A e \in Cost : e <= d
    BY <1>1
  <2>2. (CHOOSE d \in Cost : \A e \in Cost : e <= d) \in Cost
    BY <2>1
  <2> QED BY <1>1, <2>2
<1>4. sample_rate \in Nat \ {0} /\ SCALE \in Nat \ {0} /\ I64_MAX \in Nat \ {0}
  BY ProbabilisticAssumption, MathAssumption DEF TypeInv
<1>5. Weight = SCALE * c /\ Lump = SCALE * sample_rate * c
  BY <1>3 DEF Weight, Lump
<1>6. Weight \in Nat \ {0}
  BY <1>4, <1>5
<1>7. Lump = Weight * sample_rate
  BY <1>4, <1>5
<1>8. Lump \in Nat \ {0} /\ Crowd \in Nat \ {0}
  BY <1>2, CrowdTyped, LumpIsLargest DEF Crowd
<1>9. ASSUME NEW t \in Thread, call[t].cost \in Cost
      PROVE  asked(t) = Weight /\ lump(t) = MinOf(Lump, I64_MAX)
  <2>1. call[t].cost = c
    BY <1>1, <1>9
  <2>2. c * SCALE = Weight
    BY <1>4, <1>5
  <2>3. asked(t) = Weight /\ cost_scaled(t) = MinOf(Weight, I64_MAX)
    BY <2>1, <2>2 DEF asked, cost_scaled, Threads!token_cost, Threads!saturating_mul,
                      Threads!MinOf, MinOf
  <2>4. CASE Weight <= I64_MAX
    BY <1>4, <1>6, <1>7, <2>3, <2>4 DEF lump, MinOf
  <2>5. CASE ~(Weight <= I64_MAX)
    <3>1. I64_MAX <= I64_MAX * sample_rate /\ Weight <= Weight * sample_rate
          /\ I64_MAX * sample_rate \in Nat /\ Weight * sample_rate \in Nat
      <4>1. \A x \in Nat, y \in Nat \ {0} : x <= x * y /\ x * y \in Nat
        OBVIOUS
      <4> QED BY <1>4, <1>6, <4>1
    <3>2. lump(t) = I64_MAX
      BY <1>4, <1>6, <2>3, <2>5, <3>1 DEF lump, MinOf
    <3> QED BY <1>4, <1>6, <1>7, <2>3, <2>5, <3>1, <3>2 DEF MinOf
  <2> QED BY <2>3, <2>4, <2>5
<1> QED BY <1>1, <1>2, <1>4, <1>6, <1>7, <1>8, <1>9, Constants, SameConstants

\* A request that has seen all there is takes a whole lump, or all there is.
LEMMA ChargeDrains ==
    ASSUME TypeInv, NEW t \in Thread, NEW tok \in Int, NEW l \in Nat,
           tok > 0, tok <= capacity_scaled, observed[t] >= tok,
           lump(t) = MinOf(l, I64_MAX), tok - debit(t) > 0
    PROVE  debit(t) = l
<1> DEFINE o == observed[t]
           p == ramp(t)
           d == debit(t)
<1>1. /\ o \in Int /\ lump(t) \in Nat /\ p \in Nat \ {0} /\ d \in Nat
      /\ capacity_scaled \in Nat /\ capacity_scaled < I64_MAX /\ I64_MAX \in Nat
  BY TypesFollow, DebitTyped, Constants, SameConstants DEF TypeInv
<1>2. d = CASE o >= p -> lump(t) [] o <= 0 -> 0 [] OTHER -> (lump(t) * o) \div p
  BY DEF debit
<1>3. p = MaxOf(MinOf(lump(t), capacity_scaled), 1)
  BY DEF ramp
<1> HIDE DEF o, p, d
<1>4. CASE o >= p
  <2>1. d = lump(t)
    BY <1>1, <1>2, <1>4
  <2>2. lump(t) < I64_MAX
    BY <1>1, <2>1 DEF d
  <2> QED BY <1>1, <2>1, <2>2 DEF MinOf, d
<1>5. CASE o < p
  <2>1. o > 0 /\ o \in Nat
    BY <1>1 DEF o
  <2>2. d = (lump(t) * o) \div p
    BY <1>1, <1>2, <1>5, <2>1
  <2>3. p <= lump(t)
    BY <1>1, <1>3, <1>5, <2>1 DEF MinOf, MaxOf
  <2>4. lump(t) * o \in Nat /\ p * o <= lump(t) * o /\ p * o \in Nat
    BY <1>1, <2>1, <2>3, KeepFactor
  <2>5. lump(t) * o < d * p + p
    BY <1>1, <2>2, <2>4, DivisionBounds
  <2>6. d >= o
    <3>1. ASSUME d + 1 <= o PROVE FALSE
      <4>1. (d + 1) * p <= o * p
        BY <1>1, <2>1, <3>1, KeepFactor
      <4>2. (d + 1) * p = d * p + p /\ o * p = p * o /\ d * p \in Nat
        BY <1>1, <2>1
      <4> QED BY <1>1, <2>4, <2>5, <4>1, <4>2
    <3> QED BY <1>1, <2>1, <3>1
  <2> QED BY <1>1, <2>6 DEF o, d
<1> QED BY <1>1, <1>4, <1>5

\* A remainder is the only one.
LEMMA OneRemainder ==
    ASSUME NEW s \in Nat \ {0}, NEW x \in Nat, NEW d \in Nat, NEW e \in 0 .. s - 1,
           x = d * s + e
    PROVE  x % s = e
<1> DEFINE f == x \div s
           m == x % s
<1>1. f \in Nat /\ m \in 0 .. s - 1 /\ x = s * f + m
  OBVIOUS
<1>2. x = f * s + m /\ f * s \in Nat /\ d * s \in Nat
  BY <1>1
<1> HIDE DEF f, m
<1>3. ASSUME f < d PROVE FALSE
  <2>1. (f + 1) * s <= d * s /\ (f + 1) * s = f * s + s
    BY <1>1, <1>3, KeepFactor
  <2> QED BY <1>1, <1>2, <2>1
<1>4. ASSUME d < f PROVE FALSE
  <2>1. (d + 1) * s <= f * s /\ (d + 1) * s = d * s + s
    BY <1>1, <1>4, KeepFactor
  <2> QED BY <1>1, <1>2, <2>1
<1>5. f = d
  BY <1>1, <1>3, <1>4
<1>6. m = e
  BY <1>1, <1>2, <1>5
<1> QED BY <1>6 DEF m

\* The sampler counts down to the next sampled request, and starts again when its
\* counter wraps.
LEMMA GapFalls ==
    ASSUME sample_rate \in Nat \ {0}, NEW q \in u64
    PROVE  /\ unsampled_left(q) \in Nat /\ unsampled_left(q) <= sample_rate - 1
           /\ (q + 1) % (U64_MAX + 1) \in u64
           /\ ~IsSampled(q) =>
                 unsampled_left((q + 1) % (U64_MAX + 1)) + 1 <= unsampled_left(q)
           /\ IsSampled(q) => unsampled_left(q) = 0
<1> DEFINE s == sample_rate
           m == q % s
           next == (q + 1) % (U64_MAX + 1)
<1>1. q \in Nat /\ s \in Nat \ {0} /\ q <= U64_MAX /\ U64_MAX \in Nat
  BY MathAssumption DEF u64
<1>2. m \in 0 .. s - 1 /\ q = s * (q \div s) + m /\ q \div s \in Nat
  BY <1>1
<1>3. next = IF q = U64_MAX THEN 0 ELSE q + 1
  BY <1>1
<1>4. ASSUME m # 0 PROVE unsampled_left(next) + 1 <= s - m
  <2>1. CASE q = U64_MAX
    <3>1. 0 % s = 0
      BY <1>1
    <3>2. unsampled_left(next) = 0
      BY <1>3, <2>1, <3>1 DEF unsampled_left
    <3> HIDE DEF m
    <3> QED BY <1>1, <1>2, <3>2
  <2>2. CASE q # U64_MAX
    <3>1. next = q + 1
      BY <1>3, <2>2
    <3>2. CASE m + 1 < s
      <4>1. (q + 1) % s = m + 1
        <5>1. q + 1 = (q \div s) * s + (m + 1) /\ m + 1 \in 0 .. s - 1 /\ q + 1 \in Nat
          BY <1>1, <1>2, <3>2
        <5> HIDE DEF s, m
        <5> QED BY <1>1, <1>2, <5>1, OneRemainder
      <4> QED BY <1>1, <1>2, <3>1, <4>1 DEF unsampled_left
    <3>3. CASE m + 1 = s
      <4>1. (q + 1) % s = 0
        <5>1. (q \div s + 1) * s = (q \div s) * s + s /\ (q \div s) * s = s * (q \div s)
          BY <1>1, <1>2
        <5>2. q + 1 = (q \div s + 1) * s + 0 /\ 0 \in 0 .. s - 1 /\ q + 1 \in Nat
              /\ q \div s + 1 \in Nat
          BY <1>1, <1>2, <3>3, <5>1
        <5> HIDE DEF s, m
        <5> QED BY <1>1, <5>2, OneRemainder
      <4> QED BY <1>1, <1>2, <3>1, <3>3, <4>1 DEF unsampled_left
    <3> QED BY <1>1, <1>2, <3>2, <3>3
  <2> QED BY <2>1, <2>2
<1>5. next \in u64
  BY <1>1, <1>3 DEF u64
<1> QED BY <1>1, <1>2, <1>4, <1>5 DEF unsampled_left, IsSampled

\* How the sets change when one thread moves.
LEMMA OneMoves ==
    ASSUME OneCost, NEW S \in SUBSET Thread, NEW T \in SUBSET Thread, NEW t \in Thread,
           \A u \in Thread \ {t} : u \in T <=> u \in S
    PROVE  /\ Cardinality(S) \in Nat /\ Cardinality(T) \in Nat /\ Cardinality(S) <= Crowd
           /\ t \notin S => Cardinality(S) < Crowd
           /\ (t \in T <=> t \in S) => T = S
           /\ t \in S /\ t \notin T => Cardinality(T) = Cardinality(S) - 1
           /\ t \in T /\ t \notin S => Cardinality(T) = Cardinality(S) + 1
<1>1. IsFiniteSet(Thread) /\ IsFiniteSet(S) /\ IsFiniteSet(T)
  BY FS_Subset DEF OneCost
<1>2. /\ Cardinality(S) \in Nat /\ Cardinality(T) \in Nat /\ Cardinality(S) <= Crowd
      /\ Crowd \in Nat
  BY <1>1, FS_CardinalityType, FS_Subset DEF Crowd
<1>3. ASSUME t \notin S PROVE Cardinality(S) < Crowd
  <2>1. Cardinality(S \cup {t}) = Cardinality(S) + 1 /\ S \cup {t} \subseteq Thread
    BY <1>1, <1>3, FS_AddElement
  <2>2. Cardinality(S \cup {t}) <= Crowd
    BY <1>1, <2>1, FS_Subset DEF Crowd
  <2> QED BY <1>2, <2>1, <2>2
<1>4. ASSUME t \in S, t \notin T PROVE Cardinality(T) = Cardinality(S) - 1
  <2>1. T = S \ {t}
    BY <1>4
  <2> QED BY <1>1, <1>4, <2>1, FS_RemoveElement
<1>5. ASSUME t \in T, t \notin S PROVE Cardinality(T) = Cardinality(S) + 1
  <2>1. T = S \cup {t}
    BY <1>5
  <2> QED BY <1>1, <1>5, <2>1, FS_AddElement
<1> QED BY <1>2, <1>3, <1>4, <1>5

\* A step of a thread leaves the others where they are, and what they have seen.
LEMMA OthersStay ==
    ASSUME NEW t \in Thread, OwnStep(t), NEW r \in Ref
    PROVE  /\ InFlight(r) \in SUBSET Thread /\ InFlight(r)' \in SUBSET Thread
           /\ Paying(r) \in SUBSET Thread /\ Paying(r)' \in SUBSET Thread
           /\ Hopeful(r) \in SUBSET Thread /\ Hopeful(r)' \in SUBSET Thread
           /\ \A u \in Thread \ {t} :
                 /\ u \in InFlight(r)' <=> u \in InFlight(r)
                 /\ u \in Paying(r)' <=> u \in Paying(r)
                 /\ u \in Hopeful(r)' <=> u \in Hopeful(r)
                 /\ Sees(u)' <=> Sees(u)
                 /\ LevelSeen(u)' = LevelSeen(u)
                 /\ state'[u] = state[u]
           /\ (t \in Paying(r)' <=> t \in Paying(r)) => Paying(r)' = Paying(r)
           /\ (t \in Hopeful(r)' <=> t \in Hopeful(r)) => Hopeful(r)' = Hopeful(r)
<1>1. \A u \in Thread \ {t} :
         /\ pc'[u] = pc[u] /\ state'[u] = state[u]
         /\ loaded'[u] = loaded[u] /\ observed'[u] = observed[u]
  BY DEF OwnStep
<1>2. \A u \in Thread \ {t} : (Sees(u)' <=> Sees(u)) /\ LevelSeen(u)' = LevelSeen(u)
  BY <1>1 DEF Sees, LevelSeen
<1>3. \A u \in Thread \ {t} :
         /\ u \in InFlight(r)' <=> u \in InFlight(r)
         /\ u \in Paying(r)' <=> u \in Paying(r)
         /\ u \in Hopeful(r)' <=> u \in Hopeful(r)
  BY <1>1, <1>2 DEF InFlight, Paying, Hopeful
<1>4. /\ InFlight(r) \in SUBSET Thread /\ InFlight(r)' \in SUBSET Thread
      /\ Paying(r) \in SUBSET Thread /\ Paying(r)' \in SUBSET Thread
      /\ Hopeful(r) \in SUBSET Thread /\ Hopeful(r)' \in SUBSET Thread
  BY DEF InFlight, Paying, Hopeful
<1>5. \A S, T \in SUBSET Thread :
         (\A u \in Thread \ {t} : u \in T <=> u \in S) /\ (t \in T <=> t \in S) => T = S
  OBVIOUS
<1> QED BY <1>1, <1>2, <1>3, <1>4, <1>5

\* The numbers of a bucket.
Numbers(r) ==
    /\ admitted[r] \in Nat /\ tokens[r] \in Int
    /\ Cardinality(InFlight(r)) \in Nat /\ Cardinality(Paying(r)) \in Nat
    /\ Cardinality(Hopeful(r)) \in Nat
    /\ Weight * Cardinality(InFlight(r)) \in Nat
    /\ Weight * Cardinality(Hopeful(r)) \in Nat
    /\ Cardinality(Paying(r)) * Lump \in Nat
    /\ Cardinality(Paying(r)) <= Crowd
    /\ Gap(r) \in Nat /\ Weight * Gap(r) \in Nat
    /\ Crowd * Lump \in Nat
    /\ Weight * (sample_rate - 1) \in Nat
    /\ Weight * (sample_rate - 1) + Weight = Lump

LEMMA NumbersTyped == ASSUME OneCost, TypeInv, NEW r \in Ref PROVE Numbers(r)
<1>1. Weight \in Nat /\ Crowd \in Nat /\ Lump \in Nat /\ sample_rate - 1 \in Nat
      /\ Lump = Weight * sample_rate /\ sample_rate \in Nat
  BY OneCostTyped
<1>2. \A S \in SUBSET Thread : Cardinality(S) \in Nat /\ Cardinality(S) <= Crowd
  BY FS_Subset, FS_CardinalityType DEF OneCost, Crowd
<1>3. /\ Cardinality(InFlight(r)) \in Nat /\ Cardinality(Paying(r)) \in Nat
      /\ Cardinality(Hopeful(r)) \in Nat /\ Cardinality(Paying(r)) <= Crowd
  BY <1>2 DEF InFlight, Paying, Hopeful
<1>4. Gap(r) \in Nat
  <2>1. request_tick[r] \in u64 /\ sample_rate \in Nat \ {0}
    BY OneCostTyped DEF TypeInv
  <2> QED BY <2>1, GapFalls DEF Gap
<1>5. \A x, y \in Nat : x * y \in Nat
  OBVIOUS
<1>6. Weight * (sample_rate - 1) + Weight = Lump
  BY <1>1
<1> QED BY <1>1, <1>3, <1>4, <1>5, <1>6 DEF Numbers, TypeInv

AllNumbers == \A r \in Ref : Numbers(r)

LEMMA NextNumbersTyped == ASSUME OneCost PROVE TypeInv' => AllNumbers'
<1>1. TypeInv => AllNumbers
  BY NumbersTyped DEF AllNumbers
<1> QED BY <1>1, PTL

\* While there are tokens, what is let through and what is in flight stay within the
\* burst.
LEMMA SolventIsBounded ==
    ASSUME OneCost, TypeInv, NEW r \in Ref, tokens[r] > 0, Solvent(r)
    PROVE  admitted[r] + Weight * Cardinality(InFlight(r)) < capacity_scaled + Crowd * Lump
<1> DEFINE p == Cardinality(Paying(r))
<1>1. Numbers(r) /\ Crowd \in Nat /\ Lump \in Nat \ {0} /\ capacity_scaled \in Nat
      /\ Weight \in Nat \ {0}
  BY NumbersTyped, OneCostTyped
<1>2. CASE p = Crowd
  BY <1>1, <1>2 DEF Solvent, Numbers
<1>3. CASE p # Crowd
  <2>1. p + 1 <= Crowd /\ p \in Nat
    <3>1. p \in Nat /\ p <= Crowd /\ Crowd \in Nat
      BY <1>1 DEF Numbers
    <3> HIDE DEF p
    <3> QED BY <1>3, <3>1
  <2>2. (p + 1) * Lump <= Crowd * Lump /\ (p + 1) * Lump = p * Lump + Lump
    BY <1>1, <2>1, KeepFactor
  <2> QED BY <1>1, <2>2 DEF Solvent, Numbers
<1> QED BY <1>2, <1>3

-----------------------------------------------------------------------------

\* A step that takes no tokens and counts no request, and lets through only what was
\* in flight.
LEMMA AffordedStays ==
    ASSUME OneCost, TypeInv, TypeInv', NEW t \in Thread, OwnStep(t), NEW r \in Ref,
           Afforded(r), tokens'[r] = tokens[r], request_tick'[r] = request_tick[r],
           t \in Paying(r)' <=> t \in Paying(r),
           \/ /\ admitted'[r] = admitted[r]
              /\ t \in InFlight(r)' => t \in InFlight(r)
              /\ tokens[r] <= 0 => (t \in Hopeful(r)' => t \in Hopeful(r))
           \/ /\ admitted'[r] = admitted[r] + Weight
              /\ t \in InFlight(r) /\ t \notin InFlight(r)'
              /\ tokens[r] <= 0 => t \in Hopeful(r) /\ t \notin Hopeful(r)',
           tokens[r] > 0 /\ state'[t] = r /\ Sees(t)' => LevelSeen(t)' >= tokens[r]
    PROVE  Afforded(r)'
<1> DEFINE i == Cardinality(InFlight(r))
           h == Cardinality(Hopeful(r))
<1>1. /\ Numbers(r) /\ Numbers(r)' /\ Weight \in Nat \ {0} /\ Crowd \in Nat /\ Lump \in Nat
      /\ capacity_scaled \in Nat
  BY NumbersTyped, NextNumbersTyped, OneCostTyped DEF AllNumbers
<1>2. /\ Lump' = Lump /\ Weight' = Weight /\ Crowd' = Crowd /\ sample_rate' = sample_rate
      /\ capacity_scaled' = capacity_scaled /\ Gap(r)' = Gap(r)
  BY DEF OwnStep, Lump, Weight, Crowd, capacity_scaled, Gap, unsampled_left
<1>3. Paying(r)' = Paying(r)
  BY OthersStay
<1>4. admitted'[r] + Weight * i' <= admitted[r] + Weight * i
  <2>1. /\ t \in InFlight(r) /\ t \notin InFlight(r)' => i' = i - 1
        /\ (t \in InFlight(r)' <=> t \in InFlight(r)) => i' = i
    BY OthersStay, OneMoves
  <2>2. i \in Nat /\ Weight * (i - 1) = Weight * i - Weight
    BY <1>1 DEF Numbers
  <2> QED BY <1>1, <2>1, <2>2 DEF Numbers
<1>5. tokens[r] <= 0 => admitted'[r] + Weight * h' <= admitted[r] + Weight * h
  <2>1. /\ t \in Hopeful(r) /\ t \notin Hopeful(r)' => h' = h - 1
        /\ (t \in Hopeful(r)' <=> t \in Hopeful(r)) => h' = h
    BY OthersStay, OneMoves
  <2>2. h \in Nat /\ Weight * (h - 1) = Weight * h - Weight
    BY <1>1 DEF Numbers
  <2> QED BY <1>1, <2>1, <2>2 DEF Numbers
<1>6. CASE tokens[r] > 0
  <2>1. Solvent(r)
    BY <1>6 DEF Afforded
  <2>2. \A u \in Thread : state'[u] = r /\ Sees(u)' => LevelSeen(u)' >= tokens'[r]
    BY <1>6, <2>1, OthersStay DEF Solvent
  <2>3. Solvent(r)'
    BY <1>1, <1>2, <1>3, <1>4, <2>1, <2>2 DEF Solvent, Numbers
  <2> QED BY <1>6, <2>3 DEF Afforded
<1>7. CASE tokens[r] <= 0
  <2>1. Spent(r)'
    BY <1>1, <1>2, <1>5, <1>7 DEF Afforded, Spent, Numbers
  <2> QED BY <1>1, <1>7, <2>1 DEF Afforded, Numbers
<1> QED BY <1>1, <1>6, <1>7 DEF Numbers

\* The sampler counts a request: it will pay for its group, or the group has one less
\* to come.
LEMMA TickAfforded ==
    ASSUME OneCost, TypeInv, TypeInv', NEW t \in Thread, OwnStep(t), should_sample(t),
           NEW r \in Ref, r = state[t], Afforded(r)
    PROVE  Afforded(r)'
<1> DEFINE q == request_tick[r]
           i == Cardinality(InFlight(r))
           p == Cardinality(Paying(r))
<1>1. /\ pc[t] = "touch" /\ state' = state
      /\ pc'[t] = IF IsSampled(q) THEN "observe" ELSE "peek"
      /\ tokens' = tokens /\ admitted' = admitted
      /\ request_tick'[r] = (q + 1) % (U64_MAX + 1)
  BY DEF should_sample, Goto, Threads!Goto, TypeInv, Unheld
<1>2. /\ Numbers(r) /\ Numbers(r)' /\ Weight \in Nat \ {0} /\ Crowd \in Nat /\ Lump \in Nat
      /\ capacity_scaled \in Nat /\ sample_rate \in Nat \ {0} /\ q \in u64
  BY <1>1, NumbersTyped, NextNumbersTyped, OneCostTyped DEF AllNumbers, TypeInv
<1>3. /\ Lump' = Lump /\ Weight' = Weight /\ Crowd' = Crowd /\ sample_rate' = sample_rate
      /\ capacity_scaled' = capacity_scaled
      /\ Gap(r)' = unsampled_left((q + 1) % (U64_MAX + 1))
  BY <1>1 DEF OwnStep, Lump, Weight, Crowd, capacity_scaled, Gap, unsampled_left
<1>4. /\ t \notin InFlight(r) /\ t \in InFlight(r)'
      /\ t \notin Paying(r) /\ (t \in Paying(r)' <=> IsSampled(q))
      /\ t \notin Hopeful(r) /\ t \notin Hopeful(r)'
      /\ ~Sees(t)'
  BY <1>1 DEF InFlight, Paying, Hopeful, Sees, Read, Decided, SamplerSteps
<1>5. i' = i + 1 /\ Hopeful(r)' = Hopeful(r) /\ p < Crowd
      /\ (IF IsSampled(q) THEN p' = p + 1 ELSE p' = p)
  <2>1. i' = i + 1
    BY <1>4, OthersStay, OneMoves
  <2>2. Hopeful(r)' = Hopeful(r)
    BY <1>4, OthersStay
  <2>3. /\ p < Crowd
        /\ t \in Paying(r)' => p' = p + 1
    BY <1>4, OthersStay, OneMoves
  <2>4. t \notin Paying(r)' => Paying(r)' = Paying(r)
    BY <1>4, OthersStay
  <2> QED BY <1>4, <2>1, <2>2, <2>3, <2>4
<1>6. CASE tokens[r] > 0
  <2>1. Solvent(r)
    BY <1>6 DEF Afforded
  <2>2. \A u \in Thread : state'[u] = r /\ Sees(u)' => LevelSeen(u)' >= tokens'[r]
    BY <1>1, <1>4, <2>1, OthersStay DEF Solvent
  <2> DEFINE W == Weight
             a == admitted[r]
             g == Gap(r)
             room == capacity_scaled - tokens[r]
             last == W * (sample_rate - 1)
  <2>3. /\ W \in Nat /\ i \in Nat /\ p \in Nat /\ g \in Nat /\ a \in Nat /\ room \in Int
        /\ W * i \in Nat /\ W * g \in Nat /\ p * Lump \in Nat /\ last \in Nat
        /\ Gap(r)' \in Nat /\ W * Gap(r)' \in Nat
    BY <1>2, <1>3 DEF Numbers
  <2>4. /\ W * (i + 1) = W * i + W
        /\ (p + 1) * Lump = p * Lump + Lump
        /\ last + W = Lump
    BY <1>2, <2>3 DEF Numbers
  <2>5. a + W * i + W * g <= room + p * Lump + last
    BY <2>1 DEF Solvent
  <2>6. ASSUME IsSampled(q) PROVE Solvent(r)'
    <3>1. g = 0 /\ Gap(r)' <= sample_rate - 1
      <4>1. g = 0
        BY <1>2, <2>6, GapFalls DEF Gap
      <4>2. \A x \in u64 : unsampled_left(x) <= sample_rate - 1
        BY <1>2, GapFalls
      <4>3. (q + 1) % (U64_MAX + 1) \in u64
        BY <1>2, GapFalls
      <4> QED BY <1>3, <4>1, <4>2, <4>3
    <3>2. W * Gap(r)' <= last /\ W * g = 0
      <4>1. sample_rate - 1 \in Int /\ Gap(r)' \in Int
        BY <1>2, <2>3
      <4> HIDE DEF g
      <4> QED BY <2>3, <3>1, <4>1, Scaled
    <3>3. a + W * (i + 1) <= room + (p + 1) * Lump
      <4> HIDE DEF a, W, room, last, i, p
      <4> QED BY <2>3, <2>4, <2>5, <3>2, <1>2
    <3>4. a + W * (i + 1) + W * Gap(r)' <= room + (p + 1) * Lump + last
      <4> HIDE DEF a, W, room, last, i, p
      <4> QED BY <2>3, <2>4, <3>2, <3>3, <1>2
    <3> QED BY <1>1, <1>3, <1>5, <2>1, <2>2, <2>6, <3>3, <3>4 DEF Solvent
  <2>7. ASSUME ~IsSampled(q) PROVE Solvent(r)'
    <3>1. Gap(r)' + 1 <= g
      BY <1>2, <1>3, <2>7, GapFalls DEF Gap
    <3>2. W * (Gap(r)' + 1) <= W * g /\ W * (Gap(r)' + 1) = W * Gap(r)' + W * 1 /\ W * 1 = W
      <4> HIDE DEF W, g
      <4>1. Gap(r)' + 1 \in Int /\ 1 \in Int /\ Gap(r)' \in Int /\ g \in Int
        BY <2>3
      <4> QED BY <2>3, <3>1, <4>1, Scaled
    <3>3. a + W * (i + 1) + W * Gap(r)' <= room + p * Lump + last
      <4> HIDE DEF a, W, room, last, i, p, g
      <4> QED BY <2>3, <2>4, <2>5, <3>2, <1>2
    <3> QED BY <1>1, <1>2, <1>3, <1>5, <2>1, <2>2, <2>3, <2>7, <3>3 DEF Solvent
  <2>8. Solvent(r)'
    BY <2>6, <2>7
  <2> QED BY <1>1, <1>6, <2>8 DEF Afforded
<1>7. CASE ~(tokens[r] > 0)
  BY <1>1, <1>3, <1>5, <1>7 DEF Afforded, Spent
<1> QED BY <1>6, <1>7

\* A sampled request pays.  It has seen what there is, or more: so it pays for its
\* group in full, or nothing is left.
LEMMA ChargeAfforded ==
    ASSUME OneCost, TypeInv, TypeInv', NEW t \in Thread, OwnStep(t), Charge(t),
           call[t].cost \in Cost, NEW r \in Ref, r = state[t], Afforded(r)
    PROVE  Afforded(r)'
<1> DEFINE W == Weight
           L == Lump
           tok == tokens[r]
           d == debit(t)
           a == admitted[r]
           i == Cardinality(InFlight(r))
           p == Cardinality(Paying(r))
           h == Cardinality(Hopeful(r))
           left == MaxOf(tok - d, -I64_MAX - 1)
<1>1. PICK permitted \in admit(observed[t], ramp(t)) : Decide(t, permitted)
  BY DEF Charge
<1>2. /\ pc[t] = "load_tokens" /\ pc'[t] = "idle" /\ state'[t] = NoRef
      /\ tokens'[r] = left /\ request_tick' = request_tick
      /\ admitted'[r] = IF permitted THEN a + asked(t) ELSE a
  BY <1>1 DEF Charge, Decide, Threads!Return, Threads!Goto, TypeInv
<1>3. /\ Numbers(r) /\ W \in Nat \ {0} /\ Crowd \in Nat /\ L \in Nat \ {0}
      /\ capacity_scaled \in Nat /\ sample_rate \in Nat \ {0}
      /\ asked(t) = W /\ lump(t) = MinOf(L, I64_MAX) /\ I64_MAX \in Nat
      /\ d \in Nat /\ ramp(t) \in Nat \ {0} /\ tok \in Int /\ observed[t] \in Int
  BY NumbersTyped, OneCostTyped, TypesFollow, DebitTyped, Constants DEF TypeInv
<1>4. /\ Lump' = Lump /\ Weight' = Weight /\ Crowd' = Crowd /\ sample_rate' = sample_rate
      /\ capacity_scaled' = capacity_scaled /\ Gap(r)' = Gap(r)
  BY <1>2 DEF OwnStep, Lump, Weight, Crowd, capacity_scaled, Gap, unsampled_left
<1>5. /\ t \in InFlight(r) /\ t \notin InFlight(r)'
      /\ t \in Paying(r) /\ t \notin Paying(r)'
      /\ t \in Hopeful(r) <=> observed[t] > 0
      /\ t \notin Hopeful(r)' /\ ~Sees(t)'
      /\ Sees(t) /\ LevelSeen(t) = observed[t]
  BY <1>2 DEF InFlight, Paying, Hopeful, Sees, LevelSeen, Read, Decided, SamplerSteps
<1>6. /\ i' = i - 1 /\ i \in Nat /\ i' \in Nat
      /\ p' = p - 1 /\ p \in Nat /\ p <= Crowd
  BY <1>5, OthersStay, OneMoves
<1>7. /\ h \in Nat /\ h' \in Nat
      /\ observed[t] > 0 => h' = h - 1
      /\ observed[t] <= 0 => h' = h
  <2>1. h \in Nat /\ h' \in Nat /\ (t \in Hopeful(r) => h' = h - 1)
    BY <1>5, OthersStay, OneMoves
  <2>2. t \notin Hopeful(r) => h' = h
    BY <1>5, OthersStay
  <2>3. observed[t] <= 0 => ~(observed[t] > 0)
    BY <1>3
  <2> QED BY <1>5, <2>1, <2>2, <2>3
<1>8. Hopeful(r)' \subseteq InFlight(r)' /\ h' <= i'
  <2>1. Hopeful(r)' \subseteq InFlight(r)'
    BY DEF Hopeful, InFlight, Sees, Read, Decided, SamplerSteps
  <2>2. IsFiniteSet(InFlight(r)')
    BY FS_Subset DEF OneCost, InFlight
  <2> QED BY <2>1, <2>2, FS_Subset
<1>9. W * i' = W * i - W /\ W * i \in Nat /\ W * i' \in Nat
  <2>1. W * (i - 1) = W * i - W /\ W * i \in Nat
    BY <1>3, <1>6
  <2>2. W * i' \in Nat
    BY <1>3, <1>6
  <2> QED BY <1>6, <2>1, <2>2
<1>10. /\ admitted'[r] \in Nat /\ a \in Nat
       /\ admitted'[r] <= a + W
       /\ observed[t] <= 0 => admitted'[r] = a
  <2>1. a \in Nat
    BY <1>3 DEF Numbers
  <2>2. observed[t] <= 0 => ~permitted
    <3>1. observed[t] <= 0 => ~(observed[t] >= ramp(t))
      BY <1>3
    <3> QED BY <1>1, <3>1, Zenon DEF admit
  <2>3. admitted'[r] = a \/ (permitted /\ admitted'[r] = a + W)
    BY <1>2, <1>3
  <2> QED BY <1>2, <1>3, <2>1, <2>2, <2>3
<1>11. CASE tok > 0
  <2>1. Solvent(r)
    BY <1>11 DEF Afforded
  <2>2. observed[t] >= tok /\ tok <= capacity_scaled
    BY <1>5, <2>1 DEF Solvent
  <2>3. CASE left > 0
    <3>1. left = tok - d
      BY <1>3, <2>3 DEF MaxOf
    <3>2. d = L
      BY <1>3, <1>11, <2>2, <2>3, <3>1, ChargeDrains
    <3>3. \A u \in Thread : state'[u] = r /\ Sees(u)' => LevelSeen(u)' >= tokens'[r]
      <4>1. ASSUME NEW u \in Thread, u # t, state[u] = r, Sees(u)
            PROVE  LevelSeen(u) >= tokens'[r]
        <5>1. LevelSeen(u) >= tok /\ LevelSeen(u) \in Int
          BY <2>1, <4>1 DEF Solvent, LevelSeen, TypeInv
        <5> HIDE DEF left, tok, d
        <5> QED BY <1>2, <1>3, <3>1, <3>2, <5>1
      <4> QED BY <1>5, <4>1, OthersStay
    <3>4. (p - 1) * L = p * L - L /\ p * L \in Nat
      BY <1>3, <1>6
    <3>5. a + W * i + W * Gap(r) <= (capacity_scaled - tok) + p * L + W * (sample_rate - 1)
      BY <2>1 DEF Solvent
    <3>6. W * Gap(r) \in Nat /\ W * (sample_rate - 1) \in Nat
      BY <1>3 DEF Numbers
    <3>7. admitted'[r] + W * i' + W * Gap(r)
            <= (capacity_scaled - tokens'[r]) + p' * L + W * (sample_rate - 1)
      <4> HIDE DEF W, L, tok, d, a, i, p, left
      <4> QED BY <1>2, <1>3, <1>6, <1>9, <1>10, <3>1, <3>2, <3>4, <3>5, <3>6
    <3>8. p' # Crowd
      <4> HIDE DEF p
      <4> QED BY <1>3, <1>6
    <3>9. tokens'[r] <= capacity_scaled
      BY <1>2, <1>3, <2>2, <3>1
    <3>10. Solvent(r)'
      BY <1>4, <3>3, <3>7, <3>8, <3>9 DEF Solvent
    <3> QED BY <1>2, <2>3, <3>10 DEF Afforded
  <2>4. CASE ~(left > 0)
    <3>1. a + W * i < capacity_scaled + Crowd * L
      BY <1>11, <2>1, SolventIsBounded
    <3>2. W * h' <= W * i' /\ W * h' \in Nat
      BY <1>3, <1>6, <1>7, <1>8, Scaled
    <3>3. Crowd * L \in Nat
      BY <1>3
    <3>4. admitted'[r] + W * h' < capacity_scaled + Crowd * L
      <4> HIDE DEF W, L, a, i, h
      <4> QED BY <1>3, <1>9, <1>10, <3>1, <3>2, <3>3
    <3>5. Spent(r)'
      BY <1>4, <3>4 DEF Spent
    <3> QED BY <1>2, <2>4, <3>5 DEF Afforded
  <2> QED BY <2>3, <2>4
<1>12. CASE ~(tok > 0)
  <2>1. ~(left > 0)
    BY <1>3, <1>12 DEF MaxOf
  <2>2. a + W * h < capacity_scaled + Crowd * L
    BY <1>12 DEF Afforded, Spent
  <2>3. admitted'[r] + W * h' <= a + W * h /\ W * h \in Nat /\ W * h' \in Nat
    <3>1. W * (h - 1) = W * h - W /\ W * h \in Nat /\ W * h' \in Nat
      BY <1>3, <1>7
    <3> QED BY <1>3, <1>7, <1>10, <3>1
  <2>4. Crowd * L \in Nat
    BY <1>3
  <2>5. admitted'[r] + W * h' < capacity_scaled + Crowd * L
    <3> HIDE DEF W, L, a, h
    <3> QED BY <1>3, <1>10, <2>2, <2>3, <2>4
  <2>6. Spent(r)'
    BY <1>4, <2>5 DEF Spent
  <2> QED BY <1>2, <2>1, <2>6 DEF Afforded
<1> QED BY <1>11, <1>12

\* A new bucket is full, and nobody uses it yet.
LEMMA InsertAfforded ==
    ASSUME OneCost, TypeInv, TypeInv', NEW t \in Thread, OwnStep(t), Insert(t),
           NEW r \in Ref, r = state'[t]
    PROVE  /\ Afforded(r)'
           /\ tokens'[r] = capacity_scaled /\ admitted'[r] = 0
<1>1. /\ pc'[t] = "touch" /\ tokens'[r] = capacity_scaled /\ admitted'[r] = 0
      /\ \A u \in Thread \ {t} : state[u] # r
      /\ request_tick'[r] \in u64
  <2>1. PICK q \in Threads!Free :
           /\ tokens' = [tokens EXCEPT ![q] = capacity_scaled]
           /\ state' = [state EXCEPT ![t] = q]
    BY DEF Insert, Threads!Insert, capacity_scaled
  <2>2. q = r
    BY <2>1 DEF TypeInv
  <2>3. \A u \in Thread : state[u] # r
    BY <2>1, <2>2 DEF Threads!Free
  <2>4. pc'[t] = "touch" /\ admitted'[r] = 0
    BY <2>2 DEF Insert, Threads!Insert, Threads!Goto, TypeInv
  <2> QED BY <2>1, <2>2, <2>3, <2>4 DEF TypeInv
<1>2. InFlight(r)' = {} /\ Paying(r)' = {} /\ Hopeful(r)' = {}
  <2>1. \A u \in Thread : state'[u] = r => pc'[u] = "touch"
    BY <1>1, OthersStay
  <2> QED BY <2>1 DEF InFlight, Paying, Hopeful, Sees, Read, Decided, SamplerSteps
<1>3. /\ Lump' = Lump /\ Weight' = Weight /\ Crowd' = Crowd /\ sample_rate' = sample_rate
      /\ capacity_scaled' = capacity_scaled
  BY DEF OwnStep, Lump, Weight, Crowd, capacity_scaled
<1>4. /\ Weight \in Nat \ {0} /\ Crowd \in Nat \ {0} /\ Lump \in Nat \ {0}
      /\ capacity_scaled \in Nat /\ sample_rate \in Nat \ {0}
  BY OneCostTyped
<1>5. Cardinality({}) = 0
  BY FS_EmptySet
<1>6. /\ InFlight(r)' = {} => Cardinality(InFlight(r))' = 0
      /\ Paying(r)' = {} => Cardinality(Paying(r))' = 0
      /\ Hopeful(r)' = {} => Cardinality(Hopeful(r))' = 0
  BY <1>5
<1>7. Weight * 0 = 0 /\ 0 * Lump = 0 /\ Crowd * Lump \in Nat \ {0}
  BY <1>4
<1>8. CASE capacity_scaled > 0
  <2>1. Gap(r)' \in Nat /\ Gap(r)' <= sample_rate - 1
    <3>1. \A q \in u64 : unsampled_left(q) \in Nat /\ unsampled_left(q) <= sample_rate - 1
      BY <1>4, GapFalls
    <3>2. Gap(r)' = unsampled_left(request_tick'[r])
      BY <1>3 DEF Gap, unsampled_left
    <3> QED BY <1>1, <3>1, <3>2
  <2>2. /\ Weight * Gap(r)' <= Weight * (sample_rate - 1)
        /\ Weight * Gap(r)' \in Int /\ Weight * (sample_rate - 1) \in Int
    <3>1. Gap(r)' \in Int /\ sample_rate - 1 \in Int /\ Weight \in Nat
      BY <1>4, <2>1
    <3> QED BY <2>1, <3>1, Scaled
  <2>3. \A u \in Thread : ~(state'[u] = r /\ Sees(u)')
    BY <1>1, OthersStay DEF Sees, Read, Decided
  <2>4. Solvent(r)'
    BY <1>1, <1>2, <1>3, <1>4, <1>6, <1>7, <2>2, <2>3 DEF Solvent
  <2> QED BY <1>1, <1>8, <2>4 DEF Afforded
<1>9. CASE ~(capacity_scaled > 0)
  <2>1. Spent(r)'
    BY <1>1, <1>2, <1>3, <1>4, <1>6, <1>7 DEF Spent
  <2> QED BY <1>1, <1>9, <2>1 DEF Afforded
<1> QED BY <1>1, <1>8, <1>9

\* A step of a thread that does not hold a bucket, nor inserts it, leaves it alone: at
\* most the thread has found it.
LEMMA Elsewhere ==
    ASSUME TypeInv, NEW t \in Thread, Check(t) \/ Running(t), NEW r \in Ref, state[t] # r,
           ~(Insert(t) /\ state'[t] = r)
    PROVE  /\ tokens'[r] = tokens[r] /\ admitted'[r] = admitted[r]
           /\ request_tick'[r] = request_tick[r] /\ created'[r] = created[r]
           /\ state'[t] = r => pc'[t] = "touch"
<1> USE DEF TypeInv, Goto, Threads!Goto, Threads!shared, Threads!history, sampler
<1>1. CASE Check(t) \/ ReadNow(t)
  BY <1>1 DEF Check, ReadNow
<1>2. CASE Lookup(t) \/ AlreadyInserted(t)
  BY <1>2, ProbabilisticAssumption
  DEF Lookup, Threads!Lookup, AlreadyInserted, Threads!AlreadyInserted
<1>3. CASE Insert(t)
  <2>1. PICK q \in Threads!Free :
           /\ tokens' = [tokens EXCEPT ![q] = Threads!scaled_capacity]
           /\ created' = [created EXCEPT ![q] = call[t].now]
           /\ state' = [state EXCEPT ![t] = q]
    BY <1>3 DEF Insert, Threads!Insert
  <2>2. state'[t] = q /\ q # r
    BY <1>3, <2>1
  <2> QED BY <1>3, <2>1, <2>2 DEF Insert
<1>4. CASE Unsampled(t) \/ should_sample(t)
  BY <1>4 DEF Unsampled, should_sample
<1>5. CASE PeekAdmits(t) \/ PeekFails(t)
  BY <1>5, ProbabilisticAssumption DEF PeekAdmits, PeekFails, Decide, Threads!Return
<1>6. CASE Admit(t) \/ Charge(t)
  BY <1>6, ProbabilisticAssumption DEF Admit, Charge, Decide, Threads!Return
<1>7. CASE ReadLevel(t)
  BY <1>7 DEF ReadLevel, LoadLevel, LoadAccrual, Observe
<1>8. CASE apply_refill(t)
  BY <1>8 DEF apply_refill, Threads!Claiming, Threads!NothingAccrued, Threads!LoadRefill,
              Threads!ClaimFails, Threads!Claim, Threads!Credit
<1>9. CASE consume_exact(t)
  BY <1>9, ProbabilisticAssumption
  DEF consume_exact, Threads!LoadTokens, Threads!DebitFails, Threads!Deny, Threads!Debit,
      Threads!Return
<1> QED BY <1>1, <1>2, <1>3, <1>4, <1>5, <1>6, <1>7, <1>8, <1>9 DEF Running

\* Only an insertion makes a bucket.
LEMMA OnlyInsertCreates ==
    ASSUME NEW t \in Thread, Check(t) \/ Running(t), ~Insert(t)
    PROVE  UNCHANGED created
<1> USE DEF Threads!shared, Threads!history, sampler
<1>1. CASE Check(t) \/ ReadNow(t) \/ Unsampled(t) \/ should_sample(t)
  BY <1>1 DEF Check, ReadNow, Unsampled, should_sample
<1>2. CASE Lookup(t) \/ AlreadyInserted(t)
  BY <1>2 DEF Lookup, Threads!Lookup, AlreadyInserted, Threads!AlreadyInserted
<1>3. CASE PeekAdmits(t) \/ PeekFails(t) \/ Admit(t) \/ Charge(t) \/ ReadLevel(t)
  BY <1>3 DEF PeekAdmits, PeekFails, Admit, Charge, ReadLevel, LoadLevel, LoadAccrual, Observe
<1>4. CASE apply_refill(t)
  BY <1>4 DEF apply_refill, Threads!Claiming, Threads!NothingAccrued, Threads!LoadRefill,
              Threads!ClaimFails, Threads!Claim, Threads!Credit
<1>5. CASE consume_exact(t)
  BY <1>5 DEF consume_exact, Threads!LoadTokens, Threads!DebitFails, Threads!Deny, Threads!Debit
<1> QED BY <1>1, <1>2, <1>3, <1>4, <1>5 DEF Running

\* In a bucket as old as the clock nothing has accrued.
LEMMA NothingYet ==
    ASSUME ClaimInv, NEW t \in Thread, NEW r \in Ref, clock <= created[r]
    PROVE  Threads!accrued_since(t, last_refill[r]) = 0
<1>1. call[t].now \in Int /\ last_refill[r] \in Int /\ call[t].now <= last_refill[r]
  BY ProbabilisticAssumption DEF ClaimInv, TypeInv, Facts!Timeline, Unread
<1>2. Facts!saturating_sub(call[t].now, last_refill[r]) = 0
  BY <1>1 DEF Facts!saturating_sub
<1>3. Facts!rate_scaled \in Nat /\ 0 * Facts!rate_scaled < NANOS_PER_SEC
  BY Constants
<1>4. Facts!refill_tokens(0, Facts!rate_scaled) = 0
  BY <1>3, FactsApply, Facts!NothingIsWorthNothing
<1>5. Facts!accrued_since(t, last_refill[r]) = 0
  BY <1>2, <1>4 DEF Facts!accrued_since
<1> QED BY <1>5, SameAccrued

\* A thread that holds such a bucket counts, reads, or decides.
LEMMA BurstKinds ==
    ASSUME BurstInv, sample_rate > 1, NEW t \in Thread, Check(t) \/ Running(t),
           NEW r \in Ref, state[t] = r, clock = created[r]
    PROVE  \/ should_sample(t) \/ Charge(t)
           \/ PeekAdmits(t) \/ Admit(t)
           \/ ReadNow(t) \/ PeekFails(t) \/ ReadLevel(t)
           \/ Threads!NothingAccrued(t) /\ UNCHANGED sampler
<1>1. TypeInv /\ ClaimInv
  BY DEF BurstInv, ClaimInv
<1>2. pc[t] \notin Unheld /\ pc[t] \notin {"claim", "credit"}
  <2>1. clock \in Nat
    BY <1>1, ProbabilisticAssumption DEF TypeInv
  <2> QED BY <1>1, <2>1, ProbabilisticAssumption DEF BurstInv, TypeInv
<1>3. ~(Check(t) \/ Lookup(t) \/ Insert(t) \/ AlreadyInserted(t))
  BY <1>2 DEF Unheld, Check, Lookup, Threads!Lookup, Insert, Threads!Insert, AlreadyInserted,
              Threads!AlreadyInserted
<1>4. ~(Unsampled(t) \/ consume_exact(t))
  BY DEF Unsampled, consume_exact
<1>5. apply_refill(t) => Threads!NothingAccrued(t) /\ UNCHANGED sampler
  <2>1. ~Threads!LoadRefill(t)
    <3>1. Threads!accrued_since(t, last_refill[r]) = 0
      <4>1. clock <= created[r]
        BY <1>1, ProbabilisticAssumption DEF TypeInv
      <4> QED BY <1>1, <4>1, NothingYet
    <3> QED BY <3>1 DEF Threads!LoadRefill
  <2>2. ~(Threads!Claim(t) \/ Threads!ClaimFails(t) \/ Threads!Credit(t))
    BY <1>2 DEF Threads!Claim, Threads!ClaimFails, Threads!Credit
  <2> QED BY <2>1, <2>2 DEF apply_refill, Threads!Claiming
<1> QED BY <1>3, <1>4, <1>5 DEF Running

\* A step that only reads: what it has seen is what is there, or was.
LEMMA ReadAfforded ==
    ASSUME OneCost, BurstInv, TypeInv', sample_rate > 1, NEW t \in Thread, OwnStep(t),
           NEW r \in Ref, r = state[t], clock = created[r], Afforded(r),
           \/ ReadNow(t) \/ PeekFails(t) \/ ReadLevel(t)
           \/ Threads!NothingAccrued(t) /\ UNCHANGED sampler
    PROVE  Afforded(r)'
<1>1. TypeInv /\ ClaimInv /\ tokens[r] \in Int
  BY DEF BurstInv, ClaimInv, TypeInv
<1>2. /\ tokens' = tokens /\ admitted' = admitted /\ request_tick' = request_tick
      /\ state' = state
  BY DEF ReadNow, PeekFails, ReadLevel, LoadLevel, LoadAccrual, Observe, Threads!NothingAccrued,
         Threads!shared, Threads!history, sampler
<1>3. /\ t \in Paying(r)' <=> t \in Paying(r)
      /\ t \in InFlight(r)' => t \in InFlight(r)
  <2> USE DEF TypeInv, Paying, InFlight, Decided, SamplerSteps, Goto, Threads!Goto
  <2>1. CASE ReadNow(t) \/ PeekFails(t) \/ Threads!NothingAccrued(t)
    BY <1>1, <1>2, <2>1 DEF ReadNow, PeekFails, Threads!NothingAccrued
  <2>2. CASE LoadLevel(t)
    BY <1>1, <1>2, <2>2 DEF LoadLevel, AfterTokens
  <2>3. CASE LoadAccrual(t)
    BY <1>1, <1>2, <2>3 DEF LoadAccrual, Observe
  <2> QED BY <2>1, <2>2, <2>3 DEF ReadLevel
<1>4. Sees(t)' =>
         \/ LevelSeen(t)' = tokens[r]
         \/ Sees(t) /\ LevelSeen(t)' = LevelSeen(t)
         \/ Sees(t) /\ LevelSeen(t)' = MinOf(LevelSeen(t), capacity_scaled)
  <2> USE DEF TypeInv, Sees, LevelSeen, Read, Decided, Goto, Threads!Goto
  <2>1. CASE ReadNow(t) \/ PeekFails(t) \/ (Threads!NothingAccrued(t) /\ UNCHANGED sampler)
    BY <1>1, <2>1 DEF ReadNow, PeekFails, Threads!NothingAccrued, sampler
  <2>2. CASE LoadLevel(t)
    BY <1>1, <2>2 DEF LoadLevel, AfterTokens
  <2>3. CASE LoadAccrual(t)
    <3>1. accrued(t) = 0 /\ random_fraction_of(accrued(t)) = {0}
      <4>1. clock <= created[r]
        BY <1>1, ProbabilisticAssumption
      <4>2. accrued(t) = 0
        BY <1>1, <4>1, NothingYet DEF accrued
      <4> QED BY <4>2 DEF random_fraction_of
    <3>2. /\ pc[t] \in Read /\ pc'[t] \in Decided
          /\ observed'[t] = MinOf(loaded[t] + 0, capacity_scaled)
      BY <1>1, <2>3, <3>1 DEF LoadAccrual, Observe
    <3>3. loaded[t] + 0 = loaded[t]
      BY <1>1
    <3> QED BY <3>2, <3>3
  <2> QED BY <2>1, <2>2, <2>3 DEF ReadLevel
<1>5. LevelSeen(t) \in Int /\ capacity_scaled \in Nat
  BY <1>1, OneCostTyped DEF LevelSeen, TypeInv
<1>6. tokens[r] <= 0 => (t \in Hopeful(r)' => t \in Hopeful(r))
  BY <1>1, <1>2, <1>4, <1>5 DEF Hopeful, MinOf
<1>7. tokens[r] > 0 /\ state'[t] = r /\ Sees(t)' => LevelSeen(t)' >= tokens[r]
  <2>1. tokens[r] > 0 => tokens[r] <= capacity_scaled
                         /\ (Sees(t) => LevelSeen(t) >= tokens[r])
    BY DEF Afforded, Solvent
  <2> QED BY <1>1, <1>4, <1>5, <2>1 DEF MinOf
<1> QED BY <1>1, <1>2, <1>3, <1>6, <1>7, AffordedStays

\* A request that is not sampled, and is decided.
LEMMA DecideAfforded ==
    ASSUME OneCost, BurstInv, TypeInv', NEW t \in Thread, OwnStep(t),
           NEW r \in Ref, r = state[t], Afforded(r), PeekAdmits(t) \/ Admit(t)
    PROVE  Afforded(r)'
<1>1. /\ TypeInv /\ tokens[r] \in Int /\ observed[t] \in Int /\ asked(t) = Weight
      /\ ramp(t) \in Nat \ {0}
  <2>1. TypeInv
    BY DEF BurstInv, ClaimInv
  <2>2. pc[t] # "idle"
    BY DEF PeekAdmits, Admit
  <2> QED BY <2>1, <2>2, OneCostTyped, TypesFollow, DebitTyped DEF BurstInv, TypeInv
<1>2. PICK permitted :
         /\ Decide(t, permitted)
         /\ permitted => tokens[r] > 0 \/ (pc[t] = "admit" /\ observed[t] > 0)
  <2>1. CASE PeekAdmits(t)
    <3>1. Decide(t, TRUE) /\ tokens[r] >= ramp(t)
      BY <2>1 DEF PeekAdmits
    <3>2. tokens[r] > 0
      BY <1>1, <3>1
    <3> QED BY <3>1, <3>2
  <2>2. CASE Admit(t)
    <3>1. PICK permitted \in admit(observed[t], ramp(t)) : Decide(t, permitted)
      BY <2>2 DEF Admit
    <3>2. observed[t] <= 0 => ~(observed[t] >= ramp(t))
      BY <1>1
    <3>3. observed[t] <= 0 => ~permitted
      BY <3>1, <3>2, Zenon DEF admit
    <3>4. observed[t] <= 0 \/ observed[t] > 0
      BY <1>1
    <3> QED BY <2>2, <3>1, <3>3, <3>4 DEF Admit
  <2> QED BY <2>1, <2>2
<1>3. /\ tokens' = tokens /\ request_tick' = request_tick
      /\ pc[t] \in {"peek", "admit"} /\ pc'[t] = "idle" /\ state'[t] = NoRef
      /\ admitted'[r] = IF permitted THEN admitted[r] + Weight ELSE admitted[r]
  BY <1>1, <1>2 DEF PeekAdmits, Admit, Decide, Threads!Return, Threads!Goto, TypeInv
<1>4. /\ t \in InFlight(r) /\ t \notin InFlight(r)'
      /\ t \notin Paying(r) /\ t \notin Paying(r)'
      /\ t \notin Hopeful(r)'
      /\ pc[t] = "admit" /\ observed[t] > 0 => t \in Hopeful(r)
      /\ ~Sees(t)'
  BY <1>3 DEF InFlight, Paying, Hopeful, Sees, LevelSeen, Read, Decided, SamplerSteps
<1>5. /\ permitted => admitted'[r] = admitted[r] + Weight
      /\ ~permitted => admitted'[r] = admitted[r]
  BY <1>3
<1>6. tokens[r] <= 0 => ~(tokens[r] > 0)
  BY <1>1
<1> QED BY <1>1, <1>2, <1>3, <1>4, <1>5, <1>6, AffordedStays

\* Every step of a thread keeps a bucket within its burst.
LEMMA StepAfforded ==
    ASSUME OneCost, BurstInv, TypeInv', sample_rate > 1, NEW t \in Thread, OwnStep(t),
           Check(t) \/ Running(t), NEW r \in Ref, clock' = created'[r]
    PROVE  Afforded(r)'
<1>1. TypeInv /\ clock' = clock /\ sample_rate # 1
  <2>1. TypeInv
    BY DEF BurstInv, ClaimInv
  <2> QED BY <2>1, OneCostTyped DEF OwnStep
<1>2. CASE Insert(t) /\ state'[t] = r
  BY <1>1, <1>2, InsertAfforded
<1>3. CASE state[t] # r /\ ~(Insert(t) /\ state'[t] = r)
  <2>1. /\ tokens'[r] = tokens[r] /\ admitted'[r] = admitted[r]
        /\ request_tick'[r] = request_tick[r] /\ created'[r] = created[r]
        /\ state'[t] = r => pc'[t] = "touch"
    BY <1>1, <1>3, Elsewhere
  <2>2. Afforded(r)
    BY <1>1, <2>1 DEF BurstInv
  <2>3. /\ t \notin InFlight(r) /\ t \notin InFlight(r)'
        /\ t \notin Paying(r) /\ t \notin Paying(r)'
        /\ t \notin Hopeful(r) /\ t \notin Hopeful(r)'
        /\ state'[t] = r => ~Sees(t)'
    BY <1>3, <2>1 DEF InFlight, Paying, Hopeful, Sees, Read, Decided, SamplerSteps
  <2> QED BY <1>1, <2>1, <2>2, <2>3, AffordedStays
<1>4. CASE state[t] = r /\ ~Insert(t)
  <2>1. pc[t] # "idle" /\ call[t].cost \in Cost
    BY <1>1, <1>4, ProbabilisticAssumption DEF BurstInv, TypeInv, Unheld
  <2>2. created'[r] = created[r]
    BY <1>4, OnlyInsertCreates
  <2>3. clock = created[r] /\ Afforded(r)
    BY <1>1, <2>2 DEF BurstInv
  <2>4. CASE should_sample(t)
    BY <1>1, <1>4, <2>3, <2>4, TickAfforded
  <2>5. CASE Charge(t)
    BY <1>1, <1>4, <2>1, <2>3, <2>5, ChargeAfforded
  <2>6. CASE PeekAdmits(t) \/ Admit(t)
    BY <1>4, <2>3, <2>6, DecideAfforded
  <2>7. CASE \/ ReadNow(t) \/ PeekFails(t) \/ ReadLevel(t)
             \/ Threads!NothingAccrued(t) /\ UNCHANGED sampler
    BY <1>4, <2>3, <2>7, ReadAfforded
  <2> QED BY <1>4, <2>3, <2>4, <2>5, <2>6, <2>7, BurstKinds
<1>5. Insert(t) => state[t] # r
  BY <1>1, ProbabilisticAssumption DEF Insert, Threads!Insert, TypeInv, Unheld
<1> QED BY <1>2, <1>3, <1>4, <1>5

\* What a thread's step says of its call: it has a cost, and it claims only where
\* something has accrued.
LEMMA CallSteps ==
    ASSUME BurstInv, NEW t \in Thread, OwnStep(t), Check(t) \/ Running(t)
    PROVE  /\ pc'[t] # "idle" => call'[t].cost \in Cost
           /\ pc'[t] \in {"claim", "credit"} =>
                 state'[t] = state[t] /\ created' = created /\ created[state[t]] < clock
<1>1. TypeInv /\ ClaimInv
  BY DEF BurstInv, ClaimInv
<1> USE DEF TypeInv, Goto, Threads!Goto, Threads!shared, Threads!history, sampler
<1>2. CASE Check(t)
  BY <1>1, <1>2 DEF Check
<1>3. CASE ReadNow(t)
  BY <1>1, <1>3 DEF ReadNow, BurstInv
<1>4. CASE Lookup(t) \/ Insert(t) \/ AlreadyInserted(t)
  BY <1>1, <1>4 DEF Lookup, Threads!Lookup, Insert, Threads!Insert, AlreadyInserted,
                    Threads!AlreadyInserted, BurstInv
<1>5. CASE Unsampled(t) \/ should_sample(t)
  BY <1>1, <1>5 DEF Unsampled, should_sample, BurstInv
<1>6. CASE PeekAdmits(t) \/ PeekFails(t) \/ Admit(t) \/ Charge(t)
  BY <1>1, <1>6 DEF PeekAdmits, PeekFails, Admit, Charge, Decide, Threads!Return, BurstInv
<1>7. CASE ReadLevel(t)
  <2>1. CASE LoadLevel(t)
    BY <1>1, <2>1 DEF LoadLevel, AfterTokens, BurstInv
  <2>2. CASE LoadAccrual(t)
    BY <1>1, <2>2 DEF LoadAccrual, Observe, BurstInv
  <2> QED BY <1>7, <2>1, <2>2 DEF ReadLevel
<1>8. CASE apply_refill(t)
  <2>1. CASE Threads!LoadRefill(t)
    <3>1. PICK r \in Ref : r = state[t]
      BY <1>1, <2>1 DEF Threads!LoadRefill, Unheld
    <3>2. ~(clock <= created[r])
      BY <1>1, <2>1, <3>1, NothingYet DEF Threads!LoadRefill
    <3>3. created[r] < clock
      BY <1>1, <3>2, ProbabilisticAssumption
    <3> QED BY <1>1, <2>1, <3>1, <3>3 DEF Threads!LoadRefill, BurstInv
  <2>2. CASE Threads!Claim(t)
    BY <1>1, <2>2 DEF Threads!Claim, BurstInv
  <2>3. CASE Threads!NothingAccrued(t) \/ Threads!ClaimFails(t) \/ Threads!Credit(t)
    BY <1>1, <2>3 DEF Threads!NothingAccrued, Threads!ClaimFails, Threads!Credit, BurstInv
  <2> QED BY <1>8, <2>1, <2>2, <2>3 DEF apply_refill, Threads!Claiming
<1>9. CASE consume_exact(t)
  BY <1>1, <1>9 DEF consume_exact, Threads!LoadTokens, Threads!DebitFails, Threads!Deny,
                    Threads!Debit, Threads!Return, BurstInv
<1> QED BY <1>2, <1>3, <1>4, <1>5, <1>6, <1>7, <1>8, <1>9 DEF Running

\* Without sampling, what a bucket lets through it has had.
LEMMA ExactBurst ==
    ASSUME OneCost, BurstInv, TypeInv', [Next]_vars, sample_rate = 1, NEW r \in Ref,
           clock = created[r] \/ created'[r] # created[r]
    PROVE  tokens'[r] >= 0 /\ tokens'[r] + admitted'[r] <= capacity_scaled
<1> DEFINE Within(q) == tokens[q] >= 0 /\ tokens[q] + admitted[q] <= capacity_scaled
<1>1. /\ TypeInv /\ ClaimInv /\ capacity_scaled \in Nat /\ capacity_scaled < I64_MAX
      /\ I64_MAX \in Nat
  BY OneCostTyped, Constants DEF BurstInv, ClaimInv
<1>2. clock = created[r] => Within(r)
  BY DEF BurstInv
<1>3. CASE Quiet /\ admitted' = admitted
  BY <1>2, <1>3 DEF Quiet, Facts!Still
<1>4. ASSUME NEW t \in Thread, Insert(t) PROVE Within(r)'
  <2>1. OwnStep(t) /\ capacity_scaled' = capacity_scaled
    BY <1>1, <1>4 DEF OwnStep, Insert, Threads!Insert, Threads!Goto, TypeInv, capacity_scaled
  <2>2. CASE state'[t] = r
    <3>1. tokens'[r] = capacity_scaled /\ admitted'[r] = 0
      BY <1>1, <1>4, <2>1, <2>2, InsertAfforded
    <3> QED BY <1>1, <2>1, <3>1
  <2>3. CASE state'[t] # r
    <3>1. state[t] # r
      BY <1>1, <1>4, ProbabilisticAssumption DEF Insert, Threads!Insert, TypeInv, Unheld
    <3>2. /\ tokens'[r] = tokens[r] /\ admitted'[r] = admitted[r] /\ created'[r] = created[r]
      BY <1>1, <1>4, <2>3, <3>1, Elsewhere DEF Running
    <3> QED BY <1>2, <2>1, <3>2
  <2> QED BY <2>2, <2>3
<1>5. ASSUME NEW t \in Thread, Facts!Claim(t), admitted' = admitted PROVE Within(r)'
  BY <1>2, <1>5 DEF Facts!Claim, Facts!history, capacity_scaled
<1>6. ASSUME NEW t \in Thread, Facts!Credit(t), admitted' = admitted PROVE Within(r)'
  <2>1. pc[t] = "credit" /\ created' = created
        /\ (state[t] # r => tokens'[r] = tokens[r])
    BY <1>1, <1>6 DEF Facts!Credit, Facts!history, TypeInv
  <2>2. created[state[t]] < clock /\ clock \in Int
    BY <1>1, <2>1, ProbabilisticAssumption DEF BurstInv, TypeInv
  <2>3. clock = created[r] => state[t] # r
    BY <2>2
  <2> QED BY <1>2, <1>6, <2>1, <2>3 DEF capacity_scaled
<1>7. ASSUME NEW t \in Thread, ExactDebit(t), Facts!Still PROVE Within(r)'
  <2>1. created' = created /\ pc[t] = "debit" /\ state[t] \in Ref
    BY <1>1, <1>7 DEF Facts!Still, ExactDebit, Threads!Debit, TypeInv, Unheld
  <2>2. Within(r)
    BY <1>2, <2>1
  <2>3. capacity_scaled' = capacity_scaled
    BY DEF capacity_scaled
  <2>4. CASE state[t] # r
    BY <1>1, <1>7, <2>1, <2>2, <2>3, <2>4 DEF ExactDebit, Threads!Debit, TypeInv
  <2>5. CASE state[t] = r
    <3> DEFINE c == cost_scaled(t)
    <3>1. /\ c \in Nat /\ asked(t) \in Nat /\ c <= loaded[t] /\ tokens[r] = loaded[t]
          /\ tokens[r] \in Int /\ admitted[r] \in Nat
      BY <1>1, <1>7, <2>1, <2>5, TypesFollow, DebitTyped
      DEF ExactDebit, Threads!Debit, BurstInv, TypeInv
    <3>2. c = asked(t)
      <4>1. c < I64_MAX
        BY <1>1, <2>2, <3>1
      <4> QED BY <3>1, <4>1, <1>1
              DEF cost_scaled, Threads!token_cost, Threads!saturating_mul, Threads!MinOf, asked
    <3>3. tokens'[r] = tokens[r] - c /\ admitted'[r] = admitted[r] + c
      BY <1>1, <1>7, <2>1, <2>5, <3>1, <3>2
      DEF ExactDebit, Threads!Debit, TypeInv, cost_scaled
    <3> HIDE DEF c
    <3> QED BY <1>1, <2>2, <2>3, <3>1, <3>3
  <2> QED BY <2>4, <2>5
<1>8. capacity_scaled' = capacity_scaled
  BY DEF capacity_scaled
<1> QED BY <1>1, <1>3, <1>4, <1>5, <1>6, <1>7, <1>8, ExactSteps

LEMMA InitBurstInv == ASSUME OneCost PROVE Init => BurstInv
<1> SUFFICES ASSUME Init PROVE BurstInv
  OBVIOUS
<1>1. ClaimInv /\ TypeInv
  BY InitClaimInv DEF ClaimInv
<1>2. /\ pc = [t \in Thread |-> "idle"] /\ state = [t \in Thread |-> NoRef]
      /\ tokens = [r \in Ref |-> 0] /\ admitted = [r \in Ref |-> 0]
  BY DEF Init, Threads!Init
<1>3. ASSUME NEW r \in Ref PROVE Hopeful(r) = {}
  BY <1>2, <1>3, ProbabilisticAssumption DEF Hopeful
<1>4. /\ Weight \in Nat \ {0} /\ Crowd \in Nat \ {0} /\ Lump \in Nat \ {0}
      /\ capacity_scaled \in Nat
  BY <1>1, OneCostTyped
<1>5. Weight * 0 = 0 /\ Crowd * Lump \in Nat \ {0} /\ Cardinality({}) = 0
  BY <1>4, FS_EmptySet
<1>6. ASSUME NEW r \in Ref
      PROVE  IF sample_rate = 1
             THEN tokens[r] >= 0 /\ tokens[r] + admitted[r] <= capacity_scaled
             ELSE Afforded(r)
  BY <1>2, <1>3, <1>4, <1>5, <1>6 DEF Afforded, Spent
<1> QED BY <1>1, <1>2, <1>6 DEF BurstInv

LEMMA NextBurstInv == ASSUME OneCost PROVE BurstInv /\ [Next]_vars => BurstInv'
<1> SUFFICES ASSUME BurstInv, [Next]_vars PROVE BurstInv'
  OBVIOUS
<1>1. ClaimInv /\ ClaimInv' /\ TypeInv /\ TypeInv'
  BY NextClaimInv DEF BurstInv, ClaimInv
<1>2. /\ UNCHANGED sample_rate /\ capacity_scaled' = capacity_scaled
      /\ sample_rate \in Nat \ {0} /\ clock \in Nat /\ clock' \in Nat
  <2>1. UNCHANGED sample_rate
    BY <1>1, StepOwners DEF vars, sampler, TickStep, OwnStep
  <2> QED BY <1>1, <2>1, OneCostTyped, ProbabilisticAssumption DEF TypeInv, capacity_scaled
<1>3. \A u \in Thread :
         /\ pc'[u] # "idle" => call'[u].cost \in Cost
         /\ pc'[u] \in {"claim", "credit"} => created'[state'[u]] < clock'
  <2>1. CASE UNCHANGED vars
    BY <2>1 DEF vars, bucket, BurstInv
  <2>2. CASE TickStep
    BY <1>1, <1>2, <2>2, ProbabilisticAssumption DEF TickStep, BurstInv, TypeInv, Unheld
  <2>3. ASSUME NEW t \in Thread, OwnStep(t), Check(t) \/ Running(t), NEW u \in Thread
        PROVE  /\ pc'[u] # "idle" => call'[u].cost \in Cost
               /\ pc'[u] \in {"claim", "credit"} => created'[state'[u]] < clock'
    <3>1. CASE u = t
      BY <2>3, <3>1, CallSteps DEF OwnStep
    <3>2. CASE u # t
      <4>1. pc'[u] = pc[u] /\ call'[u] = call[u] /\ state'[u] = state[u] /\ clock' = clock
        BY <2>3, <3>2 DEF OwnStep
      <4>2. state[u] \in Ref => created'[state[u]] = created[state[u]]
        <5>1. CASE Insert(t)
          BY <1>1, <5>1 DEF Insert, Threads!Insert, Threads!Free, TypeInv
        <5> QED BY <2>3, <5>1, OnlyInsertCreates
      <4>3. pc[u] \in {"claim", "credit"} => state[u] \in Ref
        BY <1>1 DEF TypeInv, Unheld
      <4> QED BY <4>1, <4>2, <4>3 DEF BurstInv
    <3> QED BY <3>1, <3>2
  <2> QED BY <1>1, <2>1, <2>2, <2>3, StepOwners
<1>4. \A u \in Thread : pc'[u] = "debit" => cost_scaled(u)' <= loaded'[u]
  <2>1. CASE sample_rate = 1
    <3>1. \A u \in Thread : call'[u] = call[u] => cost_scaled(u)' = cost_scaled(u)
      BY DEF cost_scaled, Threads!token_cost
    <3> QED BY <1>1, <2>1, <3>1, ExactSteps DEF BurstInv
  <2>2. CASE sample_rate > 1
    BY <1>1, <1>2, <2>2 DEF TypeInv, SamplingInv
  <2> QED BY <1>2, <2>1, <2>2
<1>5. ASSUME NEW r \in Ref, clock' = created'[r]
      PROVE  IF sample_rate' = 1
             THEN tokens'[r] >= 0 /\ tokens'[r] + admitted'[r] <= capacity_scaled'
             ELSE Afforded(r)'
  <2>1. created[r] \in Nat /\ created[r] <= clock
    BY <1>1, <1>2 DEF ClaimInv, TypeInv, Facts!Timeline
  <2>2. ~TickStep
    BY <1>2, <1>5, <2>1 DEF TickStep
  <2>3. clock = created[r] \/ created'[r] # created[r]
    BY <1>1, <1>5, <2>2, StepOwners DEF vars, bucket, OwnStep
  <2>4. CASE sample_rate = 1
    BY <1>1, <1>2, <2>3, <2>4, ExactBurst
  <2>5. CASE sample_rate # 1
    <3>1. CASE UNCHANGED vars
      <4>1. Afforded(r)
        BY <1>5, <2>5, <3>1 DEF vars, bucket, BurstInv
      <4>2. Afforded(r)' = Afforded(r)
        BY <3>1 DEF vars, bucket, sampler, Afforded, Solvent, Spent, InFlight, Paying, Hopeful,
                    Sees, LevelSeen, Gap, unsampled_left, Weight, Crowd, Lump, capacity_scaled
      <4> QED BY <1>2, <2>5, <4>1, <4>2
    <3>2. ASSUME NEW t \in Thread, OwnStep(t), Check(t) \/ Running(t) PROVE Afforded(r)'
      <4>1. sample_rate > 1
        BY <1>2, <2>5
      <4> QED BY <1>1, <1>5, <3>2, <4>1, StepAfforded
    <3> QED BY <1>1, <1>2, <2>2, <2>5, <3>1, <3>2, StepOwners
  <2> QED BY <2>4, <2>5
<1> QED BY <1>1, <1>3, <1>4, <1>5 DEF BurstInv

\* "A burst against a full bucket can overshoot capacity by up to about one lump":
\* where requests have one cost, a bucket on which nothing has accrued lets through
\* less than its capacity and a lump for each thread, at any rate, however many threads
\* decide on a level that others are about to charge and whatever the coins say.
THEOREM BurstsOvershootByALump ==
    ASSUME OneCost
    PROVE  Spec => []BurstOvershoot
<1>1. BurstInv => BurstOvershoot
  <2> SUFFICES ASSUME BurstInv, NEW r \in Ref, clock = created[r]
               PROVE  admitted[r] < capacity_scaled + Cardinality(Thread) * Lump
    BY DEF BurstOvershoot
  <2>1. TypeInv
    BY DEF BurstInv, ClaimInv
  <2>2. /\ Numbers(r) /\ capacity_scaled \in Nat /\ Crowd * Lump \in Nat \ {0}
        /\ Cardinality(Thread) = Crowd
    <3>1. Crowd \in Nat \ {0} /\ Lump \in Nat \ {0}
      BY <2>1, OneCostTyped
    <3>2. Crowd * Lump \in Nat \ {0}
      BY <3>1
    <3> QED BY <2>1, <3>2, OneCostTyped, NumbersTyped DEF Crowd
  <2>3. CASE sample_rate = 1
    BY <2>2, <2>3 DEF BurstInv, Numbers
  <2>4. CASE sample_rate # 1 /\ tokens[r] > 0
    <3>1. Solvent(r)
      BY <2>4 DEF BurstInv, Afforded
    <3>2. admitted[r] + Weight * Cardinality(InFlight(r)) < capacity_scaled + Crowd * Lump
      BY <2>1, <2>4, <3>1, SolventIsBounded
    <3> QED BY <2>2, <3>2 DEF Numbers
  <2>5. CASE sample_rate # 1 /\ ~(tokens[r] > 0)
    <3>1. Spent(r)
      BY <2>5 DEF BurstInv, Afforded
    <3> QED BY <2>2, <3>1 DEF Spent, Numbers
  <2> QED BY <2>3, <2>4, <2>5
<1> QED BY <1>1, InitBurstInv, NextBurstInv, PTL DEF Spec
=============================================================================
