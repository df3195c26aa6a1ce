------------------------- MODULE TokenBucketProofs -------------------------
(***************************************************************************)
(* Theorems about TokenBucket, for every set of keys, threads and buckets, *)
(* every capacity, rate, TTL and sharding: its own invariants and action   *)
(* properties, and that it implements TokenLedger.                         *)
(***************************************************************************)
EXTENDS TokenBucketRefinement, TokenBucketBursts, TokenBucketAlone, RefillMathProofs, FiniteSetTheorems

-----------------------------------------------------------------------------
(***************************************************************************)
(* Constants                                                               *)
(***************************************************************************)

\* The constants the buckets are built with.  A bucket can never hold as much
\* as the cost a saturated multiplication is cut to.
LEMMA ConstantsTyped ==
    /\ scaled_capacity \in Nat /\ scaled_capacity < U64_MAX
    /\ rate_scaled \in Nat
<1>1. capacity \in Nat /\ capacity <= MAX_BURST
  BY BucketAssumption DEF capacity, MinOf
<1>2. refill_rate_per_second \in Nat
  BY BucketAssumption DEF refill_rate_per_second, MinOf
<1>3. capacity * SCALE \in Nat /\ 2 * (capacity * SCALE) <= U64_MAX
  <2>1. capacity * SCALE <= MAX_BURST * SCALE
    BY <1>1, MathAssumption, BucketAssumption, KeepFactor
  <2>2. 2 * (MAX_BURST * SCALE) = 2 * SCALE * MAX_BURST
    BY MathAssumption, BucketAssumption
  <2> QED BY <1>1, <2>1, <2>2, MathAssumption, BucketAssumption
<1>4. scaled_capacity \in Nat /\ scaled_capacity < U64_MAX
  BY <1>3, MathAssumption DEF scaled_capacity, saturating_mul, MinOf
<1>5. rate_scaled \in Nat
  BY <1>2, MathAssumption DEF rate_scaled, saturating_mul, MinOf
<1> QED BY <1>4, <1>5

-----------------------------------------------------------------------------
(***************************************************************************)
(* Type correctness                                                        *)
(***************************************************************************)

\* The subtraction in try_consume cannot underflow: what was loaded before the
\* compare-and-swap covers the cost.
DebitCovered ==
    \A t \in Thread : pc[t] = "debit" => loaded[t] >= token_cost(t)

TypeInv == TypeOK /\ DebitCovered

\* A scaled cost is a natural number: saturation keeps it one.
LEMMA CostTyped ==
    ASSUME TypeOK, NEW t \in Thread
    PROVE  /\ token_cost(t) \in Nat
           /\ call[t].cost * SCALE \in Nat
<1>1. call[t].cost \in Nat
  <2>1. call[t].cost \in Cost \cup {0}
    BY DEF TypeOK
  <2>2. \A c \in Cost : c \in Nat
    BY BucketAssumption, MathAssumption DEF u64
  <2> QED BY <2>1, <2>2
<1> QED BY <1>1, MathAssumption DEF token_cost, saturating_mul, MinOf

\* What the proofs about claims need of the types.  Tokens, and what a thread
\* has loaded before its claim, may be negative: here they never are, but where
\* buckets go into debt the same steps claim and credit.
ClockTypes ==
    /\ clock \in 0..MaxTime
    /\ last_refill \in [Ref -> Nat]
    /\ created \in [Ref -> Nat]
    /\ \E Labels : pc \in [Thread -> Labels]
    /\ state \in [Thread -> Ref \cup {NoRef}]
    /\ loaded \in [Thread -> Int]
    /\ \A t \in Thread : call[t].now \in Int
    /\ \A t \in Thread : pc[t] \in {"claim", "credit"} => state[t] \in Ref /\ loaded[t] \in Nat

LEMMA TypesOfClock == TypeOK => ClockTypes
<1> SUFFICES ASSUME TypeOK PROVE ClockTypes
  OBVIOUS
<1>1. \E Labels : pc \in [Thread -> Labels]
  BY DEF TypeOK
<1>2. loaded \in [Thread -> Int] /\ \A t \in Thread : loaded[t] \in Nat
  BY DEF TypeOK
<1>3. \A t \in Thread : call[t].now \in Int
  BY DEF TypeOK
<1>4. \A t \in Thread : pc[t] \in {"claim", "credit"} => state[t] \in Ref
  BY DEF TypeOK, Consuming
<1> QED BY <1>1, <1>2, <1>3, <1>4 DEF TypeOK, ClockTypes

\* What a thread computes in apply_refill are natural numbers.
LEMMA AccruedTyped ==
    ASSUME ClockTypes, NEW t \in Thread
    PROVE  /\ added(t) \in Nat
           /\ claimed(t) \in Nat
           /\ claimed(t) <= saturating_sub(call[t].now, loaded[t])
<1>1. saturating_sub(call[t].now, loaded[t]) \in Nat
  BY DEF ClockTypes, saturating_sub
<1> QED
  BY <1>1, ConstantsTyped, ClaimedWithinElapsed
  DEF added, claimed, accrued_since

\* The initial state has its types.
LEMMA InitTypeInv == Init => TypeInv
<1> SUFFICES ASSUME Init PROVE TypeInv
  OBVIOUS
<1>1. NoCall \in [key : Key, cost : Cost \cup {0}, now : Nat]
  BY BucketAssumption DEF NoCall
<1>2. NoSweep \in SweepState
  BY BucketAssumption DEF NoSweep, SweepState
<1>3. 0 \in 0..MaxTime
  BY BucketAssumption, MathAssumption DEF u64
<1>4. TypeOK
  BY <1>1, <1>2, <1>3, BucketAssumption DEF Init, TypeOK, Steps, Consuming
<1>5. DebitCovered
  BY DEF Init, DebitCovered
<1> QED BY <1>4, <1>5 DEF TypeInv

\* Every step keeps them.
LEMMA NextTypeInv == TypeInv /\ [Next]_vars => TypeInv'
<1> SUFFICES ASSUME TypeInv, [Next]_vars PROVE TypeInv'
  OBVIOUS
<1> USE DEF TypeInv
<1>1. CASE UNCHANGED vars
  BY <1>1 DEF vars, shared, history, TypeOK, DebitCovered, token_cost
<1>2. CASE Tick
  BY <1>2, BucketAssumption
  DEF Tick, shared, history, TypeOK, DebitCovered, token_cost, u64
<1>3. ASSUME NEW t \in Thread, NEW k \in Key, NEW c \in Cost, NEW step \in {"sweep", "lookup"},
             Begin(t, k, c, step), sweep' \in [Thread -> SweepState]
      PROVE  TypeInv'
  BY <1>3, BucketAssumption
  DEF Begin, Goto, shared, history, TypeOK, DebitCovered, token_cost, Steps, Consuming
<1>4. ASSUME NEW t \in Thread, Calling(t) PROVE TypeInv'
  <2>1. CASE Check(t)
    BY <2>1, <1>3 DEF Check, TypeOK
  <2>2. CASE CheckAndSweep(t)
    <3>1. sweep' \in [Thread -> SweepState]
      BY <2>2, BucketAssumption DEF CheckAndSweep, TypeOK, NoSweep, KeysOfShard, SweepState
    <3> QED BY <2>2, <3>1, <1>3 DEF CheckAndSweep
  <2> QED BY <1>4, <2>1, <2>2 DEF Calling
<1>5. ASSUME NEW t \in Thread, CleanupIdle(t) PROVE TypeInv'
  <2>1. sweep' \in [Thread -> SweepState]
    <3>1. sweep[t] \in SweepState /\ sweep \in [Thread -> SweepState]
      BY DEF TypeOK
    <3>2. CASE ScanEntry(t)
      <4>1. PICK k \in sweep[t].unseen :
              sweep' = [sweep EXCEPT
                          ![t].unseen = @ \ {k},
                          ![t].keys_to_remove = IF IsExpired(t, k) THEN @ \cup {k} ELSE @]
        BY <3>2 DEF ScanEntry
      <4>2. k \in Key
        BY <3>1 DEF SweepState
      <4> QED BY <3>1, <4>1, <4>2 DEF SweepState
    <3>3. CASE RemoveExpired(t)
      BY <3>1, <3>3 DEF RemoveExpired, SweepState
    <3>4. CASE NextShard(t)
      BY <3>1, <3>4, BucketAssumption DEF NextShard, NoSweep, KeysOfShard, SweepState
    <3> QED BY <1>5, <3>2, <3>3, <3>4 DEF CleanupIdle
  <2>2. /\ shards' \in [Key -> Ref \cup {NoRef}]
        /\ \/ pc' = pc
           \/ pc' = [pc EXCEPT ![t] = "lookup"] /\ pc[t] = "sweep"
        /\ UNCHANGED <<clock, tokens, last_refill, last_access, call, state,
                       loaded, history>>
    BY <1>5
    DEF CleanupIdle, ScanEntry, RemoveExpired, NextShard, Goto, shared, TypeOK
  <2> QED
    BY <2>1, <2>2 DEF history, TypeOK, DebitCovered, token_cost, Steps, Consuming
<1>6. ASSUME NEW t \in Thread, FindBucket(t) PROVE TypeInv'
  <2>1. CASE Lookup(t)
    BY <2>1, BucketAssumption
    DEF Lookup, Goto, shared, history, TypeOK, DebitCovered, token_cost, Steps, Consuming
  <2>2. CASE Insert(t)
    BY <2>2, BucketAssumption, ConstantsTyped
    DEF Insert, Goto, Free, TypeOK, DebitCovered, token_cost, Steps, Consuming
  <2>3. CASE AlreadyInserted(t)
    BY <2>3, BucketAssumption
    DEF AlreadyInserted, Goto, shared, history, TypeOK, DebitCovered, token_cost,
        Steps, Consuming
  <2> QED BY <1>6, <2>1, <2>2, <2>3 DEF FindBucket
<1>7. ASSUME NEW t \in Thread, TryConsume(t) PROVE TypeInv'
  <2> USE DEF Goto, shared, history, TypeOK, DebitCovered, token_cost, Steps, Consuming
  <2>1. CASE Touch(t)
    BY <2>1 DEF Touch
  <2>2. CASE NothingAccrued(t)
    BY <2>2 DEF NothingAccrued
  <2>3. CASE LoadRefill(t)
    BY <2>3 DEF LoadRefill
  <2>4. CASE Claim(t)
    <3>1. saturating_add(loaded[t], claimed(t)) \in Nat
      BY TypesOfClock, AccruedTyped, MathAssumption DEF saturating_add, MinOf
    <3> QED BY <2>4, <3>1 DEF Claim
  <2>5. CASE ClaimFails(t)
    BY <2>5 DEF ClaimFails
  <2>6. CASE Credit(t)
    <3>1. added(t) \in Nat
      BY TypesOfClock, AccruedTyped
    <3>2. \A x \in Nat : MinOf(saturating_add(x, added(t)), scaled_capacity) \in Nat
      BY <3>1, ConstantsTyped, MathAssumption DEF saturating_add, MinOf
    <3> QED BY <2>6, <3>2 DEF Credit
  <2>7. CASE LoadTokens(t)
    BY <2>7 DEF LoadTokens
  <2>8. CASE Deny(t)
    BY <2>8, BucketAssumption DEF Deny, Return, NoCall
  <2>9. CASE Debit(t)
    <3>1. /\ loaded[t] - token_cost(t) \in Nat
          /\ call[t].cost * SCALE \in Nat
      BY <2>9, CostTyped DEF Debit
    <3> QED BY <2>9, <3>1, BucketAssumption DEF Debit, Return, NoCall
  <2>10. CASE DebitFails(t)
    BY <2>10 DEF DebitFails
  <2> QED
    BY <1>7, <2>1, <2>2, <2>3, <2>4, <2>5, <2>6, <2>7, <2>8, <2>9, <2>10
    DEF TryConsume, Claiming, Deciding
<1> QED
  BY <1>1, <1>2, <1>4, <1>5, <1>6, <1>7 DEF Next, Running

\* Every variable keeps its type, and the subtraction in try_consume never
\* underflows.
THEOREM TypeCorrect == Spec => []TypeOK
<1>1. Init => TypeInv
  BY InitTypeInv
<1>2. TypeInv /\ [Next]_vars => TypeInv'
  BY NextTypeInv
<1>3. TypeInv => TypeOK
  BY DEF TypeInv
<1> QED BY <1>1, <1>2, <1>3, PTL DEF Spec

-----------------------------------------------------------------------------
(***************************************************************************)
(* No nanosecond is credited twice, at any rate.                           *)
(***************************************************************************)

\* No call has read the clock in the future, and each bucket's timestamp lies
\* between its creation and the clock.
Timeline ==
    /\ \A t \in Thread : call[t].now <= clock
    /\ \A r \in Ref : created[r] <= last_refill[r] /\ last_refill[r] <= clock

ClockInv == ClockTypes /\ Timeline /\ NoDoubleCredit

ClaimInv == TypeInv /\ Timeline /\ NoDoubleCredit

LEMMA ClaimInvIsClockInv == ClaimInv => ClockInv /\ ClockTypes
  BY TypesOfClock DEF ClaimInv, TypeInv, ClockInv

LEMMA NextTypesOfClock == TypeOK' => ClockTypes'
  BY TypesOfClock, PTL

\* A step that is neither an insertion, a claim nor a credit leaves alone the
\* timestamps, and whatever is claimed and not yet credited.
Still ==
    /\ UNCHANGED <<last_refill, created>>
    /\ \A t \in Thread : pc'[t] = "credit" <=> pc[t] = "credit"
    /\ \A t \in Thread : pc[t] = "credit" =>
          /\ state'[t] = state[t]
          /\ loaded'[t] = loaded[t]
          /\ call'[t] = call[t]

\* The three steps that move timestamps or claims.
Moves(t) == Insert(t) \/ Claim(t) \/ Credit(t)

ClockStep == Still \/ \E t \in Thread : Moves(t)

\* Every step leaves buckets and claims alone, or is one of the four that move
\* tokens, timestamps or claims.
LEMMA StepKinds ==
    ASSUME TypeInv, [Next]_vars
    PROVE  \/ Still /\ UNCHANGED <<tokens, granted>>
           \/ \E t \in Thread : \/ Debit(t) /\ Still
                               \/ Insert(t)
                               \/ Claim(t)
                               \/ Credit(t)
<1> USE DEF TypeInv, TypeOK, Still, shared, history, Goto
<1>1. CASE UNCHANGED vars
  BY <1>1 DEF vars
<1>2. CASE Tick
  BY <1>2 DEF Tick
<1>3. ASSUME NEW t \in Thread, Calling(t)
      PROVE  Still /\ UNCHANGED <<tokens, granted>>
  BY <1>3 DEF Calling, Check, CheckAndSweep, Begin
<1>4. ASSUME NEW t \in Thread, CleanupIdle(t)
      PROVE  Still /\ UNCHANGED <<tokens, granted>>
  BY <1>4 DEF CleanupIdle, ScanEntry, RemoveExpired, NextShard
<1>5. ASSUME NEW t \in Thread, Lookup(t) \/ AlreadyInserted(t) \/ Touch(t)
      PROVE  Still /\ UNCHANGED <<tokens, granted>>
  BY <1>5 DEF Lookup, AlreadyInserted, Touch
<1>6. ASSUME NEW t \in Thread, NothingAccrued(t) \/ LoadRefill(t) \/ ClaimFails(t)
      PROVE  Still /\ UNCHANGED <<tokens, granted>>
  BY <1>6 DEF NothingAccrued, LoadRefill, ClaimFails
<1>7. ASSUME NEW t \in Thread, LoadTokens(t) \/ Deny(t) \/ DebitFails(t)
      PROVE  Still /\ UNCHANGED <<tokens, granted>>
  BY <1>7 DEF LoadTokens, Deny, DebitFails, Return
<1>8. ASSUME NEW t \in Thread, Debit(t)
      PROVE  Still
  BY <1>8 DEF Debit, Return
<1> QED
  BY <1>1, <1>2, <1>3, <1>4, <1>5, <1>6, <1>7, <1>8
  DEF Next, Running, FindBucket, TryConsume, Claiming, Deciding

LEMMA EveryStepIsClockStep == TypeInv /\ [Next]_vars => ClockStep
  BY StepKinds DEF ClockStep, Moves

\* What a thread has claimed depends on its locals only.
LEMMA IntervalKept ==
    ASSUME NEW t \in Thread, loaded'[t] = loaded[t], call'[t] = call[t]
    PROVE  Interval(t)' = Interval(t) /\ claimed(t)' = claimed(t)
  BY DEF Interval, claimed, added, accrued_since

\* Nothing is claimed initially.
LEMMA InitClaimInv == Init => ClaimInv
<1> SUFFICES ASSUME Init PROVE ClaimInv
  OBVIOUS
<1>1. TypeInv
  BY InitTypeInv
<1>2. Timeline
  BY DEF Init, Timeline, NoCall
<1>3. NoDoubleCredit
  BY DEF Init, NoDoubleCredit
<1> QED BY <1>1, <1>2, <1>3 DEF ClaimInv

\* Such a step keeps the bucket timestamps in order: none before its creation or
\* after the clock.
LEMMA NextStamps ==
    ASSUME ClockInv, ClockTypes', clock <= clock', ClockStep
    PROVE  \A r \in Ref : created'[r] <= last_refill'[r] /\ last_refill'[r] <= clock'
<1> USE DEF ClockInv, ClockTypes
<1>1. clock \in Nat /\ clock' \in Nat /\ clock <= U64_MAX
  BY BucketAssumption, MathAssumption DEF u64
<1>2. CASE Still
  BY <1>1, <1>2 DEF Still, Timeline
<1>3. ASSUME NEW t \in Thread, Insert(t)
      PROVE  \A r \in Ref : created'[r] <= last_refill'[r] /\ last_refill'[r] <= clock'
  BY <1>1, <1>3 DEF Insert, Timeline
<1>4. ASSUME NEW t \in Thread, Claim(t)
      PROVE  \A r \in Ref : created'[r] <= last_refill'[r] /\ last_refill'[r] <= clock'
  <2>1. /\ claimed(t) \in Nat
        /\ claimed(t) <= saturating_sub(call[t].now, loaded[t])
    BY AccruedTyped
  <2>2. call[t].now <= clock /\ loaded[t] <= clock /\ state[t] \in Ref
    BY <1>4 DEF Claim, Timeline
  <2>3. loaded[t] \in Nat /\ call[t].now \in Int /\ U64_MAX \in Nat
    BY <1>4, MathAssumption DEF Claim
  <2>4. /\ saturating_add(loaded[t], claimed(t)) = loaded[t] + claimed(t)
        /\ loaded[t] + claimed(t) <= clock
    <3> HIDE DEF ClockInv, ClockTypes
    <3> QED BY <1>1, <2>1, <2>2, <2>3, ClaimStaysInThePast
  <2> QED BY <1>1, <1>4, <2>1, <2>3, <2>4 DEF Claim, Timeline, history
<1>5. ASSUME NEW t \in Thread, Credit(t)
      PROVE  \A r \in Ref : created'[r] <= last_refill'[r] /\ last_refill'[r] <= clock'
  BY <1>1, <1>5 DEF Credit, Timeline, history
<1> QED BY <1>2, <1>3, <1>4, <1>5 DEF ClockStep, Moves

\* Every step keeps the calls and the buckets behind the clock.
LEMMA NextTimeline ==
    ASSUME ClaimInv, [Next]_vars
    PROVE  Timeline'
<1> USE DEF ClaimInv, TypeInv
<1>1. TypeOK'
  BY NextTypeInv
<1>0. clock \in Nat /\ clock' \in Nat /\ clock <= U64_MAX
  BY <1>1, BucketAssumption, MathAssumption DEF u64, TypeOK
<1>2. clock' >= clock /\ \A t \in Thread : call'[t].now <= clock'
  <2> USE DEF TypeOK
  <2>1. CASE UNCHANGED vars
    BY <2>1 DEF vars, Timeline
  <2>2. CASE Tick
    BY <2>2 DEF Tick, Timeline
  <2>3. ASSUME NEW t \in Thread, Calling(t)
        PROVE  clock' = clock /\ \E c \in [key : Key, cost : Cost, now : {clock}] :
                                   call' = [call EXCEPT ![t] = c]
    BY <2>3 DEF Calling, Check, CheckAndSweep, Begin
  <2>4. ASSUME NEW t \in Thread, Running(t)
        PROVE  clock' = clock /\ (call' = call \/ call' = [call EXCEPT ![t] = NoCall])
    BY <2>4
    DEF Running, CleanupIdle, ScanEntry, RemoveExpired, NextShard, FindBucket,
        Lookup, Insert, AlreadyInserted, TryConsume, Touch, Claiming,
        NothingAccrued, LoadRefill, Claim, ClaimFails, Credit, Deciding,
        LoadTokens, Deny, Debit, DebitFails, Return
  <2>5. ASSUME NEW t \in Thread, Calling(t)
        PROVE  clock' = clock /\ \A u \in Thread : call'[u].now <= clock
    BY <1>0, <2>3, <2>5 DEF Timeline
  <2>6. ASSUME NEW t \in Thread, Running(t)
        PROVE  clock' = clock /\ \A u \in Thread : call'[u].now <= clock
    <3>1. NoCall.now = 0
      BY DEF NoCall
    <3>2. CASE call' = [call EXCEPT ![t] = NoCall]
      BY <1>0, <2>4, <2>6, <3>1, <3>2 DEF Timeline
    <3> QED BY <2>4, <2>6, <3>2 DEF Timeline
  <2> QED BY <1>0, <2>1, <2>2, <2>5, <2>6 DEF Next
<1>3. ClockInv /\ ClockTypes' /\ ClockStep
  <2>1. ClockTypes'
    BY <1>1, NextTypesOfClock
  <2> QED BY <2>1, ClaimInvIsClockInv, EveryStepIsClockStep
<1> QED BY <1>0, <1>2, <1>3, NextStamps DEF Timeline

\* A step that moves no timestamp and no claim disturbs no claim.
LEMMA StillNoDoubleCredit ==
    ASSUME ClockInv, Timeline', Still
    PROVE  NoDoubleCredit'
<1> SUFFICES ASSUME NEW t \in Thread, pc'[t] = "credit"
             PROVE  /\ Interval(t)' \subseteq created'[state'[t]] + 1 .. last_refill'[state'[t]]
                    /\ last_refill'[state'[t]] <= clock'
                    /\ \A u \in (Crediting(state[t]) \ {t})' : Interval(t)' \cap Interval(u)' = {}
  BY DEF NoDoubleCredit
<1>1. pc[t] = "credit" /\ state'[t] = state[t] /\ state[t] \in Ref
  BY DEF Still, ClockInv, ClockTypes
<1>2. Interval(t)' = Interval(t)
  BY <1>1, IntervalKept DEF Still
<1>3. ASSUME NEW u \in (Crediting(state[t]) \ {t})'
      PROVE  u \in Crediting(state[t]) \ {t} /\ Interval(u)' = Interval(u)
  <2>1. u \in Thread /\ pc'[u] = "credit" /\ state'[u] = state'[t] /\ u # t
    BY <1>3 DEF Crediting
  <2>2. pc[u] = "credit" /\ state[u] = state[t]
    BY <1>1, <2>1 DEF Still
  <2>3. Interval(u)' = Interval(u)
    BY <2>1, <2>2, IntervalKept DEF Still
  <2> QED BY <2>1, <2>2, <2>3 DEF Crediting
<1>4. last_refill' = last_refill /\ created' = created
  BY DEF Still
<1> QED BY <1>1, <1>2, <1>3, <1>4 DEF ClockInv, NoDoubleCredit, Timeline

\* The bucket a call inserts is one that nobody else can reach.
LEMMA InsertedIsNew ==
    ASSUME NEW r \in Free
    PROVE  r \in Ref /\ Crediting(r) = {}
  BY DEF Free, Crediting

\* Such a step keeps the claims disjoint: Claim appends an interval after all
\* others, Insert starts a bucket without any, Credit gives one up.
LEMMA NextNoDoubleCredit ==
    ASSUME ClockInv, ClockTypes', Timeline', ClockStep
    PROVE  NoDoubleCredit'
<1>1. Timeline'
  OBVIOUS
<1>2. ClockTypes /\ ClockTypes' /\ Timeline /\ NoDoubleCredit
  BY DEF ClockInv
<1>3. CASE Still
  BY <1>1, <1>3, StillNoDoubleCredit
<1>4. ASSUME NEW t \in Thread, Insert(t) PROVE NoDoubleCredit'
  <2>1. PICK r \in Free :
          /\ last_refill' = [last_refill EXCEPT ![r] = call[t].now]
          /\ created' = [created EXCEPT ![r] = call[t].now]
          /\ state' = [state EXCEPT ![t] = r]
    BY <1>4 DEF Insert
  <2>2. Crediting(r) = {} /\ r \in Ref /\ pc[t] = "insert"
    BY <1>4, InsertedIsNew DEF Insert
  <2>3. pc' = [pc EXCEPT ![t] = "touch"] /\ UNCHANGED <<clock, call, loaded>>
    BY <1>4 DEF Insert, Goto
  <2>4. ASSUME NEW u \in Thread, pc'[u] = "credit"
        PROVE  /\ u # t /\ pc[u] = "credit" /\ state'[u] = state[u]
               /\ state[u] \in Ref /\ state[u] # r
               /\ Interval(u)' = Interval(u)
    <3>1. u # t /\ pc[u] = "credit" /\ state'[u] = state[u]
      BY <1>2, <2>1, <2>3, <2>4 DEF ClockTypes
    <3>2. state[u] \in Ref /\ state[u] # r
      BY <1>2, <2>2, <3>1 DEF ClockTypes, Crediting
    <3>3. Interval(u)' = Interval(u)
      BY <2>3, IntervalKept
    <3> QED BY <3>1, <3>2, <3>3
  <2>5. ASSUME NEW u \in Thread, pc'[u] = "credit"
        PROVE  /\ last_refill'[state'[u]] = last_refill[state[u]]
               /\ created'[state'[u]] = created[state[u]]
    BY <1>2, <2>1, <2>4, <2>5 DEF ClockTypes
  <2>6. ASSUME NEW u \in Thread, pc'[u] = "credit",
               NEW v \in (Crediting(state[u]) \ {u})'
        PROVE  v \in Crediting(state[u]) \ {u} /\ Interval(v)' = Interval(v)
    BY <2>4, <2>6 DEF Crediting
  <2> QED
    BY <1>2, <2>3, <2>4, <2>5, <2>6 DEF NoDoubleCredit
<1>5. ASSUME NEW t \in Thread, Claim(t) PROVE NoDoubleCredit'
  <2> DEFINE r == state[t]
  <2>1. /\ r \in Ref /\ pc[t] = "claim" /\ last_refill[r] = loaded[t]
        /\ last_refill[r] \in Nat /\ created[r] \in Nat
        /\ created[r] <= last_refill[r]
    BY <1>2, <1>5 DEF Claim, ClockTypes, Timeline
  <2>2. /\ last_refill' = [last_refill EXCEPT ![r] = loaded[t] + claimed(t)]
        /\ claimed(t) \in Nat
    <3>1. /\ claimed(t) \in Nat
          /\ claimed(t) <= saturating_sub(call[t].now, loaded[t])
      BY <1>2, AccruedTyped
    <3>2. /\ call[t].now \in Int /\ call[t].now <= clock
          /\ loaded[t] \in Nat /\ loaded[t] <= clock
      BY <1>2, <2>1 DEF ClockTypes, Timeline
    <3>3. clock \in Nat /\ clock <= U64_MAX
      BY <1>2, BucketAssumption, MathAssumption DEF ClockTypes, u64
    <3>4. saturating_add(loaded[t], claimed(t)) = loaded[t] + claimed(t)
      BY <3>1, <3>2, <3>3, ClaimStaysInThePast
    <3> QED BY <1>5, <3>1, <3>4 DEF Claim
  <2>3. /\ pc' = [pc EXCEPT ![t] = "credit"]
        /\ UNCHANGED <<clock, call, loaded, state, created>>
    BY <1>5 DEF Claim, Goto, history
  <2>4. \A u \in Thread : Interval(u)' = Interval(u)
    BY <2>3, IntervalKept
  <2>5. Interval(t) = last_refill[r] + 1 .. last_refill'[r]
    BY <1>2, <2>1, <2>2 DEF Interval, ClockTypes
  <2>6. ASSUME NEW u \in Thread, u # t, pc'[u] = "credit"
        PROVE  /\ pc[u] = "credit" /\ state[u] \in Ref
               /\ Interval(u) \subseteq created[state[u]] + 1 .. last_refill[state[u]]
    BY <1>2, <2>3, <2>6 DEF ClockTypes, NoDoubleCredit
  <2>7. ASSUME NEW u \in Thread, pc'[u] = "credit"
        PROVE  Interval(u) \subseteq created[state[u]] + 1 .. last_refill'[state[u]]
    <3>1. CASE u = t
      <4>1. last_refill'[r] \in Nat
        BY <1>2, <2>1 DEF ClockTypes
      <4>2. Interval(t) \subseteq created[r] + 1 .. last_refill'[r]
        BY <2>1, <2>5, <4>1
      <4> QED BY <3>1, <4>2
    <3>2. CASE u # t
      <4>1. last_refill[state[u]] <= last_refill'[state[u]]
        BY <1>2, <2>1, <2>2, <2>6, <2>7, <3>2 DEF ClockTypes
      <4>2. /\ last_refill[state[u]] \in Nat /\ last_refill'[state[u]] \in Nat
            /\ created[state[u]] \in Nat
        BY <1>2, <2>6, <2>7, <3>2 DEF ClockTypes
      <4> QED BY <2>6, <2>7, <3>2, <4>1, <4>2
    <3> QED BY <3>1, <3>2
  <2>8. ASSUME NEW u \in Thread, u # t, pc'[u] = "credit", state[u] = r
        PROVE  Interval(t) \cap Interval(u) = {}
    BY <2>1, <2>2, <2>5, <2>6, <2>8
  <2>9. ASSUME NEW u \in Thread, NEW v \in Thread, u # v,
               pc'[u] = "credit", pc'[v] = "credit", state[u] = state[v]
        PROVE  Interval(u) \cap Interval(v) = {}
    <3>1. CASE u = t
      BY <2>8, <2>9, <3>1
    <3>2. CASE v = t
      BY <2>8, <2>9, <3>2
    <3>3. CASE u # t /\ v # t
      BY <1>2, <2>6, <2>9, <3>3 DEF NoDoubleCredit, Crediting
    <3> QED BY <3>1, <3>2, <3>3
  <2>10. ASSUME NEW u \in Thread, pc'[u] = "credit"
         PROVE  last_refill'[state[u]] <= clock'
    <3>1. state[u] \in Ref
      BY <2>1, <2>6, <2>10
    <3> QED BY <1>1, <3>1 DEF Timeline
  <2> QED
    BY <2>3, <2>4, <2>7, <2>9, <2>10 DEF NoDoubleCredit, Crediting
<1>6. ASSUME NEW t \in Thread, Credit(t) PROVE NoDoubleCredit'
  <2>1. /\ pc' = [pc EXCEPT ![t] = "load_tokens"]
        /\ loaded' = [loaded EXCEPT ![t] = 0]
        /\ UNCHANGED <<clock, call, state, last_refill, created>>
    BY <1>6 DEF Credit, Goto, history
  <2>2. ASSUME NEW u \in Thread, pc'[u] = "credit"
        PROVE  u # t /\ pc[u] = "credit" /\ Interval(u)' = Interval(u)
    <3>1. u # t /\ pc[u] = "credit" /\ loaded'[u] = loaded[u]
      BY <1>2, <2>1, <2>2 DEF ClockTypes
    <3> QED BY <2>1, <3>1, IntervalKept
  <2> QED
    BY <1>2, <2>1, <2>2 DEF NoDoubleCredit, Crediting
<1> QED
  BY <1>3, <1>4, <1>5, <1>6 DEF ClockStep, Moves

\* The conjuncts of ClaimInv together.
LEMMA NextClaimInv == ClaimInv /\ [Next]_vars => ClaimInv'
<1> SUFFICES ASSUME ClaimInv, [Next]_vars PROVE ClaimInv'
  OBVIOUS
<1>1. TypeInv' /\ Timeline'
  BY NextTypeInv, NextTimeline DEF ClaimInv
<1>2. ClockInv /\ ClockTypes' /\ ClockStep
  BY <1>1, ClaimInvIsClockInv, EveryStepIsClockStep, NextTypesOfClock DEF ClaimInv, TypeInv
<1> QED BY <1>1, <1>2, NextNoDoubleCredit DEF ClaimInv

\* "Two threads cannot both credit the same nanos": the intervals that threads
\* have claimed from one bucket never overlap, at any rate.
THEOREM NoDoubleCreditEver == Spec => []NoDoubleCredit
<1>1. Init => ClaimInv
  BY InitClaimInv
<1>2. ClaimInv /\ [Next]_vars => ClaimInv'
  BY NextClaimInv
<1>3. ClaimInv => NoDoubleCredit
  BY DEF ClaimInv
<1> QED BY <1>1, <1>2, <1>3, PTL DEF Spec

-----------------------------------------------------------------------------
(***************************************************************************)
(* The ledger, and the budget it bounds, at an exact rate                  *)
(***************************************************************************)

LedgerInv == ClaimInv /\ Ledger

\* What is claimed and not yet credited is a finite set of nanoseconds.
LEMMA OutstandingFinite ==
    ASSUME ClockInv, NEW r \in Ref
    PROVE  /\ Outstanding(r) \subseteq created[r] + 1 .. last_refill[r]
           /\ IsFiniteSet(Outstanding(r))
           /\ Cardinality(Outstanding(r)) \in Nat
<1>1. Outstanding(r) \subseteq created[r] + 1 .. last_refill[r]
  BY DEF Outstanding, Crediting, ClockInv, NoDoubleCredit
<1>2. created[r] + 1 \in Int /\ last_refill[r] \in Int
  BY DEF ClockInv, ClockTypes
<1>3. IsFiniteSet(Outstanding(r))
  BY <1>1, <1>2, FS_Interval, FS_Subset
<1> QED BY <1>1, <1>3, FS_CardinalityType

\* It changes only with the threads that credit and what they have claimed.
LEMMA OutstandingKept ==
    ASSUME NEW r \in Ref, Crediting(r)' = Crediting(r),
           \A t \in Crediting(r) : Interval(t)' = Interval(t)
    PROVE  Outstanding(r)' = Outstanding(r)
  BY DEF Outstanding

\* A claim of n nanoseconds is n nanoseconds long.
LEMMA IntervalLength ==
    ASSUME ClockTypes, NEW t \in Thread
    PROVE  /\ IsFiniteSet(Interval(t))
           /\ Cardinality(Interval(t)) = claimed(t)
<1>1. loaded[t] \in Int /\ claimed(t) \in Nat
  BY AccruedTyped DEF ClockTypes
<1>2. loaded[t] + 1 \in Int /\ loaded[t] + claimed(t) \in Int
  BY <1>1
<1>3. (IF loaded[t] + 1 > loaded[t] + claimed(t)
       THEN 0 ELSE (loaded[t] + claimed(t)) - (loaded[t] + 1) + 1) = claimed(t)
  BY <1>1
<1>4. /\ IsFiniteSet(Interval(t))
      /\ Cardinality(Interval(t)) =
            IF loaded[t] + 1 > loaded[t] + claimed(t)
            THEN 0 ELSE (loaded[t] + claimed(t)) - (loaded[t] + 1) + 1
  BY <1>2, FS_Interval DEF Interval
<1> QED BY <1>3, <1>4

\* The cardinality of a disjoint union is the sum.
LEMMA DisjointUnion ==
    ASSUME NEW S, NEW T, IsFiniteSet(S), IsFiniteSet(T), S \cap T = {}
    PROVE  Cardinality(S \cup T) = Cardinality(S) + Cardinality(T)
<1>1. Cardinality(S) \in Nat /\ Cardinality(T) \in Nat
  BY FS_CardinalityType
<1>2. Cardinality(S \cap T) = 0
  BY FS_EmptySet
<1>3. Cardinality(S \cup T) = Cardinality(S) + Cardinality(T) - Cardinality(S \cap T)
  BY FS_Union
<1> QED BY <1>1, <1>2, <1>3

\* What is claimed and not yet credited, after each kind of step.
LEMMA StillOutstanding ==
    ASSUME Still, NEW r \in Ref
    PROVE  Outstanding(r)' = Outstanding(r)
<1>1. Crediting(r)' = Crediting(r)
  BY DEF Still, Crediting
<1>2. ASSUME NEW t \in Crediting(r) PROVE Interval(t)' = Interval(t)
  BY <1>2, IntervalKept DEF Still, Crediting
<1> QED BY <1>1, <1>2, OutstandingKept

\* An insertion takes a bucket that nobody claims from, and claims nothing.
LEMMA InsertOutstanding ==
    ASSUME ClockTypes, NEW t \in Thread, Insert(t), NEW q \in Free,
           state' = [state EXCEPT ![t] = q], NEW r \in Ref
    PROVE  Outstanding(r)' = Outstanding(r) /\ Outstanding(q) = {}
<1>1. Crediting(q) = {} /\ q \in Ref /\ pc[t] = "insert"
  BY InsertedIsNew DEF Insert
<1>2. pc' = [pc EXCEPT ![t] = "touch"] /\ UNCHANGED <<clock, call, loaded>>
  BY DEF Insert, Goto
<1>3. Crediting(r)' = Crediting(r)
  BY <1>1, <1>2 DEF Crediting, ClockTypes
<1>4. \A u \in Crediting(r) : Interval(u)' = Interval(u)
  BY <1>2, IntervalKept DEF Crediting
<1>5. Outstanding(r)' = Outstanding(r)
  BY <1>3, <1>4, OutstandingKept
<1> QED BY <1>1, <1>5 DEF Outstanding

\* A claim moves the timestamp by as many nanoseconds as it adds to those that
\* are still to be credited.
LEMMA ClaimMoves ==
    ASSUME ClockInv, NEW t \in Thread, Claim(t)
    PROVE  /\ state[t] \in Ref /\ claimed(t) \in Nat
           /\ last_refill' = [last_refill EXCEPT ![state[t]] = @ + claimed(t)]
           /\ \A r \in Ref : Cardinality(Outstanding(r)') =
                 Cardinality(Outstanding(r)) + (IF r = state[t] THEN claimed(t) ELSE 0)
<1> SUFFICES ASSUME NEW r \in Ref, r = state[t]
             PROVE  /\ claimed(t) \in Nat
                    /\ last_refill' = [last_refill EXCEPT ![r] = @ + claimed(t)]
                    /\ Cardinality(Outstanding(r)') = Cardinality(Outstanding(r)) + claimed(t)
                    /\ \A q \in Ref \ {r} : Outstanding(q)' = Outstanding(q)
  <2>1. state[t] \in Ref
    BY DEF ClockInv, ClockTypes, Claim
  <2>2. \A q \in Ref : Cardinality(Outstanding(q)) \in Nat
    BY OutstandingFinite
  <2> QED BY <2>1, <2>2
<1>1. ClockTypes /\ Timeline /\ NoDoubleCredit
  BY DEF ClockInv
<1>2. /\ r \in Ref /\ pc[t] = "claim"
      /\ last_refill[r] = loaded[t] /\ loaded[t] \in Nat /\ loaded[t] <= clock
      /\ pc' = [pc EXCEPT ![t] = "credit"]
      /\ UNCHANGED <<clock, call, loaded, state>>
  BY <1>1 DEF Claim, Goto, ClockTypes, Timeline
<1>3. /\ last_refill' = [last_refill EXCEPT ![r] = loaded[t] + claimed(t)]
      /\ claimed(t) \in Nat
  <2>1. claimed(t) \in Nat /\ claimed(t) <= saturating_sub(call[t].now, loaded[t])
    BY <1>1, AccruedTyped
  <2>2. call[t].now \in Int /\ call[t].now <= clock
    BY <1>1 DEF ClockTypes, Timeline
  <2>3. clock \in Nat /\ clock <= U64_MAX
    BY <1>1, BucketAssumption, MathAssumption DEF ClockTypes, u64
  <2>4. saturating_add(loaded[t], claimed(t)) = loaded[t] + claimed(t)
    BY <1>2, <2>1, <2>2, <2>3, ClaimStaysInThePast
  <2> QED BY <2>1, <2>4 DEF Claim
<1>4. \A u \in Thread : Interval(u)' = Interval(u)
  BY <1>2, IntervalKept
<1>5. Outstanding(r)' = Outstanding(r) \cup Interval(t)
  <2>1. Crediting(r)' = Crediting(r) \cup {t}
    BY <1>1, <1>2 DEF Crediting, ClockTypes
  <2> QED BY <1>4, <2>1 DEF Outstanding, Crediting
<1>6. Outstanding(r) \cap Interval(t) = {}
  <2>1. Outstanding(r) \subseteq created[r] + 1 .. last_refill[r]
    BY <1>2, OutstandingFinite
  <2>2. Interval(t) = last_refill[r] + 1 .. last_refill[r] + claimed(t)
    BY <1>2 DEF Interval
  <2>3. created[r] \in Nat
    BY <1>1, <1>2 DEF ClockTypes
  <2> QED BY <1>2, <1>3, <2>1, <2>2, <2>3
<1>7. Cardinality(Outstanding(r)') = Cardinality(Outstanding(r)) + claimed(t)
  <2>1. IsFiniteSet(Outstanding(r)) /\ IsFiniteSet(Interval(t))
    BY <1>1, <1>2, OutstandingFinite, IntervalLength
  <2>2. Cardinality(Interval(t)) = claimed(t)
    BY <1>1, IntervalLength
  <2> QED BY <1>5, <1>6, <2>1, <2>2, DisjointUnion
<1>8. ASSUME NEW q \in Ref \ {r} PROVE Outstanding(q)' = Outstanding(q)
  <2>1. Crediting(q)' = Crediting(q)
    BY <1>1, <1>2 DEF Crediting, ClockTypes
  <2> QED BY <1>4, <2>1, OutstandingKept DEF Crediting
<1> QED BY <1>1, <1>2, <1>3, <1>7, <1>8 DEF ClockTypes

\* A credit gives up the nanoseconds it stands for.
LEMMA CreditMoves ==
    ASSUME ClockInv, NEW t \in Thread, Credit(t)
    PROVE  /\ state[t] \in Ref /\ claimed(t) \in Nat
           /\ claimed(t) <= Cardinality(Outstanding(state[t]))
           /\ \A r \in Ref : Cardinality(Outstanding(r)') =
                 Cardinality(Outstanding(r)) - (IF r = state[t] THEN claimed(t) ELSE 0)
<1> SUFFICES ASSUME NEW r \in Ref, r = state[t]
             PROVE  /\ claimed(t) \in Nat /\ claimed(t) <= Cardinality(Outstanding(r))
                    /\ Cardinality(Outstanding(r)') = Cardinality(Outstanding(r)) - claimed(t)
                    /\ \A q \in Ref \ {r} : Outstanding(q)' = Outstanding(q)
  <2>1. state[t] \in Ref
    BY DEF ClockInv, ClockTypes, Credit
  <2>2. \A q \in Ref : Cardinality(Outstanding(q)) \in Nat
    BY OutstandingFinite
  <2> QED BY <2>1, <2>2
<1>1. ClockTypes /\ NoDoubleCredit
  BY DEF ClockInv
<1>2. /\ r \in Ref /\ pc[t] = "credit"
      /\ pc' = [pc EXCEPT ![t] = "load_tokens"]
      /\ loaded' = [loaded EXCEPT ![t] = 0]
      /\ UNCHANGED <<clock, call, state>>
  BY <1>1 DEF Credit, Goto, ClockTypes
<1>3. ASSUME NEW q \in Ref, NEW u \in Crediting(q)' PROVE u # t /\ Interval(u)' = Interval(u)
  <2>1. u \in Thread /\ u # t
    BY <1>1, <1>2, <1>3 DEF Crediting, ClockTypes
  <2> QED BY <1>1, <1>2, <2>1, IntervalKept DEF ClockTypes
<1>4. Crediting(r) = Crediting(r)' \cup {t}
  BY <1>1, <1>2 DEF Crediting, ClockTypes
<1>5. Outstanding(r) = Outstanding(r)' \cup Interval(t)
  BY <1>2, <1>3, <1>4 DEF Outstanding
<1>6. Outstanding(r)' \cap Interval(t) = {}
  <2>1. ASSUME NEW u \in Crediting(r)' PROVE Interval(u) \cap Interval(t) = {}
    BY <1>1, <1>2, <1>3, <1>4, <2>1 DEF NoDoubleCredit, Crediting
  <2> QED BY <1>2, <1>3, <2>1 DEF Outstanding
<1>7. /\ claimed(t) \in Nat /\ claimed(t) <= Cardinality(Outstanding(r))
      /\ Cardinality(Outstanding(r)') = Cardinality(Outstanding(r)) - claimed(t)
  <2>1. IsFiniteSet(Outstanding(r)') /\ Cardinality(Outstanding(r)') \in Nat
    <3>1. IsFiniteSet(Outstanding(r)')
      BY <1>2, <1>5, OutstandingFinite, FS_Subset
    <3> QED BY <3>1, FS_CardinalityType
  <2>2. /\ IsFiniteSet(Interval(t)) /\ Cardinality(Interval(t)) = claimed(t)
        /\ claimed(t) \in Nat
    BY <1>1, IntervalLength, AccruedTyped
  <2>3. \A S : S = Outstanding(r)' =>
           Cardinality(S \cup Interval(t)) = Cardinality(S) + Cardinality(Interval(t))
    BY <1>6, <2>1, <2>2, DisjointUnion
  <2>4. Cardinality(Outstanding(r)') + claimed(t) = Cardinality(Outstanding(r))
    BY <1>5, <2>2, <2>3
  <2> QED BY <2>1, <2>2, <2>4
<1>8. ASSUME NEW q \in Ref \ {r} PROVE Outstanding(q)' = Outstanding(q)
  <2>1. Crediting(q)' = Crediting(q)
    BY <1>1, <1>2, <1>8 DEF Crediting, ClockTypes
  <2> QED BY <1>3, <2>1, OutstandingKept
<1> QED BY <1>2, <1>7, <1>8

\* At an exact rate what a thread adds is worth exactly what it has claimed.
LEMMA CreditIsWorthItsClaim ==
    ASSUME ExactRate, ClockInv, NEW t \in Thread, pc[t] \in {"claim", "credit"}
    PROVE  rate_scaled * claimed(t) = NANOS_PER_SEC * added(t)
<1>1. saturating_sub(call[t].now, loaded[t]) \in u64
  <2>1. /\ call[t].now \in Int /\ loaded[t] \in Nat /\ call[t].now <= clock
        /\ clock \in 0..MaxTime
    BY DEF ClockInv, ClockTypes, Timeline
  <2>2. MaxTime \in Nat /\ MaxTime <= U64_MAX /\ U64_MAX \in Nat
    BY BucketAssumption, MathAssumption DEF u64
  <2>3. call[t].now <= U64_MAX
    BY <2>1, <2>2
  <2> QED BY <2>1, <2>2, <2>3 DEF saturating_sub, u64
<1> QED BY <1>1, ConstantsTyped, ExactClaim DEF claimed, added, accrued_since, ExactRate, Exact

\* A debit takes the whole cost: a bucket never holds what a saturated cost is.
LEMMA DebitTakesTheCost ==
    ASSUME LedgerInv, NEW t \in Thread, Debit(t)
    PROVE  /\ state[t] \in Ref
           /\ token_cost(t) = call[t].cost * SCALE /\ token_cost(t) \in Nat
           /\ token_cost(t) <= tokens[state[t]]
           /\ tokens' = [tokens EXCEPT ![state[t]] = @ - token_cost(t)]
           /\ granted' = [granted EXCEPT ![state[t]] = @ + token_cost(t)]
<1>1. TypeOK /\ DebitCovered
  BY DEF LedgerInv, ClaimInv, TypeInv
<1>2. /\ state[t] \in Ref /\ tokens[state[t]] >= token_cost(t)
      /\ tokens' = [tokens EXCEPT ![state[t]] = tokens[state[t]] - token_cost(t)]
      /\ granted' = [granted EXCEPT ![state[t]] = @ + call[t].cost * SCALE]
  BY <1>1 DEF Debit, DebitCovered, TypeOK, Consuming
<1>3. token_cost(t) \in Nat /\ call[t].cost * SCALE \in Nat
  BY <1>1, CostTyped
<1>4. token_cost(t) < U64_MAX
  <2>1. tokens[state[t]] \in Nat /\ tokens[state[t]] <= scaled_capacity
    BY <1>1, <1>2 DEF TypeOK, LedgerInv, Ledger
  <2> QED BY <1>2, <1>3, <2>1, ConstantsTyped, MathAssumption
<1>5. token_cost(t) = call[t].cost * SCALE
  BY <1>3, <1>4, MathAssumption DEF token_cost, saturating_mul, MinOf
<1> QED BY <1>1, <1>2, <1>3, <1>5 DEF TypeOK

\* The balances that the three kinds of movement keep.
LEMMA BalanceAfterDebit ==
    ASSUME NEW n \in Nat, NEW tok \in Nat, NEW gr \in Nat, NEW c \in Nat, c <= tok
    PROVE  n * ((tok - c) + (gr + c)) = n * (tok + gr)
  OBVIOUS

\* A claim moves the same number of nanoseconds on both sides.
LEMMA BalanceAfterClaim ==
    ASSUME NEW lhs \in Int, NEW rate_ \in Nat, NEW out \in Nat, NEW n \in Nat,
           NEW cap \in Nat, NEW from \in Nat, NEW to \in Nat, from <= to,
           lhs + rate_ * out <= cap + rate_ * (to - from)
    PROVE  lhs + rate_ * (out + n) <= cap + rate_ * ((to + n) - from)
  OBVIOUS

\* A credit turns claimed nanoseconds into at most what they are worth.
LEMMA BalanceAfterCredit ==
    ASSUME NEW n \in Nat, NEW tok \in Int, NEW gr \in Int, NEW new \in Int,
           NEW a \in Nat, new <= tok + a,
           NEW rate_ \in Nat, NEW out \in Nat, NEW c \in Nat, NEW bound \in Int,
           c <= out, rate_ * c = n * a, n * (tok + gr) + rate_ * out <= bound
    PROVE  n * (new + gr) + rate_ * (out - c) <= bound
<1>1. n * (new + gr) <= n * ((tok + a) + gr)
  <2> DEFINE d == (tok + a) - new
  <2>1. d \in Nat /\ (tok + a) + gr = (new + gr) + d
    OBVIOUS
  <2>2. n * ((new + gr) + d) = n * (new + gr) + n * d /\ n * d \in Nat
    BY <2>1
  <2> QED BY <2>1, <2>2
<1>2. n * ((tok + a) + gr) = n * (tok + gr) + n * a
  OBVIOUS
<1>3. rate_ * (out - c) = rate_ * out - rate_ * c
  OBVIOUS
<1>4. n * (new + gr) \in Int /\ n * (tok + gr) \in Int /\ n * a \in Nat
      /\ rate_ * out \in Nat /\ n * ((tok + a) + gr) \in Int /\ rate_ * (out - c) \in Int
  OBVIOUS
<1> QED BY <1>1, <1>2, <1>3, <1>4

\* The ledger balances initially.
LEMMA InitLedgerInv == Init => LedgerInv
<1> SUFFICES ASSUME Init PROVE LedgerInv
  OBVIOUS
<1>1. ClaimInv
  BY InitClaimInv
<1>2. ASSUME NEW r \in Ref PROVE Outstanding(r) = {}
  BY DEF Init, Outstanding, Crediting
<1>3. ASSUME NEW r \in Ref
      PROVE  /\ tokens[r] = 0 /\ granted[r] = 0 /\ created[r] = 0
             /\ last_refill[r] = 0 /\ Cardinality(Outstanding(r)) = 0
  BY <1>2, FS_EmptySet DEF Init
<1>4. NANOS_PER_SEC \in Nat /\ scaled_capacity \in Nat /\ rate_scaled \in Nat
  BY MathAssumption, ConstantsTyped
<1>5. NANOS_PER_SEC * (0 + 0) + rate_scaled * 0
        <= NANOS_PER_SEC * scaled_capacity + rate_scaled * (0 - 0)
  BY <1>4
<1> QED BY <1>1, <1>3, <1>4, <1>5 DEF LedgerInv, Ledger

\* The ledger of one bucket, as a property of its five numbers.
Balanced(tok, gr, out, last, from) ==
    /\ tok <= scaled_capacity
    /\ from <= last
    /\ NANOS_PER_SEC * (tok + gr) + rate_scaled * out
          <= NANOS_PER_SEC * scaled_capacity + rate_scaled * (last - from)

\* Steps that move time and claims, and what they credit, keep the ledger
\* balanced at an exact rate: also where tokens can go below zero.
LEMMA RefillKeepsLedger ==
    ASSUME ExactRate, ClockInv, ClockTypes', Ledger,
           tokens \in [Ref -> Int], granted \in [Ref -> Int],
           (Still /\ UNCHANGED <<tokens, granted>>) \/ \E t \in Thread : Moves(t)
    PROVE  Ledger'
<1> DEFINE N == NANOS_PER_SEC
           R == rate_scaled
           Bal(r) == Balanced(tokens[r], granted[r], Cardinality(Outstanding(r)),
                              last_refill[r], created[r])
<1>1. ClockTypes /\ ClockTypes' /\ Timeline
  BY DEF ClockInv
<1>2. N \in Nat /\ R \in Nat /\ scaled_capacity \in Nat /\ scaled_capacity < U64_MAX
  BY MathAssumption, ConstantsTyped
<1>3. \A r \in Ref : Bal(r)
  BY DEF Ledger, Balanced
<1>4. \A r \in Ref : /\ tokens[r] \in Int /\ granted[r] \in Int
                     /\ last_refill[r] \in Nat /\ created[r] \in Nat
                     /\ created[r] <= last_refill[r]
                     /\ Cardinality(Outstanding(r)) \in Nat
  BY <1>1, OutstandingFinite DEF ClockTypes, Timeline
<1>5. SUFFICES ASSUME NEW r \in Ref PROVE Bal(r)'
  BY DEF Ledger, Balanced
<1>6. CASE Still /\ UNCHANGED <<tokens, granted>>
  BY <1>3, <1>6, StillOutstanding DEF Still, Balanced
<1>7. ASSUME NEW t \in Thread, Insert(t) PROVE Bal(r)'
  <2>1. PICK q \in Free :
          /\ tokens' = [tokens EXCEPT ![q] = scaled_capacity]
          /\ last_refill' = [last_refill EXCEPT ![q] = call[t].now]
          /\ created' = [created EXCEPT ![q] = call[t].now]
          /\ granted' = [granted EXCEPT ![q] = 0]
          /\ state' = [state EXCEPT ![t] = q]
    BY <1>7 DEF Insert
  <2>2. Outstanding(r)' = Outstanding(r) /\ Outstanding(q) = {}
    BY <1>1, <1>7, <2>1, InsertOutstanding
  <2>3. CASE r = q
    <3>1. Cardinality(Outstanding(r)') = 0
      BY <2>2, <2>3, FS_EmptySet
    <3>2. /\ tokens'[r] = scaled_capacity /\ granted'[r] = 0
          /\ last_refill'[r] = call[t].now /\ created'[r] = call[t].now
      BY <1>1, <2>1, <2>3 DEF ClockTypes
    <3>3. call[t].now \in Nat
      BY <1>1, <3>2 DEF ClockTypes
    <3>4. Balanced(scaled_capacity, 0, 0, call[t].now, call[t].now)
      BY <1>2, <3>3 DEF Balanced
    <3> QED BY <3>1, <3>2, <3>4
  <2>4. CASE r # q
    <3>1. /\ tokens'[r] = tokens[r] /\ granted'[r] = granted[r]
          /\ last_refill'[r] = last_refill[r] /\ created'[r] = created[r]
      BY <1>1, <2>1, <2>4 DEF ClockTypes
    <3> QED BY <1>3, <2>2, <3>1
  <2> QED BY <2>3, <2>4
<1>8. ASSUME NEW t \in Thread, Claim(t) PROVE Bal(r)'
  <2>1. /\ state[t] \in Ref /\ claimed(t) \in Nat
        /\ last_refill' = [last_refill EXCEPT ![state[t]] = @ + claimed(t)]
        /\ Cardinality(Outstanding(r)') =
              Cardinality(Outstanding(r)) + (IF r = state[t] THEN claimed(t) ELSE 0)
        /\ UNCHANGED <<created, granted, tokens>>
    BY <1>1, <1>8, ClaimMoves DEF Claim, history
  <2>2. CASE r = state[t]
    <3>1. last_refill'[r] = last_refill[r] + claimed(t)
      BY <1>1, <2>1, <2>2 DEF ClockTypes
    <3>2. N * (tokens[r] + granted[r]) + R * (Cardinality(Outstanding(r)) + claimed(t))
            <= N * scaled_capacity + R * ((last_refill[r] + claimed(t)) - created[r])
      <4>1. N * (tokens[r] + granted[r]) \in Int /\ N * scaled_capacity \in Nat
        BY <1>2, <1>4
      <4>2. N * (tokens[r] + granted[r]) + R * Cardinality(Outstanding(r))
              <= N * scaled_capacity + R * (last_refill[r] - created[r])
        BY <1>3 DEF Balanced
      <4> HIDE DEF N, R
      <4> QED BY <1>2, <1>4, <2>1, <4>1, <4>2, BalanceAfterClaim
    <3>3. created[r] <= last_refill[r] + claimed(t)
      BY <1>4, <2>1
    <3> QED BY <1>3, <2>1, <2>2, <3>1, <3>2, <3>3 DEF Balanced
  <2>3. CASE r # state[t]
    <3>1. last_refill'[r] = last_refill[r]
      BY <1>1, <2>1, <2>3 DEF ClockTypes
    <3> QED BY <1>3, <1>4, <2>1, <2>3, <3>1
  <2> QED BY <2>2, <2>3
<1>9. ASSUME NEW t \in Thread, Credit(t) PROVE Bal(r)'
  <2>1. /\ state[t] \in Ref /\ claimed(t) \in Nat
        /\ claimed(t) <= Cardinality(Outstanding(state[t]))
        /\ Cardinality(Outstanding(r)') =
              Cardinality(Outstanding(r)) - (IF r = state[t] THEN claimed(t) ELSE 0)
    BY <1>1, <1>9, CreditMoves
  <2>2. /\ tokens' = [tokens EXCEPT ![state[t]] =
                        IF tokens[state[t]] >= scaled_capacity
                        THEN tokens[state[t]]
                        ELSE MinOf(saturating_add(tokens[state[t]], added(t)), scaled_capacity)]
        /\ UNCHANGED <<created, granted, last_refill>>
    BY <1>9 DEF Credit, history
  <2>3. CASE r = state[t]
    <3>1. R * claimed(t) = N * added(t) /\ added(t) \in Nat
      BY <1>1, <1>9, CreditIsWorthItsClaim, AccruedTyped DEF Credit
    <3>2. /\ tokens'[r] \in Int /\ tokens'[r] <= scaled_capacity
          /\ tokens'[r] <= tokens[r] + added(t)
      <4>1. tokens[r] <= scaled_capacity
        BY <1>3 DEF Balanced
      <4>2. tokens'[r] = IF tokens[r] >= scaled_capacity
                         THEN tokens[r]
                         ELSE MinOf(saturating_add(tokens[r], added(t)), scaled_capacity)
        BY <1>1, <2>2, <2>3 DEF ClockTypes
      <4> QED BY <1>2, <1>4, <3>1, <4>1, <4>2, MathAssumption DEF MinOf, saturating_add
    <3>3. N * (tokens'[r] + granted[r]) + R * (Cardinality(Outstanding(r)) - claimed(t))
            <= N * scaled_capacity + R * (last_refill[r] - created[r])
      <4>1. N * scaled_capacity + R * (last_refill[r] - created[r]) \in Int
        BY <1>2, <1>4
      <4>2. N * (tokens[r] + granted[r]) + R * Cardinality(Outstanding(r))
              <= N * scaled_capacity + R * (last_refill[r] - created[r])
        BY <1>3 DEF Balanced
      <4> HIDE DEF N, R
      <4> QED BY <1>2, <1>4, <2>1, <2>3, <3>1, <3>2, <4>1, <4>2, BalanceAfterCredit
    <3> QED BY <1>3, <2>1, <2>2, <2>3, <3>2, <3>3 DEF Balanced
  <2>4. CASE r # state[t]
    <3>1. tokens'[r] = tokens[r]
      BY <1>1, <2>2, <2>4 DEF ClockTypes
    <3> QED BY <1>3, <1>4, <2>1, <2>2, <2>4, <3>1
  <2> QED BY <2>3, <2>4
<1> QED BY <1>6, <1>7, <1>8, <1>9 DEF Moves

\* Every step keeps the ledger balanced, at an exact rate.
LEMMA NextLedger ==
    ASSUME ExactRate, LedgerInv, [Next]_vars
    PROVE  Ledger'
<1>1. ClaimInv /\ TypeOK /\ TypeInv /\ Ledger
  BY DEF LedgerInv, ClaimInv, TypeInv
<1>2. ClockInv /\ ClockTypes'
  BY <1>1, ClaimInvIsClockInv, NextTypeInv, NextTypesOfClock DEF TypeInv
<1>3. tokens \in [Ref -> Nat] /\ granted \in [Ref -> Nat]
  BY <1>1 DEF TypeOK
<1>4. CASE (Still /\ UNCHANGED <<tokens, granted>>) \/ \E t \in Thread : Moves(t)
  BY <1>1, <1>2, <1>3, <1>4, RefillKeepsLedger
<1>5. ASSUME NEW t \in Thread, Debit(t), Still PROVE Ledger'
  <2> SUFFICES ASSUME NEW r \in Ref
               PROVE  Balanced(tokens'[r], granted'[r], Cardinality(Outstanding(r)'),
                               last_refill'[r], created'[r])
    BY DEF Ledger, Balanced
  <2>1. /\ state[t] \in Ref /\ token_cost(t) \in Nat /\ token_cost(t) <= tokens[state[t]]
        /\ tokens' = [tokens EXCEPT ![state[t]] = @ - token_cost(t)]
        /\ granted' = [granted EXCEPT ![state[t]] = @ + token_cost(t)]
    BY <1>5, DebitTakesTheCost
  <2>2. Outstanding(r)' = Outstanding(r) /\ last_refill' = last_refill /\ created' = created
    BY <1>5, StillOutstanding DEF Still
  <2>3. Balanced(tokens[r], granted[r], Cardinality(Outstanding(r)), last_refill[r], created[r])
    BY <1>1 DEF Ledger, Balanced
  <2>4. tokens[r] \in Nat /\ granted[r] \in Nat /\ NANOS_PER_SEC \in Nat /\ scaled_capacity \in Nat
    BY <1>3, MathAssumption, ConstantsTyped
  <2>5. CASE r = state[t]
    <3>1. /\ tokens'[r] = tokens[r] - token_cost(t)
          /\ granted'[r] = granted[r] + token_cost(t)
      BY <1>3, <2>1, <2>5
    <3>2. NANOS_PER_SEC * (tokens'[r] + granted'[r]) = NANOS_PER_SEC * (tokens[r] + granted[r])
      BY <2>1, <2>4, <2>5, <3>1, BalanceAfterDebit
    <3>3. tokens'[r] <= scaled_capacity
      BY <2>1, <2>3, <2>4, <2>5, <3>1 DEF Balanced
    <3> QED BY <2>2, <2>3, <3>2, <3>3 DEF Balanced
  <2>6. CASE r # state[t]
    <3>1. tokens'[r] = tokens[r] /\ granted'[r] = granted[r]
      BY <1>3, <2>1, <2>6
    <3> QED BY <2>2, <2>3, <3>1
  <2> QED BY <2>5, <2>6
<1> QED BY <1>1, <1>4, <1>5, StepKinds DEF Moves

\* The budget follows: tokens and claims are not negative, and no timestamp is
\* ahead of the clock.
LEMMA LedgerImpliesBudget == LedgerInv => Budget
<1> SUFFICES ASSUME LedgerInv, NEW r \in Ref
             PROVE  NANOS_PER_SEC * granted[r] <=
                      NANOS_PER_SEC * scaled_capacity + rate_scaled * (clock - created[r])
  BY DEF Budget
<1> DEFINE N == NANOS_PER_SEC
           R == rate_scaled
           out == Cardinality(Outstanding(r))
<1>1. ClaimInv /\ TypeOK /\ Timeline
  BY DEF LedgerInv, ClaimInv, TypeInv
<1>2. /\ N \in Nat /\ R \in Nat /\ scaled_capacity \in Nat /\ out \in Nat
      /\ tokens[r] \in Nat /\ granted[r] \in Nat
      /\ last_refill[r] \in Nat /\ created[r] \in Nat
  BY <1>1, MathAssumption, ConstantsTyped, ClaimInvIsClockInv, OutstandingFinite DEF TypeOK
<1>3. clock \in Nat /\ created[r] <= last_refill[r] /\ last_refill[r] <= clock
  BY <1>1, BucketAssumption, MathAssumption DEF TypeOK, Timeline, u64
<1>4. N * (tokens[r] + granted[r]) + R * out
        <= N * scaled_capacity + R * (last_refill[r] - created[r])
  BY DEF LedgerInv, Ledger
<1> HIDE DEF N, R, out
<1>5. N * granted[r] <= N * (tokens[r] + granted[r]) + R * out
  BY <1>2
<1>6. R * (last_refill[r] - created[r]) <= R * (clock - created[r])
  BY <1>2, <1>3
<1>7. /\ N * granted[r] \in Int
      /\ N * (tokens[r] + granted[r]) + R * out \in Int
      /\ N * scaled_capacity \in Int
      /\ R * (last_refill[r] - created[r]) \in Int
      /\ R * (clock - created[r]) \in Int
  <2>1. /\ tokens[r] + granted[r] \in Int /\ last_refill[r] - created[r] \in Int
        /\ clock - created[r] \in Int
    BY <1>2, <1>3
  <2>2. \A x, y \in Int : x * y \in Int /\ x + y \in Int
    OBVIOUS
  <2>3. N \in Int /\ R \in Int /\ granted[r] \in Int /\ scaled_capacity \in Int /\ out \in Int
    BY <1>2
  <2> QED BY <2>1, <2>2, <2>3
<1>8. N * granted[r] <= N * scaled_capacity + R * (clock - created[r])
  BY <1>4, <1>5, <1>6, <1>7
<1> QED BY <1>8 DEF N, R

\* The ledger invariant in every state.
LEMMA LedgerInvariant == ASSUME ExactRate PROVE Spec => []LedgerInv
<1>1. Init => LedgerInv
  BY InitLedgerInv
<1>2. LedgerInv /\ [Next]_vars => LedgerInv'
  BY NextClaimInv, NextLedger DEF LedgerInv
<1> QED BY <1>1, <1>2, PTL DEF Spec

\* At an exact rate the ledger balances in every state: what is in the bucket,
\* what has left it and what is on its way to it come out of the capacity and
\* of time that has been claimed once.
THEOREM LedgerBalances == ASSUME ExactRate PROVE Spec => []Ledger
<1>1. LedgerInv => Ledger
  BY DEF LedgerInv
<1> QED BY <1>1, LedgerInvariant, PTL

\* At an exact rate no interleaving of any number of threads lets through more
\* than the capacity and what the rate yields since the bucket was inserted.
THEOREM BudgetHolds == ASSUME ExactRate PROVE Spec => []Budget
<1>1. LedgerInv => Budget
  BY LedgerImpliesBudget
<1> QED BY <1>1, LedgerInvariant, PTL

-----------------------------------------------------------------------------
(***************************************************************************)
(* Timestamps                                                              *)
(***************************************************************************)

\* Until it returns, a call that has claimed, or found nothing to claim, has
\* seen to all the time it knows of.
CaughtUp ==
    \A t \in Thread : pc[t] \in {"credit", "load_tokens", "debit"} =>
        accrued_since(t, last_refill[state[t]]) = 0

\* Timestamps move forward, unless the bucket is a new one.
Forward == \A r \in Ref : last_refill'[r] < last_refill[r] => r \in Free

\* A claim moves the timestamp of its bucket forward; only an insertion sets one.
LEMMA NextForward ==
    ASSUME ClockInv, ClockStep
    PROVE  Forward
<1> USE DEF Forward
<1>1. ClockTypes /\ Timeline
  BY DEF ClockInv
<1>2. CASE Still
  BY <1>1, <1>2 DEF Still, ClockTypes
<1>3. ASSUME NEW t \in Thread, Insert(t) PROVE Forward
  BY <1>1, <1>3 DEF Insert, ClockTypes
<1>4. ASSUME NEW t \in Thread, Claim(t) PROVE Forward
  <2>1. /\ state[t] \in Ref /\ claimed(t) \in Nat
        /\ last_refill' = [last_refill EXCEPT ![state[t]] = @ + claimed(t)]
    BY <1>4, ClaimMoves
  <2> QED BY <1>1, <2>1 DEF ClockTypes
<1>5. ASSUME NEW t \in Thread, Credit(t) PROVE Forward
  BY <1>1, <1>5 DEF Credit, ClockTypes
<1> QED BY <1>2, <1>3, <1>4, <1>5 DEF ClockStep, Moves

\* Whoever is past its claim and stays there stays caught up: its `now' and its
\* bucket are the same, and the bucket's timestamp is no earlier.
LEMMA StaysCaughtUp ==
    ASSUME ClaimInv, CaughtUp, Forward, TypeOK', NEW t \in Thread,
           pc[t] \in {"credit", "load_tokens", "debit"},
           state'[t] = state[t], call'[t] = call[t]
    PROVE  accrued_since(t, last_refill[state[t]])' = 0
<1>1. TypeOK /\ TypeOK'
  BY DEF ClaimInv, TypeInv
<1>2. state[t] \in Ref /\ state[t] \notin Free
  BY <1>1 DEF TypeOK, Consuming, Free
<1>3. /\ last_refill[state[t]] \in Nat /\ last_refill'[state[t]] \in Nat
      /\ call[t].now \in Nat
  BY <1>1, <1>2 DEF TypeOK
<1>4. last_refill[state[t]] <= last_refill'[state[t]]
  BY <1>2, <1>3 DEF Forward
<1>5. refill_tokens(saturating_sub(call[t].now, last_refill[state[t]]), rate_scaled) = 0
  BY DEF CaughtUp, accrued_since
<1>6. refill_tokens(saturating_sub(call[t].now, last_refill'[state[t]]), rate_scaled) = 0
  BY <1>3, <1>4, <1>5, LaterTimestamp, ConstantsTyped
<1> QED BY <1>6 DEF accrued_since

\* A thread gets past its claim by claiming, or by finding nothing to claim.
LEMMA PastClaim ==
    ASSUME TypeInv, [Next]_vars, NEW t \in Thread,
           pc'[t] \in {"credit", "load_tokens", "debit"}
    PROVE  \/ /\ pc[t] \in {"credit", "load_tokens", "debit"}
              /\ state'[t] = state[t] /\ call'[t] = call[t]
           \/ NothingAccrued(t)
           \/ Claim(t)
<1> DEFINE Past == /\ pc[t] \in {"credit", "load_tokens", "debit"}
                   /\ state'[t] = state[t] /\ call'[t] = call[t]
<1> USE DEF TypeInv, TypeOK, Goto
<1>1. CASE UNCHANGED vars
  BY <1>1 DEF vars
<1>2. CASE Tick
  BY <1>2 DEF Tick
<1>3. ASSUME NEW u \in Thread, Calling(u) PROVE Past
  BY <1>3 DEF Calling, Check, CheckAndSweep, Begin
<1>4. ASSUME NEW u \in Thread, CleanupIdle(u) PROVE Past
  BY <1>4 DEF CleanupIdle, ScanEntry, RemoveExpired, NextShard
<1>5. ASSUME NEW u \in Thread, FindBucket(u) PROVE Past
  BY <1>5 DEF FindBucket, Lookup, Insert, AlreadyInserted
<1>6. ASSUME NEW u \in Thread, Touch(u) \/ LoadRefill(u) \/ ClaimFails(u) \/ Credit(u)
      PROVE  Past
  BY <1>6 DEF Touch, LoadRefill, ClaimFails, Credit
<1>7. ASSUME NEW u \in Thread, Deciding(u) PROVE Past
  BY <1>7 DEF Deciding, LoadTokens, Deny, Debit, DebitFails, Return
<1>8. ASSUME NEW u \in Thread, NothingAccrued(u) \/ Claim(u), u # t PROVE Past
  BY <1>8 DEF NothingAccrued, Claim
<1> QED
  BY <1>1, <1>2, <1>3, <1>4, <1>5, <1>6, <1>7, <1>8
  DEF Next, Running, TryConsume, Claiming

\* At an exact rate every step keeps the calls caught up.
LEMMA NextCaughtUp ==
    ASSUME ExactRate, ClaimInv, CaughtUp, [Next]_vars
    PROVE  CaughtUp'
<1>1. TypeInv /\ TypeOK /\ Timeline /\ TypeOK'
  BY NextTypeInv DEF ClaimInv, TypeInv
<1> SUFFICES ASSUME NEW t \in Thread, pc'[t] \in {"credit", "load_tokens", "debit"}
             PROVE  accrued_since(t, last_refill[state[t]])' = 0
  BY DEF CaughtUp
<1>2. CASE /\ pc[t] \in {"credit", "load_tokens", "debit"}
           /\ state'[t] = state[t] /\ call'[t] = call[t]
  BY <1>1, <1>2, ClaimInvIsClockInv, EveryStepIsClockStep, NextForward, StaysCaughtUp
<1>3. CASE NothingAccrued(t)
  <2>1. UNCHANGED <<last_refill, state, call>>
    BY <1>3 DEF NothingAccrued, shared
  <2> QED BY <1>3, <2>1 DEF NothingAccrued, accrued_since
<1>4. CASE Claim(t)
  <2>1. /\ state[t] \in Ref /\ loaded[t] \in Nat /\ claimed(t) \in Nat
        /\ last_refill[state[t]] = loaded[t]
        /\ claimed(t) <= saturating_sub(call[t].now, loaded[t])
    BY <1>1, <1>4, ClaimInvIsClockInv, AccruedTyped DEF Claim, TypeOK, Consuming
  <2>2. /\ call[t].now \in Nat /\ call[t].now \in Int
        /\ call[t].now <= clock /\ loaded[t] <= clock
        /\ clock \in Nat /\ clock <= U64_MAX /\ U64_MAX \in Nat
    BY <1>1, <2>1, BucketAssumption, MathAssumption DEF TypeOK, Timeline, u64
  <2>3. call[t].now \in u64
    BY <2>2 DEF u64
  <2>4. saturating_add(loaded[t], claimed(t)) = loaded[t] + claimed(t)
    BY <2>1, <2>2, ClaimStaysInThePast
  <2>5. last_refill'[state[t]] = loaded[t] + claimed(t)
    BY <1>1, <1>4, <2>1, <2>4 DEF Claim, TypeOK
  <2>6. claimed(t) = nanos_for_tokens(refill_tokens(
                        saturating_sub(call[t].now, loaded[t]), rate_scaled), rate_scaled)
    BY DEF claimed, added, accrued_since
  <2>7. refill_tokens(saturating_sub(call[t].now, loaded[t] + claimed(t)), rate_scaled) = 0
    BY <2>1, <2>3, <2>6, ExactClaimCatchesUp, ConstantsTyped DEF ExactRate, Exact
  <2>8. state' = state /\ call' = call
    BY <1>4 DEF Claim
  <2> QED BY <2>5, <2>7, <2>8 DEF accrued_since
<1> QED BY <1>1, <1>2, <1>3, <1>4, PastClaim

\* "A spurious weak-CAS failure retries rather than leaving the timestamp stale":
\* at an exact rate no call decides on a bucket while time that it has seen pass
\* is still to be claimed, whatever fails and whoever else claims.
THEOREM RefillsCatchUp == ASSUME ExactRate PROVE Spec => []RefillCaughtUp
<1>1. Init => ClaimInv /\ CaughtUp
  BY InitClaimInv DEF Init, CaughtUp
<1>2. ClaimInv /\ CaughtUp /\ [Next]_vars => (ClaimInv /\ CaughtUp)'
  BY NextClaimInv, NextCaughtUp
<1>3. ClaimInv /\ CaughtUp => RefillCaughtUp
  BY DEF CaughtUp, RefillCaughtUp
<1> QED BY <1>1, <1>2, <1>3, PTL DEF Spec

\* No step of any thread moves the timestamp of a bucket back, until nobody can
\* reach the bucket and its memory is used for a new one.
THEOREM TimestampsMoveForward == Spec => TimestampNeverMovesBack
<1>1. Init => ClaimInv
  BY InitClaimInv
<1>2. ClaimInv /\ [Next]_vars => ClaimInv'
  BY NextClaimInv
<1>3. ClaimInv /\ [Next]_vars =>
        [\A r \in Ref : last_refill'[r] < last_refill[r] => r \in Free]_vars
  <2>1. ASSUME ClaimInv, [Next]_vars PROVE Forward
    BY <2>1, ClaimInvIsClockInv, EveryStepIsClockStep, NextForward DEF ClaimInv
  <2> QED BY <2>1 DEF Forward
<1> QED BY <1>1, <1>2, <1>3, PTL DEF Spec, TimestampNeverMovesBack

-----------------------------------------------------------------------------
(***************************************************************************)
(* Keys and their buckets                                                  *)
(***************************************************************************)

\* The map has no bucket under two keys.
OneKeyPerBucket ==
    \A j, k \in Key : shards[j] = shards[k] /\ shards[j] # NoRef => j = k

KeyInv == TypeInv /\ OneKeyPerBucket /\ KeyIsolation

\* Nobody finds a bucket: keys may be evicted, threads may leave their buckets.
NoneFound ==
    /\ \A k \in Key : shards'[k] \in {shards[k], NoRef}
    /\ \A t \in Thread : state'[t] # NoRef =>
          state'[t] = state[t] /\ call'[t].key = call[t].key

\* Thread t takes the bucket that the map has for its key.
Finds(t) ==
    /\ state' = [state EXCEPT ![t] = shards[call[t].key]]
    /\ UNCHANGED <<shards, call>>

\* Every step finds no bucket, finds the one in the map, or inserts a new one.
LEMMA KeyStepKinds ==
    ASSUME TypeInv, [Next]_vars
    PROVE  \/ NoneFound
           \/ \E t \in Thread : Finds(t) \/ Insert(t)
<1> USE DEF TypeInv, TypeOK, NoneFound, shared, history, Goto
<1>1. CASE UNCHANGED vars
  BY <1>1 DEF vars
<1>2. CASE Tick
  BY <1>2 DEF Tick
<1>3. ASSUME NEW t \in Thread, Calling(t) PROVE NoneFound
  BY <1>3 DEF Calling, Check, CheckAndSweep, Begin, Consuming
<1>4. ASSUME NEW t \in Thread, CleanupIdle(t) PROVE NoneFound
  <2>1. state' = state /\ call' = call
    BY <1>4 DEF CleanupIdle, ScanEntry, RemoveExpired, NextShard
  <2>2. \A k \in Key : shards'[k] \in {shards[k], NoRef}
    BY <1>4 DEF CleanupIdle, ScanEntry, RemoveExpired, NextShard
  <2> QED BY <2>1, <2>2
<1>5. ASSUME NEW t \in Thread, Lookup(t) \/ AlreadyInserted(t) PROVE Finds(t)
  BY <1>5 DEF Lookup, AlreadyInserted, Finds
<1>6. ASSUME NEW t \in Thread, Touch(t) \/ Claiming(t) \/ Credit(t) PROVE NoneFound
  BY <1>6 DEF Touch, Claiming, NothingAccrued, LoadRefill, Claim, ClaimFails, Credit
<1>7. ASSUME NEW t \in Thread, Deciding(t) PROVE NoneFound
  BY <1>7 DEF Deciding, LoadTokens, Deny, Debit, DebitFails, Return
<1> QED
  BY <1>1, <1>2, <1>3, <1>4, <1>5, <1>6, <1>7 DEF Next, Running, FindBucket, TryConsume

\* A call that loses the race to insert takes the winner's bucket, one that wins
\* it a bucket that nobody can reach: no step makes two keys share one.
LEMMA NextKeyInv == KeyInv /\ [Next]_vars => KeyInv'
<1> SUFFICES ASSUME KeyInv, [Next]_vars PROVE (OneKeyPerBucket /\ KeyIsolation)'
  BY NextTypeInv DEF KeyInv
<1>1. TypeInv /\ TypeOK /\ OneKeyPerBucket /\ KeyIsolation
  BY DEF KeyInv, TypeInv
<1>2. CASE NoneFound
  BY <1>1, <1>2 DEF NoneFound, OneKeyPerBucket, KeyIsolation
<1>3. ASSUME NEW t \in Thread, Finds(t) PROVE (OneKeyPerBucket /\ KeyIsolation)'
  <2>1. call[t].key \in Key
    BY <1>1 DEF TypeOK
  <2>2. ASSUME NEW u \in Thread, NEW k \in Key, state'[u] # NoRef, shards[k] = state'[u]
        PROVE  k = call[u].key
    BY <1>1, <1>3, <2>1, <2>2 DEF Finds, TypeOK, OneKeyPerBucket, KeyIsolation
  <2>3. ASSUME NEW u \in Thread, NEW v \in Thread, state'[u] # NoRef, state'[v] = state'[u]
        PROVE  call[v].key = call[u].key
    <3>1. CASE u = t
      <4>1. state'[v] = shards[call[u].key]
        BY <1>1, <1>3, <2>3, <3>1 DEF Finds, TypeOK
      <4> QED BY <2>1, <2>2, <2>3, <3>1, <4>1
    <3>2. CASE v = t
      <4>1. state'[u] = shards[call[v].key]
        BY <1>1, <1>3, <2>3, <3>2 DEF Finds, TypeOK
      <4> QED BY <2>1, <2>2, <2>3, <3>2, <4>1
    <3>3. CASE u # t /\ v # t
      BY <1>1, <1>3, <2>3, <3>3 DEF Finds, TypeOK, KeyIsolation
    <3> QED BY <3>1, <3>2, <3>3
  <2> QED BY <1>1, <1>3, <2>2, <2>3 DEF Finds, OneKeyPerBucket, KeyIsolation
<1>4. ASSUME NEW t \in Thread, Insert(t) PROVE (OneKeyPerBucket /\ KeyIsolation)'
  <2>1. PICK r \in Free :
          /\ shards' = [shards EXCEPT ![call[t].key] = r]
          /\ state' = [state EXCEPT ![t] = r]
    BY <1>4 DEF Insert
  <2>2. call[t].key \in Key /\ call' = call
    BY <1>1, <1>4 DEF TypeOK, Insert
  <2>3. /\ r \in Ref /\ r # NoRef
        /\ \A k \in Key : shards[k] # r
        /\ \A u \in Thread : state[u] # r
    BY BucketAssumption DEF Free
  <2>4. \A k \in Key : shards'[k] = IF k = call[t].key THEN r ELSE shards[k]
    BY <1>1, <2>1 DEF TypeOK
  <2>5. \A u \in Thread : state'[u] = IF u = t THEN r ELSE state[u]
    BY <1>1, <2>1 DEF TypeOK
  <2>6. OneKeyPerBucket'
    BY <1>1, <2>2, <2>3, <2>4 DEF OneKeyPerBucket
  <2>7. KeyIsolation'
    BY <1>1, <2>2, <2>3, <2>4, <2>5 DEF KeyIsolation
  <2> QED BY <2>6, <2>7
<1> QED BY <1>1, <1>2, <1>3, <1>4, KeyStepKinds

\* The invariant in every state.
LEMMA KeyInvariant == Spec => []KeyInv
<1>1. Init => KeyInv
  BY InitTypeInv DEF Init, KeyInv, OneKeyPerBucket, KeyIsolation
<1> QED BY <1>1, NextKeyInv, PTL DEF Spec

\* Calls on two keys never work on one bucket, not even when a sweep has dropped
\* it from the map and they still hold it, whatever threads do in the meantime.
THEOREM KeysAreIsolated == Spec => []KeyIsolation
<1>1. KeyInv => KeyIsolation
  BY DEF KeyInv
<1> QED BY <1>1, KeyInvariant, PTL

\* Without a TTL nobody sweeps, and whoever holds a bucket holds the one that the
\* map has for its key.
HoldsMapped ==
    idle_ttl = NoTTL =>
        \A t \in Thread :
            /\ pc[t] # "sweep"
            /\ state[t] # NoRef => shards[call[t].key] = state[t]

\* Without a TTL the map changes only when a bucket is inserted.
LEMMA MapStays ==
    ASSUME HoldsMapped, idle_ttl = NoTTL, [Next]_vars
    PROVE  shards' = shards \/ \E t \in Thread : Insert(t)
BY DEF HoldsMapped, Next, Tick, vars, shared, Calling, Check, CheckAndSweep, Begin,
       Running, CleanupIdle, ScanEntry, RemoveExpired, NextShard, FindBucket,
       Lookup, AlreadyInserted, TryConsume, Touch, Claiming, NothingAccrued,
       LoadRefill, Claim, ClaimFails, Credit, Deciding, LoadTokens, Deny,
       Debit, DebitFails

\* A bucket that is in the map stays there when nobody sweeps.
LEMMA NextHoldsMapped == KeyInv /\ HoldsMapped /\ [Next]_vars => HoldsMapped'
<1> SUFFICES ASSUME KeyInv, HoldsMapped, [Next]_vars, idle_ttl = NoTTL, NEW t \in Thread
             PROVE  /\ pc'[t] # "sweep"
                    /\ state'[t] # NoRef => shards'[call'[t].key] = state'[t]
  BY DEF HoldsMapped
<1>1. TypeInv /\ TypeOK /\ KeyIsolation
  BY DEF KeyInv, TypeInv
<1>2. pc'[t] # "sweep"
  <2> USE DEF HoldsMapped, TypeOK, Goto
  <2>1. CASE UNCHANGED vars \/ Tick
    BY <2>1 DEF vars, Tick
  <2>2. ASSUME NEW u \in Thread, Calling(u) PROVE pc'[t] # "sweep"
    BY <1>1, <2>2 DEF Calling, Check, CheckAndSweep, Begin
  <2>3. ASSUME NEW u \in Thread, CleanupIdle(u) PROVE pc'[t] # "sweep"
    BY <2>3 DEF CleanupIdle, ScanEntry, RemoveExpired, NextShard
  <2>4. ASSUME NEW u \in Thread, FindBucket(u) PROVE pc'[t] # "sweep"
    BY <1>1, <2>4 DEF FindBucket, Lookup, Insert, AlreadyInserted
  <2>5. ASSUME NEW u \in Thread, Touch(u) \/ Claiming(u) \/ Credit(u) PROVE pc'[t] # "sweep"
    BY <1>1, <2>5 DEF Touch, Claiming, NothingAccrued, LoadRefill, Claim, ClaimFails, Credit
  <2>6. ASSUME NEW u \in Thread, Deciding(u) PROVE pc'[t] # "sweep"
    BY <1>1, <2>6 DEF Deciding, LoadTokens, Deny, Debit, DebitFails, Return
  <2> QED
    BY <2>1, <2>2, <2>3, <2>4, <2>5, <2>6 DEF Next, Running, TryConsume
<1>3. shards' = shards \/ \E u \in Thread : Insert(u)
  BY MapStays
<1>4. ASSUME state'[t] # NoRef PROVE shards'[call'[t].key] = state'[t]
  <2>1. CASE NoneFound
    <3>1. state'[t] = state[t] /\ call'[t].key = call[t].key /\ call[t].key \in Key
      BY <1>1, <1>4, <2>1 DEF NoneFound, TypeOK
    <3>2. shards[call[t].key] = state[t]
      BY <1>4, <3>1 DEF HoldsMapped
    <3>3. CASE shards' = shards
      BY <3>1, <3>2, <3>3
    <3>4. ASSUME NEW u \in Thread, Insert(u) PROVE shards'[call[t].key] = shards[call[t].key]
      <4>1. shards[call[u].key] = NoRef
        BY <3>4 DEF Insert
      <4>2. call[u].key # call[t].key
        BY <1>4, <3>1, <3>2, <4>1
      <4> QED BY <1>1, <3>1, <3>4, <4>2 DEF Insert, TypeOK
    <3> QED BY <1>3, <3>1, <3>2, <3>3, <3>4
  <2>2. ASSUME NEW u \in Thread, Finds(u) PROVE shards'[call'[t].key] = state'[t]
    BY <1>1, <1>4, <2>2 DEF HoldsMapped, Finds, TypeOK
  <2>3. ASSUME NEW u \in Thread, Insert(u) PROVE shards'[call'[t].key] = state'[t]
    <3>1. PICK r \in Free :
            /\ shards' = [shards EXCEPT ![call[u].key] = r]
            /\ state' = [state EXCEPT ![u] = r]
      BY <2>3 DEF Insert
    <3>2. call' = call /\ shards[call[u].key] = NoRef
      BY <2>3 DEF Insert
    <3>3. call[u].key \in Key /\ call[t].key \in Key
      BY <1>1 DEF TypeOK
    <3>4. CASE t = u
      BY <1>1, <3>1, <3>2, <3>3, <3>4 DEF TypeOK
    <3>5. CASE t # u
      <4>1. state'[t] = state[t]
        BY <3>1, <3>5, <1>1 DEF TypeOK
      <4>2. shards[call[t].key] = state[t] /\ call[t].key # call[u].key
        BY <1>4, <3>2, <4>1 DEF HoldsMapped
      <4> QED BY <1>1, <3>1, <3>2, <3>3, <4>1, <4>2 DEF TypeOK
    <3> QED BY <3>4, <3>5
  <2> QED BY <1>1, <2>1, <2>2, <2>3, KeyStepKinds
<1> QED BY <1>2, <1>4

\* The two in every state.
LEMMA HoldsMappedInvariant == Spec => [](KeyInv /\ HoldsMapped)
<1>1. Init => KeyInv /\ HoldsMapped
  BY InitTypeInv DEF Init, KeyInv, OneKeyPerBucket, KeyIsolation, HoldsMapped
<1> QED BY <1>1, NextKeyInv, NextHoldsMapped, PTL DEF Spec

\* No two keys share a bucket, and without a TTL all calls on a key work on the
\* one bucket that the map has for it, however their insertions race.
THEOREM OneBucketServesAKey == Spec => []OneBucketPerKey
<1>1. KeyInv /\ HoldsMapped => OneBucketPerKey
  BY DEF KeyInv, OneKeyPerBucket, HoldsMapped, OneBucketPerKey
<1> QED BY <1>1, HoldsMappedInvariant, PTL

-----------------------------------------------------------------------------
(***************************************************************************)
(* TokenBucket implements TokenLedger                                      *)
(*                                                                         *)
(* For any number of threads and keys, at an exact rate, and while nobody  *)
(* evicts buckets, every step of a thread is a step of the ledger of one   *)
(* key, or none at all.  The promise of the ledger is then a promise of    *)
(* the buckets.                                                            *)
(***************************************************************************)

\* A call that has started costs something: a cost of zero returns at once.
CallsCost == \A t \in Thread : pc[t] # "idle" => call[t].cost # 0

\* What the refinement needs: the ledger of each bucket, and that calls on a key
\* share its bucket.
RefinementInv == LedgerInv /\ KeyInv /\ HoldsMapped /\ CallsCost

\* The arguments of a call stay as they are until it returns.
LEMMA NextCallsCost == TypeInv /\ CallsCost /\ [Next]_vars => CallsCost'
<1> SUFFICES ASSUME TypeInv, CallsCost, [Next]_vars PROVE CallsCost'
  OBVIOUS
<1> USE DEF TypeInv, TypeOK, CallsCost, Goto
<1>1. CASE UNCHANGED vars \/ Tick
  BY <1>1 DEF vars, Tick
<1>2. ASSUME NEW t \in Thread, Calling(t) PROVE CallsCost'
  BY <1>2 DEF Calling, Check, CheckAndSweep, Begin
<1>3. ASSUME NEW t \in Thread, CleanupIdle(t) PROVE CallsCost'
  BY <1>3 DEF CleanupIdle, ScanEntry, RemoveExpired, NextShard
<1>4. ASSUME NEW t \in Thread, FindBucket(t) PROVE CallsCost'
  BY <1>4 DEF FindBucket, Lookup, Insert, AlreadyInserted
<1>5. ASSUME NEW t \in Thread, Touch(t) \/ Claiming(t) \/ Credit(t) PROVE CallsCost'
  BY <1>5 DEF Touch, Claiming, NothingAccrued, LoadRefill, Claim, ClaimFails, Credit
<1>6. ASSUME NEW t \in Thread, Deciding(t) PROVE CallsCost'
  BY <1>6 DEF Deciding, LoadTokens, Deny, Debit, DebitFails, Return
<1> QED BY <1>1, <1>2, <1>3, <1>4, <1>5, <1>6 DEF Next, Running, TryConsume

\* The invariant in every state.
LEMMA RefinementInvariant == ASSUME ExactRate PROVE Spec => []RefinementInv
<1>1. Init => CallsCost
  BY DEF Init, CallsCost
<1>2. TypeInv /\ CallsCost /\ [Next]_vars => CallsCost'
  BY NextCallsCost
<1>3. LedgerInv => TypeInv
  BY DEF LedgerInv, ClaimInv
<1> QED
  BY <1>1, <1>2, <1>3, LedgerInvariant, HoldsMappedInvariant, PTL DEF Spec, RefinementInv

-----------------------------------------------------------------------------
(***************************************************************************)
(* Initial states, and the steps that the ledger does not see              *)
(***************************************************************************)

\* Keys without a bucket have a full level, and no time has gone by.
LEMMA InitRefines == Init => Promise!Init
<1> SUFFICES ASSUME Init PROVE Promise!Init
  OBVIOUS
<1> QED BY DEF Init, Promise!Init, level, backlog, taken

\* Only the clock's own step moves the clock.
LEMMA ClockStays ==
    ASSUME [Next]_vars
    PROVE  clock' = clock \/ Tick
BY DEF Next, vars, Calling, Check, CheckAndSweep, Begin,
       Running, CleanupIdle, ScanEntry, RemoveExpired, NextShard, FindBucket,
       Lookup, Insert, AlreadyInserted, TryConsume, Touch, Claiming, NothingAccrued,
       LoadRefill, Claim, ClaimFails, Credit, Deciding, LoadTokens, Deny,
       Debit, DebitFails

\* The ledger's fields of a key that has a bucket are that bucket's numbers, and
\* natural ones.
LEMMA FieldsOfMapped ==
    ASSUME LedgerInv, NEW k \in Key, shards[k] # NoRef
    PROVE  /\ shards[k] \in Ref
           /\ level[k] = tokens[shards[k]] /\ level[k] \in Nat
           /\ level[k] <= scaled_capacity
           /\ backlog[k] = clock - last_refill[shards[k]]
                              + Cardinality(Outstanding(shards[k]))
           /\ backlog[k] \in Nat
           /\ Cardinality(Outstanding(shards[k])) <= backlog[k]
           /\ taken[k] = granted[shards[k]] /\ taken[k] \in Nat
<1>1. TypeOK /\ Timeline /\ Ledger /\ shards[k] \in Ref
  BY DEF LedgerInv, ClaimInv, TypeInv, TypeOK
<1>2. Cardinality(Outstanding(shards[k])) \in Nat
  BY <1>1, ClaimInvIsClockInv, OutstandingFinite DEF LedgerInv
<1>3. clock \in Nat /\ last_refill[shards[k]] \in Nat /\ last_refill[shards[k]] <= clock
  BY <1>1, BucketAssumption, MathAssumption DEF TypeOK, Timeline, u64
<1>4. tokens[shards[k]] \in Nat /\ tokens[shards[k]] <= scaled_capacity
      /\ granted[shards[k]] \in Nat
  BY <1>1 DEF TypeOK, Ledger
<1> QED BY <1>1, <1>2, <1>3, <1>4 DEF level, backlog, taken

\* What a thread works on is what the ledger has for its key.
LEMMA WorksOnMapped ==
    ASSUME RefinementInv, idle_ttl = NoTTL, NEW t \in Thread, pc[t] \in Consuming
    PROVE  /\ call[t].key \in Key
           /\ state[t] # NoRef
           /\ shards[call[t].key] = state[t]
           /\ \A k \in Key : shards[k] = state[t] => k = call[t].key
  BY DEF RefinementInv, KeyInv, KeyIsolation, HoldsMapped, TypeInv, TypeOK

\* The ledger stands still when buckets, claims, the map and the clock do.
LEMMA UnseenStep ==
    ASSUME RefinementInv, Still, UNCHANGED <<clock, shards, tokens, granted>>
    PROVE  UNCHANGED <<clock, level, backlog, taken>>
<1>1. \A k \in Key : shards[k] # NoRef => shards[k] \in Ref
  BY DEF RefinementInv, KeyInv, TypeInv, TypeOK
<1>2. \A r \in Ref : Outstanding(r)' = Outstanding(r)
  BY StillOutstanding
<1>3. \A k \in Key : shards'[k] # NoRef =>
         Cardinality(Outstanding(shards[k]))' = Cardinality(Outstanding(shards[k]))
  BY <1>1, <1>2
<1>4. last_refill' = last_refill
  BY DEF Still
<1> QED BY <1>3, <1>4 DEF level, backlog, taken

-----------------------------------------------------------------------------
(***************************************************************************)
(* The steps that the ledger sees                                          *)
(***************************************************************************)

\* A nanosecond gone by is one more in every key's backlog.
LEMMA TickRefines ==
    ASSUME RefinementInv, Tick
    PROVE  Promise!Elapse
<1>1. clock < MaxTime /\ clock' = clock + 1 /\ clock \in Nat
  BY BucketAssumption, MathAssumption
  DEF Tick, RefinementInv, KeyInv, TypeInv, TypeOK, u64
<1>2. Still /\ shards' = shards /\ tokens' = tokens /\ granted' = granted
      /\ last_refill' = last_refill
  BY DEF Tick, Still, shared, history
<1>3. level' = level /\ taken' = taken
  BY <1>2 DEF level, taken
<1>4. ASSUME NEW k \in Key
      PROVE  (IF shards'[k] = NoRef
              THEN clock'
              ELSE clock' - last_refill'[shards'[k]] + Cardinality(Outstanding(shards[k]))')
             = backlog[k] + 1
  <2>1. CASE shards[k] = NoRef
    BY <1>1, <1>2, <2>1 DEF backlog
  <2>2. CASE shards[k] # NoRef
    <3>1. /\ shards[k] \in Ref /\ last_refill[shards[k]] \in Nat
          /\ Cardinality(Outstanding(shards[k])) \in Nat
          /\ backlog[k] = clock - last_refill[shards[k]]
                             + Cardinality(Outstanding(shards[k]))
      BY <2>2, FieldsOfMapped, ClaimInvIsClockInv, OutstandingFinite
      DEF RefinementInv, LedgerInv, ClaimInv, TypeInv, TypeOK
    <3>2. Outstanding(shards[k])' = Outstanding(shards[k])
      BY <1>2, <3>1, StillOutstanding
    <3> QED BY <1>1, <1>2, <2>2, <3>1, <3>2
  <2> QED BY <2>1, <2>2
<1>5. backlog' = [k \in Key |-> backlog[k] + 1]
  BY <1>4 DEF backlog
<1> QED BY <1>1, <1>3, <1>5 DEF Promise!Elapse

\* A new bucket is full and dated by its call's `now': the time before that is
\* credited to a level that is full already.
LEMMA InsertRefines ==
    ASSUME RefinementInv, idle_ttl = NoTTL, NEW t \in Thread, Insert(t),
           NEW k, k = call[t].key, NEW now, now = call[t].now
    PROVE  Promise!Next
<1>1. TypeInv /\ TypeOK /\ Timeline /\ LedgerInv
  BY DEF RefinementInv, KeyInv, TypeInv, LedgerInv, ClaimInv
<1>2. PICK r \in Free :
        /\ shards' = [shards EXCEPT ![k] = r]
        /\ tokens' = [tokens EXCEPT ![r] = scaled_capacity]
        /\ last_refill' = [last_refill EXCEPT ![r] = now]
        /\ granted' = [granted EXCEPT ![r] = 0]
        /\ state' = [state EXCEPT ![t] = r]
  BY DEF Insert
<1>3. /\ k \in Key /\ now \in Nat /\ now <= clock /\ clock \in Nat
      /\ shards[k] = NoRef /\ clock' = clock
  BY <1>1, BucketAssumption, MathAssumption DEF TypeOK, Timeline, Insert, u64
<1>4. /\ r \in Ref /\ r # NoRef
      /\ \A j \in Key : shards[j] # r
  BY BucketAssumption DEF Free
<1>5. /\ \A q \in Ref : Outstanding(q)' = Outstanding(q)
      /\ Outstanding(r) = {}
  <2>1. ASSUME NEW q \in Ref PROVE Outstanding(q)' = Outstanding(q) /\ Outstanding(r) = {}
    BY <1>1, <1>2, ClaimInvIsClockInv, InsertOutstanding DEF LedgerInv
  <2> QED BY <1>4, <2>1
<1>6. Cardinality(Outstanding(r)') = 0
  <2>1. Outstanding(r)' = {}
    BY <1>4, <1>5
  <2> QED BY <2>1, FS_EmptySet
<1>7. /\ shards'[k] = r /\ tokens'[r] = scaled_capacity
      /\ last_refill'[r] = now /\ granted'[r] = 0
  BY <1>1, <1>2, <1>3, <1>4 DEF TypeOK
<1>8. /\ level[k] = scaled_capacity /\ backlog[k] = clock /\ taken[k] = 0
  BY <1>3 DEF level, backlog, taken
<1>9. /\ level'[k] = scaled_capacity
      /\ taken'[k] = 0
      /\ backlog'[k] = clock - now
  <2>1. backlog'[k] = clock' - last_refill'[shards'[k]] + Cardinality(Outstanding(shards[k]))'
    BY <1>3, <1>4, <1>7 DEF backlog
  <2>2. Cardinality(Outstanding(shards[k]))' = 0
    BY <1>6, <1>7
  <2> QED BY <1>3, <1>4, <1>7, <2>1, <2>2 DEF level, taken
<1>10. ASSUME NEW j \in Key, j # k
       PROVE  level'[j] = level[j] /\ taken'[j] = taken[j] /\ backlog'[j] = backlog[j]
  <2>1. shards'[j] = shards[j]
    BY <1>1, <1>2, <1>10 DEF TypeOK
  <2>2. CASE shards[j] = NoRef
    BY <1>3, <2>1, <2>2 DEF level, taken, backlog
  <2>3. CASE shards[j] # NoRef
    <3>1. shards[j] \in Ref /\ shards[j] # r
      BY <1>1, <1>4, <2>3 DEF TypeOK
    <3>2. /\ tokens'[shards[j]] = tokens[shards[j]]
          /\ last_refill'[shards[j]] = last_refill[shards[j]]
          /\ granted'[shards[j]] = granted[shards[j]]
      BY <1>1, <1>2, <3>1 DEF TypeOK
    <3>3. Cardinality(Outstanding(shards[j]))' = Cardinality(Outstanding(shards[j]))
      BY <1>5, <2>1, <3>1
    <3> QED BY <1>3, <2>1, <2>3, <3>2, <3>3 DEF level, taken, backlog
  <2> QED BY <2>2, <2>3
<1>11. Promise!Credit(k, now, 0)
  <2>1. level' = [level EXCEPT ![k] = Promise!AtMost(@ + 0, scaled_capacity)]
    <3>1. Promise!AtMost(scaled_capacity + 0, scaled_capacity) = scaled_capacity
      BY ConstantsTyped DEF Promise!AtMost
    <3> QED BY <1>3, <1>8, <1>9, <1>10, <3>1 DEF level
  <2>2. backlog' = [backlog EXCEPT ![k] = @ - now]
    BY <1>3, <1>8, <1>9, <1>10 DEF backlog
  <2>3. taken' = taken
    BY <1>3, <1>8, <1>9, <1>10 DEF taken
  <2>4. NANOS_PER_SEC * 0 <= rate_scaled * now
    BY <1>3, ConstantsTyped, MathAssumption
  <2> QED BY <1>3, <2>1, <2>2, <2>3, <2>4 DEF Promise!Credit
<1>12. now \in 0..backlog[k] /\ 0 \in 0..scaled_capacity
  BY <1>3, <1>8, ConstantsTyped
<1> QED BY <1>3, <1>11, <1>12 DEF Promise!Next

\* A claim takes time from the timestamp's side of the backlog to the side that
\* is still to be credited.
LEMMA ClaimRefines ==
    ASSUME RefinementInv, idle_ttl = NoTTL, NEW t \in Thread, Claim(t)
    PROVE  UNCHANGED <<clock, level, backlog, taken>>
<1>1. TypeOK /\ LedgerInv /\ ClaimInv
  BY DEF RefinementInv, KeyInv, TypeInv, LedgerInv
<1>2. /\ state[t] \in Ref /\ claimed(t) \in Nat
      /\ last_refill' = [last_refill EXCEPT ![state[t]] = @ + claimed(t)]
      /\ \A r \in Ref : Cardinality(Outstanding(r)') =
            Cardinality(Outstanding(r)) + (IF r = state[t] THEN claimed(t) ELSE 0)
  BY <1>1, ClaimInvIsClockInv, ClaimMoves
<1>3. UNCHANGED <<clock, shards, tokens, granted>>
  BY DEF Claim, history
<1>4. clock \in Nat
  BY <1>1, BucketAssumption, MathAssumption DEF TypeOK, u64
<1>5. ASSUME NEW k \in Key, shards[k] # NoRef PROVE backlog'[k] = backlog[k]
  <2>1. PICK r \in Ref : r = shards[k]
    BY <1>1, <1>5, FieldsOfMapped
  <2>2. /\ backlog[k] = clock - last_refill[r] + Cardinality(Outstanding(r))
        /\ last_refill[r] \in Nat /\ Cardinality(Outstanding(r)) \in Nat
    BY <1>1, <1>5, <2>1, FieldsOfMapped, ClaimInvIsClockInv, OutstandingFinite DEF TypeOK
  <2>3. backlog'[k] = clock' - last_refill'[r] + Cardinality(Outstanding(r)')
    BY <1>3, <1>5, <2>1 DEF backlog
  <2>4. last_refill'[r] = last_refill[r] + (IF r = state[t] THEN claimed(t) ELSE 0)
    BY <1>1, <1>2, <2>1, <2>2 DEF TypeOK
  <2> QED BY <1>2, <1>3, <1>4, <2>1, <2>2, <2>3, <2>4
<1>6. \A k \in Key : backlog'[k] = backlog[k]
  BY <1>3, <1>5 DEF backlog
<1> QED BY <1>3, <1>6 DEF level, backlog, taken

\* What a thread has claimed is part of its key's backlog, and at an exact rate
\* worth what it credits.
LEMMA CreditRefines ==
    ASSUME ExactRate, RefinementInv, idle_ttl = NoTTL, NEW t \in Thread, Credit(t),
           NEW k, k = call[t].key, NEW s, s = claimed(t),
           NEW x, x = MinOf(added(t), scaled_capacity)
    PROVE  Promise!Next
<1>1. TypeOK /\ LedgerInv /\ ClaimInv /\ pc[t] = "credit"
  BY DEF RefinementInv, KeyInv, TypeInv, LedgerInv, Credit
<1>2. PICK r \in Ref : r = state[t]
  BY <1>1 DEF TypeOK, Consuming
<1>3. k \in Key /\ r # NoRef /\ shards[k] = r /\ \A j \in Key : shards[j] = r => j = k
  BY <1>1, <1>2, WorksOnMapped DEF Consuming
<1>4. /\ s \in Nat /\ s <= Cardinality(Outstanding(r))
      /\ \A q \in Ref : Cardinality(Outstanding(q)') =
            Cardinality(Outstanding(q)) - (IF q = r THEN s ELSE 0)
  BY <1>1, <1>2, ClaimInvIsClockInv, CreditMoves
<1>5. /\ UNCHANGED <<clock, shards, granted, last_refill>>
      /\ tokens' = [tokens EXCEPT ![r] =
                      IF tokens[r] >= scaled_capacity
                      THEN tokens[r]
                      ELSE MinOf(saturating_add(tokens[r], added(t)), scaled_capacity)]
  BY <1>2 DEF Credit, history
<1>6. /\ level[k] = tokens[r] /\ level[k] \in Nat /\ level[k] <= scaled_capacity
      /\ backlog[k] = clock - last_refill[r] + Cardinality(Outstanding(r))
      /\ backlog[k] \in Nat /\ Cardinality(Outstanding(r)) <= backlog[k]
  BY <1>1, <1>3, FieldsOfMapped
<1>7. /\ added(t) \in Nat /\ scaled_capacity \in Nat /\ scaled_capacity < U64_MAX
      /\ x \in 0..scaled_capacity /\ x <= added(t)
  BY <1>1, ClaimInvIsClockInv, AccruedTyped, ConstantsTyped DEF MinOf
<1>8. clock \in Nat /\ last_refill[r] \in Nat /\ Cardinality(Outstanding(r)) \in Nat
  BY <1>1, ClaimInvIsClockInv, OutstandingFinite, BucketAssumption, MathAssumption DEF TypeOK, u64
<1>9. level' = [level EXCEPT ![k] = Promise!AtMost(@ + x, scaled_capacity)]
  <2>1. tokens'[r] = Promise!AtMost(tokens[r] + x, scaled_capacity)
    <3>1. tokens'[r] = IF tokens[r] >= scaled_capacity
                       THEN tokens[r]
                       ELSE MinOf(saturating_add(tokens[r], added(t)), scaled_capacity)
      BY <1>1, <1>5 DEF TypeOK
    <3> QED BY <1>6, <1>7, <3>1, MathAssumption DEF Promise!AtMost, MinOf, saturating_add
  <2>2. \A q \in Ref : q # r => tokens'[q] = tokens[q]
    BY <1>1, <1>5 DEF TypeOK
  <2>3. \A j \in Key : shards[j] # NoRef => shards[j] \in Ref
    BY <1>1 DEF TypeOK
  <2>4. \A j \in Key : level'[j] = IF j = k THEN Promise!AtMost(level[k] + x, scaled_capacity)
                                           ELSE level[j]
    BY <1>3, <1>5, <1>6, <2>1, <2>2, <2>3 DEF level
  <2> QED BY <2>4 DEF level
<1>10. backlog' = [backlog EXCEPT ![k] = @ - s]
  <2>1. backlog'[k] = backlog[k] - s
    <3>1. backlog'[k] = clock' - last_refill'[r] + Cardinality(Outstanding(r)')
      BY <1>3, <1>5 DEF backlog
    <3> QED BY <1>4, <1>5, <1>6, <1>8, <3>1
  <2>2. ASSUME NEW j \in Key, j # k PROVE backlog'[j] = backlog[j]
    <3>1. CASE shards[j] = NoRef
      BY <1>5, <3>1 DEF backlog
    <3>2. CASE shards[j] # NoRef
      <4>1. PICK q \in Ref : q = shards[j]
        BY <1>1, <3>2, FieldsOfMapped
      <4>2. q # r
        BY <1>3, <2>2, <4>1
      <4>3. Cardinality(Outstanding(q)') = Cardinality(Outstanding(q))
        <5>1. Cardinality(Outstanding(q)) \in Nat
          BY <1>1, ClaimInvIsClockInv, OutstandingFinite
        <5> QED BY <1>4, <4>2, <5>1
      <4>4. backlog'[j] = clock' - last_refill'[q] + Cardinality(Outstanding(q)')
        BY <1>5, <3>2, <4>1 DEF backlog
      <4>5. backlog[j] = clock - last_refill[q] + Cardinality(Outstanding(q))
        BY <3>2, <4>1 DEF backlog
      <4> QED BY <1>5, <4>3, <4>4, <4>5
    <3> QED BY <3>1, <3>2
  <2> QED BY <2>1, <2>2 DEF backlog
<1>11. taken' = taken
  BY <1>5 DEF taken
<1>12. NANOS_PER_SEC * x <= rate_scaled * s
  <2>1. rate_scaled * s = NANOS_PER_SEC * added(t)
    BY <1>1, ClaimInvIsClockInv, CreditIsWorthItsClaim
  <2>2. x \in Nat /\ x * NANOS_PER_SEC <= added(t) * NANOS_PER_SEC
    BY <1>7, KeepFactor, MathAssumption
  <2> QED BY <1>7, <2>1, <2>2, MathAssumption
<1>13. Promise!Credit(k, s, x)
  BY <1>5, <1>9, <1>10, <1>11, <1>12 DEF Promise!Credit
<1>14. s \in 0..backlog[k]
  BY <1>4, <1>6, <1>8
<1> QED BY <1>3, <1>7, <1>13, <1>14 DEF Promise!Next

\* A call takes its cost from the level that its key has at that moment.
LEMMA DebitRefines ==
    ASSUME RefinementInv, idle_ttl = NoTTL, NEW t \in Thread, Debit(t), Still,
           NEW k, k = call[t].key, NEW x, x = token_cost(t)
    PROVE  Promise!Next
<1>1. TypeOK /\ LedgerInv /\ ClaimInv /\ CallsCost /\ pc[t] = "debit"
  BY DEF RefinementInv, KeyInv, TypeInv, LedgerInv, Debit
<1>2. PICK r \in Ref : r = state[t]
  BY <1>1 DEF TypeOK, Consuming
<1>3. k \in Key /\ r # NoRef /\ shards[k] = r /\ \A j \in Key : shards[j] = r => j = k
  BY <1>1, <1>2, WorksOnMapped DEF Consuming
<1>4. /\ x = call[t].cost * SCALE /\ x \in Nat /\ x <= tokens[r]
      /\ tokens' = [tokens EXCEPT ![r] = @ - x]
      /\ granted' = [granted EXCEPT ![r] = @ + x]
  BY <1>1, <1>2, DebitTakesTheCost
<1>5. UNCHANGED <<clock, shards, last_refill>>
  BY DEF Debit
<1>6. /\ level[k] = tokens[r] /\ level[k] \in Nat /\ level[k] <= scaled_capacity
      /\ taken[k] = granted[r] /\ taken[k] \in Nat
  BY <1>1, <1>3, FieldsOfMapped
<1>7. x \in 1..scaled_capacity
  <2>1. call[t].cost # 0 /\ call[t].cost \in Nat
    <3>1. call[t].cost \in Cost \cup {0}
      BY <1>1 DEF TypeOK
    <3>2. \A c \in Cost : c \in Nat
      BY BucketAssumption, MathAssumption DEF u64
    <3> QED BY <1>1, <3>1, <3>2 DEF CallsCost
  <2>2. x # 0
    BY <1>4, <2>1, MathAssumption
  <2> QED BY <1>4, <1>6, <2>2, ConstantsTyped
<1>8. /\ \A q \in Ref : tokens'[q] = IF q = r THEN tokens[q] - x ELSE tokens[q]
      /\ \A q \in Ref : granted'[q] = IF q = r THEN granted[q] + x ELSE granted[q]
      /\ \A j \in Key : shards[j] # NoRef => shards[j] \in Ref
  BY <1>1, <1>4 DEF TypeOK
<1>9. level' = [level EXCEPT ![k] = @ - x] /\ taken' = [taken EXCEPT ![k] = @ + x]
  <2>1. \A j \in Key : level'[j] = IF j = k THEN level[j] - x ELSE level[j]
    BY <1>3, <1>5, <1>6, <1>8 DEF level
  <2>2. \A j \in Key : taken'[j] = IF j = k THEN taken[j] + x ELSE taken[j]
    BY <1>3, <1>5, <1>6, <1>8 DEF taken
  <2>3. level' = [level EXCEPT ![k] = @ - x]
    BY <2>1 DEF level
  <2>4. taken' = [taken EXCEPT ![k] = @ + x]
    BY <2>2 DEF taken
  <2> QED BY <2>3, <2>4
<1>10. backlog' = backlog
  <2>1. \A j \in Key : shards[j] # NoRef => Outstanding(shards[j])' = Outstanding(shards[j])
    <3>1. \A q \in Ref : Outstanding(q)' = Outstanding(q)
      BY StillOutstanding
    <3> QED BY <1>5, <1>8, <3>1
  <2> QED BY <1>5, <2>1 DEF backlog
<1>11. Promise!Take(k, x)
  BY <1>4, <1>5, <1>6, <1>9, <1>10 DEF Promise!Take
<1> QED BY <1>3, <1>7, <1>11 DEF Promise!Next

-----------------------------------------------------------------------------

\* Every step of a thread is a step of the ledger, or none.
LEMMA NextRefines ==
    ASSUME ExactRate, RefinementInv, idle_ttl = NoTTL, [Next]_vars
    PROVE  [Promise!Next]_(Promise!vars)
<1>1. TypeInv /\ HoldsMapped
  BY DEF RefinementInv, KeyInv
<1>2. CASE Tick
  BY <1>2, TickRefines DEF Promise!Next
<1>3. ASSUME NEW t \in Thread, Insert(t) PROVE Promise!Next
  BY <1>3, InsertRefines
<1>4. ASSUME NEW t \in Thread, Claim(t) PROVE UNCHANGED Promise!vars
  BY <1>4, ClaimRefines DEF Promise!vars
<1>5. ASSUME NEW t \in Thread, Credit(t) PROVE Promise!Next
  BY <1>5, CreditRefines
<1>6. ASSUME NEW t \in Thread, Debit(t), Still PROVE Promise!Next
  BY <1>6, DebitRefines
<1>7. CASE Still /\ UNCHANGED <<tokens, granted>> /\ clock' = clock /\ shards' = shards
  BY <1>7, UnseenStep DEF Promise!vars
<1>8. clock' = clock \/ Tick
  BY ClockStays
<1>9. shards' = shards \/ \E t \in Thread : Insert(t)
  BY <1>1, MapStays
<1> QED BY <1>1, <1>2, <1>3, <1>4, <1>5, <1>6, <1>7, <1>8, <1>9, StepKinds

\* The threads' interleaved loads, claims, credits and debits add up to a ledger,
\* key by key: at an exact rate, and without a TTL, whatever steps interleave,
\* every debit is covered by the level at that moment and every credit by time
\* that nobody else credits.
THEOREM BucketsImplementLedger ==
    ASSUME ExactRate, idle_ttl = NoTTL
    PROVE  Spec => ImplementsLedger
<1>1. Init => Promise!Init
  BY InitRefines
<1>2. RefinementInv /\ [Next]_vars => [Promise!Next]_(Promise!vars)
  BY NextRefines
<1> QED
  BY <1>1, <1>2, RefinementInvariant, PTL DEF Spec, ImplementsLedger, Promise!Spec

-----------------------------------------------------------------------------
(***************************************************************************)
(* The ledger keeps its promise, whatever implements it.  Nothing here     *)
(* looks inside level, backlog and taken.                                  *)
(***************************************************************************)

\* Every instant is worth its rate once: while it is in the backlog, or once it has
\* become part of the level or of what was taken.
PromiseBalanced ==
    \A k \in Key :
        NANOS_PER_SEC * (level[k] + taken[k]) + rate_scaled * backlog[k]
           <= NANOS_PER_SEC * scaled_capacity + rate_scaled * clock

PromiseInv == Promise!TypeOK /\ PromiseBalanced

\* A portion of the backlog becomes no more than it is worth.
LEMMA PortionIsWorth ==
    ASSUME NEW sec \in Nat, NEW r \in Nat, NEW lev \in Nat, NEW new \in Nat,
           NEW tak \in Nat, NEW b \in Nat, NEW s \in Nat, NEW x \in Nat,
           NEW bound \in Nat,
           new <= lev + x, s <= b, sec * x <= r * s,
           sec * (lev + tak) + r * b <= bound
    PROVE  sec * (new + tak) + r * (b - s) <= bound
<1>1. sec * (new + tak) <= sec * (lev + x + tak)
  OBVIOUS
<1>2. sec * (lev + x + tak) = sec * (lev + tak) + sec * x
  OBVIOUS
<1>3. r * (b - s) = r * b - r * s
  OBVIOUS
<1>4. /\ sec * (new + tak) \in Nat /\ sec * (lev + x + tak) \in Nat
      /\ sec * (lev + tak) \in Nat /\ sec * x \in Nat
      /\ r * b \in Nat /\ r * s \in Nat
  OBVIOUS
<1> QED BY <1>1, <1>2, <1>3, <1>4

\* Every step of the ledger keeps its types and its balance.
LEMMA NextPromiseInv ==
    ASSUME Promise!LedgerAssumption
    PROVE  PromiseInv /\ [Promise!Next]_(Promise!vars) => PromiseInv'
<1> SUFFICES ASSUME PromiseInv, [Promise!Next]_(Promise!vars) PROVE PromiseInv'
  OBVIOUS
<1> USE DEF Promise!LedgerAssumption
<1>1. CASE Promise!Elapse
  <2>1. Promise!TypeOK'
    BY <1>1 DEF PromiseInv, Promise!TypeOK, Promise!Elapse
  <2>2. ASSUME NEW k \in Key
        PROVE  NANOS_PER_SEC * (level'[k] + taken'[k]) + rate_scaled * backlog'[k]
                  <= NANOS_PER_SEC * scaled_capacity + rate_scaled * clock'
    <3>1. /\ level'[k] = level[k] /\ taken'[k] = taken[k]
          /\ backlog'[k] = backlog[k] + 1 /\ clock' = clock + 1
      BY <1>1 DEF Promise!Elapse
    <3>2. /\ level[k] \in Nat /\ taken[k] \in Nat /\ backlog[k] \in Nat /\ clock \in Nat
      BY DEF PromiseInv, Promise!TypeOK
    <3>3. /\ rate_scaled * (backlog[k] + 1) = rate_scaled * backlog[k] + rate_scaled
          /\ rate_scaled * (clock + 1) = rate_scaled * clock + rate_scaled
      BY <3>2
    <3>4. NANOS_PER_SEC * (level[k] + taken[k]) + rate_scaled * backlog[k]
             <= NANOS_PER_SEC * scaled_capacity + rate_scaled * clock
      BY DEF PromiseInv, PromiseBalanced
    <3>5. /\ NANOS_PER_SEC * (level[k] + taken[k]) \in Nat /\ rate_scaled * backlog[k] \in Nat
          /\ NANOS_PER_SEC * scaled_capacity \in Nat /\ rate_scaled * clock \in Nat
      BY <3>2
    <3> QED BY <3>1, <3>3, <3>4, <3>5
  <2> QED BY <2>1, <2>2 DEF PromiseInv, PromiseBalanced
<1>2. ASSUME NEW k \in Key, NEW s \in 0..backlog[k], NEW x \in 0..scaled_capacity,
             Promise!Credit(k, s, x)
      PROVE  PromiseInv'
  <2>1. /\ level[k] \in 0..scaled_capacity /\ taken[k] \in Nat
        /\ backlog[k] \in 0..clock /\ clock \in Nat /\ s \in Nat /\ x \in Nat
    BY DEF PromiseInv, Promise!TypeOK
  <2>2. /\ Promise!AtMost(level[k] + x, scaled_capacity) \in 0..scaled_capacity
        /\ Promise!AtMost(level[k] + x, scaled_capacity) <= level[k] + x
    BY <2>1 DEF Promise!AtMost
  <2>3. Promise!TypeOK'
    BY <1>2, <2>1, <2>2 DEF PromiseInv, Promise!TypeOK, Promise!Credit
  <2>4. NANOS_PER_SEC * (level'[k] + taken'[k]) + rate_scaled * backlog'[k]
           <= NANOS_PER_SEC * scaled_capacity + rate_scaled * clock'
    <3>1. /\ level'[k] = Promise!AtMost(level[k] + x, scaled_capacity) /\ taken'[k] = taken[k]
          /\ backlog'[k] = backlog[k] - s /\ clock' = clock
      BY <1>2 DEF Promise!Credit, PromiseInv, Promise!TypeOK
    <3>2. /\ Promise!AtMost(level[k] + x, scaled_capacity) \in Nat /\ level[k] \in Nat
          /\ backlog[k] \in Nat /\ s <= backlog[k]
          /\ NANOS_PER_SEC * scaled_capacity + rate_scaled * clock \in Nat
      BY <2>1, <2>2
    <3>3. NANOS_PER_SEC * x <= rate_scaled * s
      BY <1>2 DEF Promise!Credit
    <3>4. NANOS_PER_SEC * (level[k] + taken[k]) + rate_scaled * backlog[k]
             <= NANOS_PER_SEC * scaled_capacity + rate_scaled * clock
      BY DEF PromiseInv, PromiseBalanced
    <3> QED BY <2>1, <2>2, <3>1, <3>2, <3>3, <3>4, PortionIsWorth
  <2>5. ASSUME NEW j \in Key, j # k
        PROVE  NANOS_PER_SEC * (level'[j] + taken'[j]) + rate_scaled * backlog'[j]
                  <= NANOS_PER_SEC * scaled_capacity + rate_scaled * clock'
    BY <1>2, <2>5 DEF Promise!Credit, PromiseInv, Promise!TypeOK, PromiseBalanced
  <2> QED BY <2>3, <2>4, <2>5 DEF PromiseInv, PromiseBalanced
<1>3. ASSUME NEW k \in Key, NEW x \in 1..scaled_capacity, Promise!Take(k, x)
      PROVE  PromiseInv'
  <2>1. /\ level[k] \in 0..scaled_capacity /\ taken[k] \in Nat /\ x \in Nat /\ x <= level[k]
    BY <1>3 DEF PromiseInv, Promise!TypeOK, Promise!Take
  <2>2. Promise!TypeOK'
    BY <1>3, <2>1 DEF PromiseInv, Promise!TypeOK, Promise!Take
  <2>3. (level[k] - x) + (taken[k] + x) = level[k] + taken[k]
    BY <2>1
  <2>4. \A j \in Key : level'[j] + taken'[j] = level[j] + taken[j]
    BY <1>3, <2>1, <2>3 DEF PromiseInv, Promise!TypeOK, Promise!Take
  <2>5. backlog' = backlog /\ clock' = clock
    BY <1>3 DEF Promise!Take
  <2> QED BY <2>2, <2>4, <2>5 DEF PromiseInv, PromiseBalanced
<1>4. CASE UNCHANGED Promise!vars
  BY <1>4 DEF PromiseInv, Promise!TypeOK, PromiseBalanced, Promise!vars
<1> QED BY <1>1, <1>2, <1>3, <1>4 DEF Promise!Next

\* The invariant in every state.
LEMMA PromiseInvariant == ASSUME Promise!LedgerAssumption PROVE Promise!Spec => []PromiseInv
<1>1. Promise!Init => PromiseInv
  BY DEF Promise!LedgerAssumption, Promise!Init, PromiseInv, Promise!TypeOK, PromiseBalanced
<1> QED BY <1>1, NextPromiseInv, PTL DEF Promise!Spec

\* The promise a bucket makes by implementing the ledger: no key takes more than
\* its capacity and what its rate is worth over the time gone by.
THEOREM PromiseKept == ASSUME Promise!LedgerAssumption PROVE Promise!Spec => []Promise!RateIsKept
<1>1. ASSUME PromiseInv, NEW k \in Key
      PROVE  NANOS_PER_SEC * taken[k] <= NANOS_PER_SEC * scaled_capacity + rate_scaled * clock
  <2>1. /\ level[k] \in Nat /\ taken[k] \in Nat /\ backlog[k] \in Nat /\ clock \in Nat
    BY <1>1 DEF PromiseInv, Promise!TypeOK
  <2>2. NANOS_PER_SEC * (level[k] + taken[k]) = NANOS_PER_SEC * level[k] + NANOS_PER_SEC * taken[k]
    BY <2>1 DEF Promise!LedgerAssumption
  <2>3. NANOS_PER_SEC * level[k] \in Nat /\ NANOS_PER_SEC * taken[k] \in Nat /\ rate_scaled * backlog[k] \in Nat
        /\ NANOS_PER_SEC * scaled_capacity \in Nat /\ rate_scaled * clock \in Nat
    BY <2>1 DEF Promise!LedgerAssumption
  <2> QED BY <1>1, <2>2, <2>3 DEF PromiseInv, PromiseBalanced
<1>2. PromiseInv => Promise!RateIsKept
  BY <1>1 DEF Promise!RateIsKept
<1> QED BY <1>2, PromiseInvariant, PTL

\* What the ledger promises holds of the buckets: at an exact rate and without a
\* TTL no key is let through more than its capacity and what its rate is worth
\* over the time gone by.
THEOREM KeysKeepTheirRate ==
    ASSUME ExactRate, idle_ttl = NoTTL
    PROVE  Spec => []Promise!RateIsKept
<1>1. Promise!LedgerAssumption
  BY ConstantsTyped, BucketAssumption, MathAssumption DEF Promise!LedgerAssumption, u64
<1>2. Promise!Spec => []Promise!RateIsKept
  BY <1>1, PromiseKept
<1> QED BY <1>2, BucketsImplementLedger, PTL DEF ImplementsLedger

-----------------------------------------------------------------------------
(***************************************************************************)
(* Bursts                                                                  *)
(*                                                                         *)
(* What a key can still be let through at this instant is what its bucket  *)
(* holds, a capacity for each call on it that lags behind the clock, and   *)
(* one more if the time up to the clock is still unclaimed.                *)
(***************************************************************************)

BeforeClaim == {"sweep", "lookup", "insert", "touch", "load_refill", "claim"}

\* The calls on k that may yet credit time of before this instant.
Lagging(k) ==
    {t \in Thread : /\ call[t].key = k
                    /\ \/ pc[t] \in BeforeClaim /\ call[t].now < clock
                       \/ pc[t] = "credit"}

\* Whether a call that starts now would find something to claim.
Unclaimed(k) ==
    IF refill_tokens(saturating_sub(clock, last_refill[shards[k]]), rate_scaled) = 0
    THEN 0 ELSE 1

Supplies(k) == Cardinality(Lagging(k)) + Unclaimed(k)

\* What a key was let through at this instant and what it can still be.
BurstCovered(k) ==
    \/ admitted_now[k] = 0
    \/ /\ shards[k] # NoRef
       /\ admitted_now[k] + tokens[shards[k]] + scaled_capacity * Supplies(k)
             <= scaled_capacity * (1 + Cardinality(Thread))

\* Whoever is about to claim has found something to claim.
ClaimAccrues == \A t \in Thread : pc[t] = "claim" => added(t) > 0

BurstInv ==
    /\ RefinementInv /\ CaughtUp /\ ClaimAccrues
    /\ admitted_now \in [Key -> Nat]
    /\ \A k \in Key : BurstCovered(k)

\* A thread claims what it has just found.
LEMMA NextClaimAccrues == TypeInv /\ ClaimAccrues /\ [Next]_vars => ClaimAccrues'
<1> SUFFICES ASSUME TypeInv, ClaimAccrues, [Next]_vars, NEW u \in Thread, pc'[u] = "claim"
             PROVE  added(u)' > 0
  BY DEF ClaimAccrues
<1> USE DEF TypeInv, TypeOK, Goto
<1> DEFINE Stays == pc[u] = "claim" /\ loaded'[u] = loaded[u] /\ call'[u] = call[u]
<1>1. CASE UNCHANGED vars \/ Tick
  <2>1. Stays
    BY <1>1 DEF vars, Tick
  <2> QED BY <2>1 DEF ClaimAccrues, added, accrued_since
<1>2. ASSUME NEW t \in Thread, LoadRefill(t), t = u PROVE added(u)' > 0
  BY <1>2 DEF LoadRefill, added, accrued_since
<1>3. ASSUME NEW t \in Thread, Calling(t) \/ Running(t), ~(LoadRefill(t) /\ t = u) PROVE Stays
  <2>1. CASE Calling(t)
    BY <2>1 DEF Calling, Check, CheckAndSweep, Begin
  <2>2. CASE CleanupIdle(t)
    BY <2>2 DEF CleanupIdle, ScanEntry, RemoveExpired, NextShard
  <2>3. CASE FindBucket(t)
    BY <2>3 DEF FindBucket, Lookup, Insert, AlreadyInserted
  <2>4. CASE Touch(t) \/ Claiming(t) \/ Credit(t)
    BY <1>3, <2>4 DEF Touch, Claiming, NothingAccrued, LoadRefill, Claim, ClaimFails, Credit
  <2>5. CASE Deciding(t)
    BY <2>5 DEF Deciding, LoadTokens, Deny, Debit, DebitFails, Return
  <2> QED BY <1>3, <2>1, <2>2, <2>3, <2>4, <2>5 DEF Running, TryConsume
<1>4. Stays => added(u)' > 0
  BY DEF ClaimAccrues, added, accrued_since
<1> QED BY <1>1, <1>2, <1>3, <1>4 DEF Next

\* A step of a thread is one of the four that move tokens, timestamps or buckets, or
\* it moves none of them.
LEMMA ThreadStepKinds ==
    ASSUME HoldsMapped, idle_ttl = NoTTL, NEW t \in Thread, Calling(t) \/ Running(t)
    PROVE  /\ clock' = clock
           /\ \/ Insert(t) \/ Claim(t) \/ Credit(t) \/ Debit(t)
              \/ UNCHANGED <<tokens, last_refill, shards>>
<1> USE DEF shared
<1>1. CASE Calling(t)
  BY <1>1 DEF Calling, Check, CheckAndSweep, Begin
<1>2. CASE CleanupIdle(t)
  BY <1>2 DEF HoldsMapped, CleanupIdle, ScanEntry, RemoveExpired, NextShard
<1>3. CASE FindBucket(t)
  BY <1>3 DEF FindBucket, Lookup, Insert, AlreadyInserted
<1>4. CASE Touch(t) \/ Claiming(t) \/ Credit(t)
  BY <1>4 DEF Touch, Claiming, NothingAccrued, LoadRefill, Claim, ClaimFails, Credit
<1>5. CASE Deciding(t)
  BY <1>5 DEF Deciding, LoadTokens, Deny, Debit, DebitFails
<1> QED BY <1>1, <1>2, <1>3, <1>4, <1>5 DEF Running, TryConsume

\* No step of a thread makes a call lag behind the clock, but for the claim of one
\* that is up to date: it has its credit before it.
LEMMA LaggingStep ==
    ASSUME TypeInv, Timeline, NEW t \in Thread, Calling(t) \/ Running(t), NEW k \in Key
    PROVE  /\ \A u \in Lagging(k)' : u \in Lagging(k) \/ (u = t /\ Claim(t) /\ call[t].key = k)
           /\ Credit(t) /\ call[t].key = k => t \in Lagging(k) /\ t \notin Lagging(k)'
           /\ Debit(t) => t \notin Lagging(k)'
<1> USE DEF TypeInv, TypeOK, Goto, BeforeClaim
<1> DEFINE Kept(u) == u \in Lagging(k)' => u \in Lagging(k)
<1>1. clock \in Nat /\ \A u \in Thread : call[u].now \in Nat
  BY BucketAssumption, MathAssumption DEF u64
<1>2. CASE Calling(t)
  <2>1. \A u \in Thread : Kept(u)
    BY <1>1, <1>2 DEF Calling, Check, CheckAndSweep, Begin, Lagging
  <2>2. ~Credit(t) /\ ~Debit(t)
    BY <1>2 DEF Calling, Check, CheckAndSweep, Begin, Credit, Debit
  <2> QED BY <2>1, <2>2 DEF Lagging
<1>3. CASE CleanupIdle(t) \/ FindBucket(t) \/ Touch(t)
  <2>1. \A u \in Thread : Kept(u)
    BY <1>3 DEF CleanupIdle, ScanEntry, RemoveExpired, NextShard, FindBucket, Lookup, Insert,
                AlreadyInserted, Touch, Lagging
  <2>2. ~Credit(t) /\ ~Debit(t)
    BY <1>3 DEF CleanupIdle, ScanEntry, RemoveExpired, NextShard, FindBucket, Lookup, Insert,
                AlreadyInserted, Touch, Credit, Debit
  <2> QED BY <2>1, <2>2 DEF Lagging
<1>4. CASE NothingAccrued(t) \/ LoadRefill(t) \/ ClaimFails(t)
  <2>1. \A u \in Thread : Kept(u)
    BY <1>4 DEF NothingAccrued, LoadRefill, ClaimFails, Lagging
  <2>2. ~Credit(t) /\ ~Debit(t)
    BY <1>4 DEF NothingAccrued, LoadRefill, ClaimFails, Credit, Debit
  <2> QED BY <2>1, <2>2 DEF Lagging
<1>5. CASE Claim(t)
  <2>1. \A u \in Thread : Kept(u) \/ (u = t /\ call[t].key = k)
    BY <1>5 DEF Claim, Lagging
  <2>2. ~Credit(t) /\ ~Debit(t)
    BY <1>5 DEF Claim, Credit, Debit
  <2> QED BY <1>5, <2>1, <2>2 DEF Lagging
<1>6. CASE Credit(t)
  <2>1. \A u \in Thread : Kept(u)
    BY <1>6 DEF Credit, Lagging
  <2>2. pc[t] = "credit" /\ pc'[t] = "load_tokens" /\ ~Debit(t)
    BY <1>6 DEF Credit, Debit
  <2> QED BY <2>1, <2>2 DEF Lagging
<1>7. CASE Deciding(t)
  <2>1. \A u \in Thread : Kept(u)
    BY <1>7 DEF Deciding, LoadTokens, Deny, Debit, DebitFails, Return, Lagging
  <2>2. ~Credit(t) /\ (Debit(t) => pc'[t] = "idle")
    BY <1>7 DEF Deciding, LoadTokens, Deny, Debit, DebitFails, Return, Credit
  <2> QED BY <2>1, <2>2 DEF Lagging
<1> QED BY <1>2, <1>3, <1>4, <1>5, <1>6, <1>7 DEF Running, TryConsume, Claiming

\* What a key can still be let through goes down by what it is let through: credits
\* use up a supply, debits use up tokens.
LEMMA BurstBalance ==
    ASSUME NEW cap \in Nat, NEW bound \in Nat,
           NEW adm \in Nat, NEW tok \in Nat, NEW m \in Nat,
           NEW adm1 \in Nat, NEW tok1 \in Nat, NEW m1 \in Nat,
           \/ m1 <= m /\ adm1 + tok1 <= adm + tok
           \/ m1 + 1 <= m /\ adm1 + tok1 <= adm + tok + cap,
           adm + tok + cap * m <= bound
    PROVE  adm1 + tok1 + cap * m1 <= bound
<1>1. cap * m \in Nat /\ cap * m1 \in Nat
  OBVIOUS
<1>2. CASE m1 <= m /\ adm1 + tok1 <= adm + tok
  <2>1. cap * m1 <= cap * m
    <3>1. m1 * cap <= m * cap
      BY <1>2, KeepFactor
    <3> QED BY <3>1
  <2> QED BY <1>1, <1>2, <2>1
<1>3. CASE m1 + 1 <= m /\ adm1 + tok1 <= adm + tok + cap
  <2>1. cap * m1 + cap <= cap * m
    <3>1. (m1 + 1) * cap <= m * cap
      BY <1>3, KeepFactor
    <3>2. (m1 + 1) * cap = cap * m1 + cap
      OBVIOUS
    <3> QED BY <3>1, <3>2
  <2> QED BY <1>1, <1>3, <2>1
<1> QED BY <1>2, <1>3

\* There are at most as many supplies as threads, and one.
LEMMA SuppliesTyped ==
    ASSUME IsFiniteSet(Thread), NEW k \in Key
    PROVE  /\ IsFiniteSet(Lagging(k)) /\ Cardinality(Lagging(k)) \in Nat
           /\ Unclaimed(k) \in {0, 1}
           /\ Supplies(k) \in Nat
           /\ \A t \in Thread : t \notin Lagging(k) => Supplies(k) <= Cardinality(Thread)
<1>1. Lagging(k) \in SUBSET Thread
  BY DEF Lagging
<1>2. IsFiniteSet(Lagging(k)) /\ Cardinality(Lagging(k)) \in Nat /\ Unclaimed(k) \in {0, 1}
  BY <1>1, FS_Subset, FS_CardinalityType DEF Unclaimed
<1>3. ASSUME NEW t \in Thread, t \notin Lagging(k)
      PROVE  Cardinality(Lagging(k)) + 1 <= Cardinality(Thread)
  <2>1. Cardinality(Lagging(k) \cup {t}) = Cardinality(Lagging(k)) + 1
    BY <1>2, <1>3, FS_AddElement
  <2>2. Lagging(k) \cup {t} \in SUBSET Thread
    BY <1>1
  <2> QED BY <2>1, <2>2, FS_Subset
<1>4. Cardinality(Thread) \in Nat
  BY FS_CardinalityType
<1> QED BY <1>2, <1>3, <1>4 DEF Supplies

\* Time that is claimed stays claimed.
LEMMA UnclaimedStep ==
    ASSUME TypeInv, TypeOK', Forward, UNCHANGED clock, NEW k \in Key,
           shards[k] # NoRef, shards'[k] = shards[k]
    PROVE  Unclaimed(k)' <= Unclaimed(k)
<1>1. /\ shards[k] \in Ref /\ shards[k] \notin Free
      /\ last_refill[shards[k]] \in Nat /\ last_refill'[shards[k]] \in Nat /\ clock \in Nat
  BY BucketAssumption, MathAssumption DEF TypeInv, TypeOK, Free, u64
<1>2. last_refill[shards[k]] <= last_refill'[shards[k]]
  BY <1>1 DEF Forward
<1> QED BY <1>1, <1>2, LaterTimestamp, ConstantsTyped DEF Unclaimed

\* A claim by a call that is up to date leaves nothing unclaimed, and there was something.
LEMMA ClaimUsesUp ==
    ASSUME BurstInv, CaughtUp', idle_ttl = NoTTL, NEW t \in Thread, Claim(t),
           call[t].now = clock, UNCHANGED clock, NEW k, k = call[t].key
    PROVE  Unclaimed(k) = 1 /\ Unclaimed(k)' = 0
<1>1. TypeOK /\ pc[t] = "claim" /\ shards[k] = state[t] /\ state[t] # NoRef
  BY WorksOnMapped DEF BurstInv, RefinementInv, KeyInv, TypeInv, Claim, Consuming
<1>2. /\ last_refill[state[t]] = loaded[t] /\ call' = call /\ state' = state /\ shards' = shards
      /\ pc'[t] = "credit"
  BY <1>1 DEF Claim, Goto, TypeOK
<1>3. Unclaimed(k) = 1
  BY <1>1, <1>2 DEF BurstInv, ClaimAccrues, added, accrued_since, Unclaimed
<1>4. Unclaimed(k)' = 0
  BY <1>1, <1>2 DEF BurstInv, CaughtUp, accrued_since, Unclaimed
<1> QED BY <1>3, <1>4

\* No step of a thread adds to the supplies, and a credit uses one up.
LEMMA SuppliesStep ==
    ASSUME BurstInv, CaughtUp', TypeOK', Forward, idle_ttl = NoTTL, IsFiniteSet(Thread),
           NEW t \in Thread, Calling(t) \/ Running(t), UNCHANGED clock,
           NEW k \in Key, shards[k] # NoRef, shards'[k] = shards[k]
    PROVE  /\ Supplies(k)' \in Nat /\ Supplies(k)' <= Supplies(k)
           /\ Credit(t) /\ call[t].key = k => Supplies(k)' + 1 <= Supplies(k)
<1> DEFINE L == Lagging(k)
           M == Lagging(k)'
<1>1. TypeInv /\ TypeOK /\ Timeline
  BY DEF BurstInv, RefinementInv, LedgerInv, ClaimInv, TypeInv
<1>2. /\ IsFiniteSet(L) /\ Cardinality(L) \in Nat /\ IsFiniteSet(M) /\ Cardinality(M) \in Nat
      /\ Unclaimed(k) \in {0, 1} /\ Unclaimed(k)' \in {0, 1}
  <2>1. M \in SUBSET Thread
    BY DEF Lagging
  <2>2. IsFiniteSet(M) /\ Cardinality(M) \in Nat
    BY <2>1, FS_Subset, FS_CardinalityType
  <2>3. Unclaimed(k)' \in {0, 1}
    BY DEF Unclaimed
  <2> QED BY <2>2, <2>3, SuppliesTyped
<1>3. Unclaimed(k)' <= Unclaimed(k)
  BY <1>1, UnclaimedStep
<1>4. /\ \A u \in M : u \in L \/ (u = t /\ Claim(t) /\ call[t].key = k)
      /\ Credit(t) /\ call[t].key = k => t \in L /\ t \notin M
  BY <1>1, LaggingStep
<1> HIDE DEF L, M
<1>5. CASE M \subseteq L
  <2>1. Cardinality(M) <= Cardinality(L)
    BY <1>2, <1>5, FS_Subset
  <2>2. ASSUME Credit(t), call[t].key = k PROVE Cardinality(M) + 1 <= Cardinality(L)
    <3>1. M \in SUBSET (L \ {t}) /\ IsFiniteSet(L \ {t}) /\ Cardinality(L \ {t}) = Cardinality(L) - 1
      BY <1>2, <1>4, <1>5, <2>2, FS_RemoveElement
    <3> QED BY <1>2, <3>1, FS_Subset
  <2> QED BY <1>2, <1>3, <2>1, <2>2 DEF Supplies, L, M
<1>6. CASE ~(M \subseteq L)
  <2>1. Claim(t) /\ call[t].key = k /\ t \notin L /\ M \in SUBSET (L \cup {t})
    BY <1>4, <1>6
  <2>2. call[t].now = clock
    <3>1. pc[t] = "claim" /\ ~(call[t].now < clock)
      BY <2>1 DEF Claim, Lagging, BeforeClaim, L
    <3>2. call[t].now \in Nat /\ clock \in Nat /\ call[t].now <= clock
      BY <1>1, BucketAssumption, MathAssumption DEF TypeOK, Timeline, u64
    <3> QED BY <3>1, <3>2
  <2>3. Unclaimed(k) = 1 /\ Unclaimed(k)' = 0
    BY <2>1, <2>2, ClaimUsesUp
  <2>4. IsFiniteSet(L \cup {t}) /\ Cardinality(L \cup {t}) = Cardinality(L) + 1
    BY <1>2, <2>1, FS_AddElement
  <2>5. Cardinality(M) <= Cardinality(L) + 1
    BY <2>1, <2>4, FS_Subset
  <2>6. ~Credit(t)
    BY <2>1 DEF Claim, Credit
  <2> QED BY <1>2, <2>3, <2>5, <2>6 DEF Supplies, L, M
<1> QED BY <1>5, <1>6

\* What is in the bucket of a key after a step of a thread, by what the step is.
LEMMA BucketStep ==
    ASSUME BurstInv, LedgerInv', idle_ttl = NoTTL, NEW t \in Thread, Calling(t) \/ Running(t),
           NEW k \in Key, shards[k] # NoRef
    PROVE  /\ shards'[k] = shards[k]
           /\ tokens[shards[k]] \in Nat /\ tokens'[shards[k]] \in Nat
           /\ tokens'[shards[k]] <= scaled_capacity
           /\ LET x == token_cost(t) IN
              \/ tokens'[shards[k]] = tokens[shards[k]] /\ ~(Debit(t) /\ call[t].key = k)
              \/ Credit(t) /\ call[t].key = k /\ ~Debit(t)
              \/ /\ Debit(t) /\ call[t].key = k
                 /\ x \in Nat /\ call[t].cost * SCALE = x
                 /\ tokens'[shards[k]] + x = tokens[shards[k]]
<1> DEFINE r == shards[k]
<1>1. /\ TypeOK /\ LedgerInv /\ TypeOK' /\ HoldsMapped /\ RefinementInv
      /\ Ledger'
  BY DEF BurstInv, RefinementInv, LedgerInv, ClaimInv, TypeInv
<1>2. r \in Ref /\ r \notin Free /\ tokens[r] \in Nat /\ tokens'[r] \in Nat
  BY <1>1 DEF TypeOK, Free
<1>3. tokens'[r] <= scaled_capacity
  BY <1>1, <1>2 DEF Ledger
<1>4. CASE UNCHANGED <<tokens, last_refill, shards>> /\ ~Debit(t)
  BY <1>2, <1>3, <1>4
<1>5. CASE Insert(t)
  <2>1. shards'[k] = r /\ tokens'[r] = tokens[r]
    BY <1>1, <1>2, <1>5 DEF Insert, TypeOK
  <2>2. ~Debit(t)
    BY <1>5 DEF Insert, Debit
  <2> QED BY <1>2, <1>3, <2>1, <2>2
<1>6. CASE Claim(t)
  <2>1. ~Debit(t) /\ shards' = shards /\ tokens' = tokens
    BY <1>6 DEF Claim, Debit
  <2> QED BY <1>2, <1>3, <2>1
<1>7. CASE Credit(t)
  <2>1. ~Debit(t) /\ shards' = shards /\ pc[t] \in Consuming
    BY <1>7 DEF Credit, Debit, Consuming
  <2>2. call[t].key = k \/ state[t] # r
    BY <1>1, <2>1, WorksOnMapped
  <2>3. state[t] # r => tokens'[r] = tokens[r]
    BY <1>1, <1>2, <1>7 DEF Credit, TypeOK
  <2> QED BY <1>2, <1>3, <1>7, <2>1, <2>2, <2>3
<1>8. CASE Debit(t)
  <2>1. /\ state[t] \in Ref /\ token_cost(t) = call[t].cost * SCALE /\ token_cost(t) \in Nat
        /\ tokens' = [tokens EXCEPT ![state[t]] = @ - token_cost(t)]
    BY <1>1, <1>8, DebitTakesTheCost
  <2>2. shards' = shards /\ pc[t] \in Consuming
    BY <1>8 DEF Debit, Consuming
  <2>3. /\ shards[call[t].key] = state[t]
        /\ state[t] = r => call[t].key = k
    BY <1>1, <2>2, WorksOnMapped
  <2>4. CASE call[t].key = k
    <3>1. tokens'[r] + token_cost(t) = tokens[r]
      BY <1>1, <1>2, <2>1, <2>3, <2>4 DEF TypeOK
    <3> QED BY <1>2, <1>3, <1>8, <2>1, <2>2, <2>4, <3>1
  <2>5. CASE call[t].key # k
    <3>1. tokens'[r] = tokens[r]
      BY <1>1, <1>2, <2>1, <2>3, <2>5 DEF TypeOK
    <3> QED BY <1>2, <1>3, <2>2, <2>5, <3>1
  <2> QED BY <2>4, <2>5
<1> QED BY <1>1, <1>4, <1>5, <1>6, <1>7, <1>8, ThreadStepKinds

\* A step that lets something through the bucket of a key, or nothing, keeps the burst
\* covered: the first of an instant is by a call that no longer lags.
LEMMA ThreadBurst ==
    ASSUME BurstInv, LedgerInv', CaughtUp', Forward, idle_ttl = NoTTL, IsFiniteSet(Thread),
           NEW t \in Thread, Calling(t) \/ Running(t), UNCHANGED clock, NEW k \in Key,
           NEW x, x = LetThrough(t, k), admitted_now'[k] = admitted_now[k] + x
    PROVE  admitted_now'[k] \in Nat /\ BurstCovered(k)'
<1> DEFINE r == shards[k]
           N == Cardinality(Thread)
           cap == scaled_capacity
           bound == cap * (1 + N)
<1>1. /\ TypeInv /\ TypeOK /\ TypeOK' /\ RefinementInv /\ LedgerInv /\ Timeline
      /\ admitted_now[k] \in Nat
  BY DEF BurstInv, RefinementInv, LedgerInv, ClaimInv, TypeInv
<1>2. N \in Nat /\ cap \in Nat /\ bound \in Nat
  BY FS_CardinalityType, ConstantsTyped
<1>3. CASE ~(Debit(t) /\ call[t].key = k) /\ admitted_now[k] = 0
  <2>1. x = 0
    BY <1>3 DEF LetThrough
  <2> QED BY <1>3, <2>1 DEF BurstCovered
<1>4. ASSUME shards[k] # NoRef, ~(admitted_now[k] = 0 /\ ~(Debit(t) /\ call[t].key = k))
      PROVE  admitted_now'[k] \in Nat /\ BurstCovered(k)'
  <2>1. /\ shards'[k] = r /\ tokens[r] \in Nat /\ tokens'[r] \in Nat /\ tokens'[r] <= cap
        /\ LET c == token_cost(t) IN
           \/ tokens'[r] = tokens[r] /\ ~(Debit(t) /\ call[t].key = k)
           \/ Credit(t) /\ call[t].key = k /\ ~Debit(t)
           \/ /\ Debit(t) /\ call[t].key = k
              /\ c \in Nat /\ call[t].cost * SCALE = c
              /\ tokens'[r] + c = tokens[r]
    BY <1>4, BucketStep
  <2>2. x \in Nat /\ (Debit(t) /\ call[t].key = k => tokens'[r] + x = tokens[r])
        /\ (~(Debit(t) /\ call[t].key = k) => x = 0)
    BY <2>1 DEF LetThrough
  <2>3. admitted_now'[k] \in Nat
    BY <1>1, <2>2
  <2>4. /\ Supplies(k) \in Nat /\ Supplies(k)' \in Nat /\ Supplies(k)' <= Supplies(k)
        /\ Credit(t) /\ call[t].key = k => Supplies(k)' + 1 <= Supplies(k)
    BY <1>1, <1>4, <2>1, SuppliesStep, SuppliesTyped
  <2>5. SUFFICES admitted_now'[k] + tokens'[r] + cap * Supplies(k)' <= bound
    BY <1>4, <2>1, <2>3 DEF BurstCovered
  <2>6. CASE admitted_now[k] # 0
    <3>1. admitted_now[k] + tokens[r] + cap * Supplies(k) <= bound
      BY <1>1, <2>6 DEF BurstInv, BurstCovered
    <3>2. \/ admitted_now'[k] + tokens'[r] <= admitted_now[k] + tokens[r]
          \/ /\ Supplies(k)' + 1 <= Supplies(k)
             /\ admitted_now'[k] + tokens'[r] <= admitted_now[k] + tokens[r] + cap
      BY <1>1, <1>2, <2>1, <2>2, <2>4
    <3> HIDE DEF cap, bound, r
    <3> QED BY <1>1, <1>2, <2>1, <2>3, <2>4, <3>1, <3>2, BurstBalance
  <2>7. CASE admitted_now[k] = 0
    <3>1. Debit(t) /\ call[t].key = k
      BY <1>4, <2>7
    <3>2. t \notin Lagging(k)
      BY <3>1 DEF Debit, Lagging, BeforeClaim
    <3>3. Supplies(k)' <= N
      BY <1>1, <1>2, <2>4, <3>2, SuppliesTyped
    <3>4. admitted_now'[k] + tokens'[r] <= cap
      <4>1. tokens[r] <= cap
        BY <1>1, <1>4 DEF LedgerInv, Ledger, TypeOK
      <4> QED BY <1>1, <1>2, <2>1, <2>2, <2>7, <3>1, <4>1
    <3>5. cap * Supplies(k)' <= cap * N /\ cap * Supplies(k)' \in Nat /\ cap * N \in Nat
      <4>1. Supplies(k)' * cap <= N * cap
        BY <1>2, <2>4, <3>3, KeepFactor
      <4> QED BY <1>2, <2>4, <4>1
    <3>6. bound = cap * N + cap
      BY <1>2
    <3> QED BY <1>2, <2>1, <2>3, <3>4, <3>5, <3>6
  <2> QED BY <1>1, <2>6, <2>7
<1>5. CASE shards[k] = NoRef
  <2>1. admitted_now[k] = 0
    BY <1>5 DEF BurstInv, BurstCovered
  <2>2. ~(Debit(t) /\ call[t].key = k)
    BY <1>1, <1>5, WorksOnMapped DEF Debit, Consuming
  <2> QED BY <1>3, <2>1, <2>2
<1> QED BY <1>3, <1>4, <1>5

\* Every step keeps bursts covered: at the next instant they start again.
LEMMA NextBurstInv ==
    ASSUME ExactRate, idle_ttl = NoTTL, IsFiniteSet(Thread)
    PROVE  BurstInv /\ [BurstNext]_burst_vars => BurstInv'
<1> SUFFICES ASSUME BurstInv, [BurstNext]_burst_vars PROVE BurstInv'
  OBVIOUS
<1>1. [Next]_vars
  BY DEF BurstNext, burst_vars, Next
<1>2. /\ RefinementInv /\ LedgerInv /\ KeyInv /\ HoldsMapped /\ CallsCost /\ CaughtUp
      /\ ClaimAccrues /\ TypeInv /\ ClaimInv /\ ClockInv /\ admitted_now \in [Key -> Nat]
  BY ClaimInvIsClockInv DEF BurstInv, RefinementInv, LedgerInv, ClaimInv
<1>3. LedgerInv'
  BY <1>1, <1>2, NextClaimInv, NextLedger DEF LedgerInv
<1>4. RefinementInv' /\ CaughtUp' /\ ClaimAccrues' /\ Forward
  BY <1>1, <1>2, <1>3, NextKeyInv, NextHoldsMapped, NextCallsCost, NextCaughtUp,
     NextClaimAccrues, EveryStepIsClockStep, NextForward DEF RefinementInv
<1>5. admitted_now' \in [Key -> Nat] /\ \A k \in Key : BurstCovered(k)'
  <2>1. CASE UNCHANGED burst_vars
    <3>1. \A k \in Key : BurstCovered(k)'
      BY <2>1 DEF BurstInv, BurstCovered, Supplies, Lagging, Unclaimed, burst_vars, vars, shared
    <3> QED BY <1>2, <2>1, <3>1 DEF burst_vars
  <2>2. CASE Tick /\ admitted_now' = [k \in Key |-> 0]
    BY <2>2 DEF BurstCovered
  <2>3. ASSUME NEW t \in Thread, Calling(t) \/ Running(t),
               admitted_now' = [k \in Key |-> admitted_now[k] + LetThrough(t, k)]
        PROVE  admitted_now' \in [Key -> Nat] /\ \A k \in Key : BurstCovered(k)'
    <3>1. UNCHANGED clock
      BY <1>2, <2>3, ThreadStepKinds
    <3>2. ASSUME NEW k \in Key PROVE admitted_now'[k] \in Nat /\ BurstCovered(k)'
      <4>1. admitted_now'[k] = admitted_now[k] + LetThrough(t, k)
        BY <2>3
      <4> QED BY <1>3, <1>4, <2>3, <3>1, <4>1, ThreadBurst
    <3> QED BY <2>3, <3>2
  <2> QED BY <2>1, <2>2, <2>3 DEF BurstNext
<1> QED BY <1>4, <1>5 DEF BurstInv

\* However many calls have stopped between their claims and their credits: at an exact
\* rate, without a TTL, no key is let through more at one instant than a capacity for
\* each thread and one more.
THEOREM BurstsAreBounded ==
    ASSUME ExactRate, idle_ttl = NoTTL, IsFiniteSet(Thread)
    PROVE  BurstSpec => []BurstIsBounded
<1>1. BurstInit => BurstInv
  <2> SUFFICES ASSUME BurstInit PROVE BurstInv
    OBVIOUS
  <2>1. Init /\ admitted_now = [k \in Key |-> 0]
    BY DEF BurstInit
  <2>2. LedgerInv /\ TypeInv
    BY <2>1, InitLedgerInv, InitTypeInv
  <2>3. KeyInv /\ HoldsMapped /\ CallsCost /\ CaughtUp /\ ClaimAccrues
    BY <2>1, <2>2 DEF Init, KeyInv, OneKeyPerBucket, KeyIsolation, HoldsMapped, CallsCost,
                      CaughtUp, ClaimAccrues
  <2> QED BY <2>1, <2>2, <2>3 DEF BurstInv, RefinementInv, BurstCovered
<1>2. BurstInv => BurstIsBounded
  <2> SUFFICES ASSUME BurstInv, NEW k \in Key
               PROVE  admitted_now[k] <= scaled_capacity * (1 + Cardinality(Thread))
    BY DEF BurstIsBounded
  <2>1. Cardinality(Thread) \in Nat /\ scaled_capacity \in Nat /\ admitted_now[k] \in Nat
        /\ scaled_capacity * (1 + Cardinality(Thread)) \in Nat
    BY FS_CardinalityType, ConstantsTyped DEF BurstInv
  <2>2. CASE shards[k] # NoRef
    <3>1. tokens[shards[k]] \in Nat /\ scaled_capacity * Supplies(k) \in Nat
      <4>1. tokens[shards[k]] \in Nat
        BY <2>2 DEF BurstInv, RefinementInv, KeyInv, TypeInv, TypeOK
      <4> QED BY <2>1, <4>1, SuppliesTyped
    <3> QED BY <2>1, <3>1 DEF BurstInv, BurstCovered
  <2>3. CASE shards[k] = NoRef
    BY <2>1, <2>3 DEF BurstInv, BurstCovered
  <2> QED BY <2>2, <2>3
<1>3. BurstInv /\ [BurstNext]_burst_vars => BurstInv'
  BY NextBurstInv
<1> QED BY <1>1, <1>2, <1>3, PTL DEF BurstSpec

-----------------------------------------------------------------------------
(***************************************************************************)
(* One caller                                                              *)
(*                                                                         *)
(* A caller that meets no other evicts only what is idle, keeps the budget *)
(* of every key across evictions, and makes whole checks.                  *)
(***************************************************************************)

OneCaller == \E t : Thread = {t}

\* The time that the next bucket to be inserted cannot be dated before.
Reading(t) == IF pc[t] = "idle" THEN clock ELSE call[t].now

\* What the caller knows of the map when nobody else changes it.
HoldsAlone(t) ==
    /\ state[t] # NoRef => shards[call[t].key] = state[t]
    /\ pc[t] = "insert" => shards[call[t].key] = NoRef

\* The timestamp of a bucket was last moved by a call that has also left its access
\* time; what is to be removed has not been accessed since it was found expired.
IdleAlone(t) ==
    /\ pc[t] \in Consuming \ {"touch"} => last_access[state[t]] = call[t].now
    /\ \A k \in Key : shards[k] # NoRef =>
          /\ last_refill[shards[k]] <= last_access[shards[k]]
          /\ last_access[shards[k]] <= Reading(t)
    /\ pc[t] # "sweep" => sweep[t].keys_to_remove = {}
    /\ pc[t] = "sweep" => idle_ttl \in Nat
    /\ \A k \in sweep[t].keys_to_remove : shards[k] # NoRef =>
          call[t].now - last_access[shards[k]] >= idle_ttl

AloneInv == ClaimInv /\ KeyInv /\ \A t \in Thread : HoldsAlone(t) /\ IdleAlone(t)

\* Nobody but the caller takes a bucket out of the map or finds another.
LEMMA NextHoldsAlone ==
    ASSUME OneCaller, AloneInv, [Next]_vars, NEW t \in Thread
    PROVE  HoldsAlone(t)'
<1>1. /\ TypeOK /\ KeyInv /\ HoldsAlone(t) /\ \A u \in Thread : u = t
      /\ call[t].key \in Key /\ t \in DOMAIN pc /\ t \in DOMAIN state
  BY DEF AloneInv, KeyInv, TypeInv, TypeOK, OneCaller
<1> USE <1>1 DEF HoldsAlone, Goto
<1>2. CASE UNCHANGED vars \/ Tick
  BY <1>2 DEF vars, shared, Tick
<1>3. CASE Calling(t)
  BY <1>3 DEF Calling, Check, CheckAndSweep, Begin, shared, TypeOK, Consuming
<1>4. CASE CleanupIdle(t)
  <2>1. pc[t] = "sweep" /\ state[t] = NoRef
    BY <1>4 DEF CleanupIdle, ScanEntry, RemoveExpired, NextShard, TypeOK, Consuming
  <2>2. state' = state /\ pc'[t] # "insert"
    BY <1>4, <2>1 DEF CleanupIdle, ScanEntry, RemoveExpired, NextShard, TypeOK
  <2> QED BY <2>1, <2>2
<1>5. CASE Lookup(t) \/ AlreadyInserted(t)
  BY <1>5 DEF Lookup, AlreadyInserted, shared, TypeOK
<1>6. CASE Insert(t)
  BY <1>6 DEF Insert, TypeOK
<1>7. CASE Touch(t) \/ Claiming(t) \/ Credit(t)
  BY <1>7 DEF Touch, Claiming, NothingAccrued, LoadRefill, Claim, ClaimFails, Credit, shared,
              TypeOK
<1>8. CASE Deciding(t)
  BY <1>8 DEF Deciding, LoadTokens, Deny, Debit, DebitFails, Return, shared, TypeOK
<1> QED
  BY <1>2, <1>3, <1>4, <1>5, <1>6, <1>7, <1>8
  DEF Next, Running, FindBucket, TryConsume, Claiming

\* The caller's own claims end by the time it has left as its access.
LEMMA ClaimEndsAtNow ==
    ASSUME AloneInv, NEW t \in Thread, Claim(t)
    PROVE  /\ state[t] \in Ref
           /\ \A r \in Ref : last_refill'[r] \in Nat
           /\ \A r \in Ref \ {state[t]} : last_refill'[r] = last_refill[r]
           /\ last_refill'[state[t]] <= last_access[state[t]]
<1>1. /\ TypeOK /\ ClockInv /\ ClockTypes /\ IdleAlone(t) /\ HoldsAlone(t) /\ pc[t] = "claim"
  BY ClaimInvIsClockInv DEF AloneInv, KeyInv, TypeInv, Claim
<1>2. /\ state[t] \in Ref /\ claimed(t) \in Nat
      /\ last_refill' = [last_refill EXCEPT ![state[t]] = @ + claimed(t)]
  BY <1>1, ClaimMoves
<1>3. last_access[state[t]] = call[t].now /\ last_refill[state[t]] <= last_access[state[t]]
      /\ call[t].key \in Key
  BY <1>1, <1>2, BucketAssumption DEF IdleAlone, HoldsAlone, Consuming, TypeOK
<1>4. claimed(t) <= call[t].now - last_refill[state[t]]
  <2>1. claimed(t) <= saturating_sub(call[t].now, loaded[t]) /\ loaded[t] = last_refill[state[t]]
    BY <1>1, AccruedTyped DEF Claim
  <2>2. call[t].now \in Nat /\ last_refill[state[t]] \in Nat
    BY <1>1, <1>2 DEF TypeOK
  <2> QED BY <1>3, <2>1, <2>2 DEF saturating_sub
<1>5. call[t].now \in Nat /\ \A r \in Ref : last_refill[r] \in Nat
  BY <1>1 DEF TypeOK
<1> QED BY <1>1, <1>2, <1>3, <1>4, <1>5 DEF TypeOK

\* Access times stay behind the caller's clock, and what it is to remove stays idle.
LEMMA NextIdleAlone ==
    ASSUME OneCaller, AloneInv, TypeOK', [Next]_vars, NEW t \in Thread
    PROVE  IdleAlone(t)'
<1>1. /\ TypeOK /\ KeyInv /\ Timeline /\ HoldsAlone(t) /\ IdleAlone(t) /\ \A u \in Thread : u = t
      /\ call[t].key \in Key /\ call[t].now \in Nat /\ call[t].now <= clock /\ clock \in Nat
      /\ OneKeyPerBucket
  BY BucketAssumption, MathAssumption
  DEF AloneInv, ClaimInv, KeyInv, TypeInv, TypeOK, Timeline, OneCaller, u64
<1>2. /\ \A k \in Key : shards[k] # NoRef => shards[k] \in Ref
      /\ \A r \in Ref : last_refill[r] \in Nat /\ last_access[r] \in Nat
      /\ \A r \in Ref : last_refill'[r] \in Nat /\ last_access'[r] \in Nat
      /\ sweep[t].keys_to_remove \subseteq Key
  BY <1>1 DEF TypeOK, SweepState
<1> DEFINE Stamps == UNCHANGED <<shards, last_refill, last_access>>
<1>3. CASE UNCHANGED vars
  BY <1>1, <1>3 DEF vars, shared, IdleAlone, Reading
<1>4. CASE Tick
  BY <1>1, <1>2, <1>4 DEF Tick, shared, IdleAlone, Reading
<1>5. CASE Calling(t)
  <2>1. Stamps /\ pc[t] = "idle" /\ pc'[t] \in {"sweep", "lookup"} /\ call'[t].now = clock
    BY <1>1, <1>5 DEF Calling, Check, CheckAndSweep, Begin, Goto, shared, TypeOK
  <2>2. sweep'[t].keys_to_remove = {} /\ (pc'[t] = "sweep" => idle_ttl \in Nat)
    BY <1>1, <1>5, <2>1, BucketAssumption
    DEF Calling, Check, CheckAndSweep, Begin, Goto, NoSweep, IdleAlone, TypeOK
  <2> QED BY <1>1, <2>1, <2>2 DEF IdleAlone, Reading, Consuming
<1>6. CASE ScanEntry(t)
  <2>1. Stamps /\ UNCHANGED <<pc, call>> /\ pc[t] = "sweep"
    BY <1>6 DEF ScanEntry, shared
  <2>2. \A k \in sweep'[t].keys_to_remove : k \in sweep[t].keys_to_remove \/ (IsExpired(t, k) /\ k \in Key)
    BY <1>1, <1>6 DEF ScanEntry, TypeOK, SweepState
  <2>3. ASSUME NEW k \in Key, IsExpired(t, k), shards[k] # NoRef
        PROVE  call[t].now - last_access[shards[k]] >= idle_ttl
    <3>1. last_access[shards[k]] <= call[t].now /\ last_access[shards[k]] \in Nat
      BY <1>1, <1>2, <2>1, <2>3 DEF IdleAlone, Reading
    <3> QED BY <1>1, <2>3, <3>1 DEF IsExpired, saturating_sub
  <2> QED BY <1>1, <2>1, <2>2, <2>3 DEF IdleAlone, Reading, Consuming
<1>7. CASE RemoveExpired(t)
  <2>1. UNCHANGED <<last_refill, last_access, pc, call>> /\ pc[t] = "sweep"
        /\ sweep'[t].keys_to_remove \subseteq sweep[t].keys_to_remove
        /\ \A k \in Key : shards'[k] # NoRef => shards'[k] = shards[k]
    BY <1>1, <1>7 DEF RemoveExpired, TypeOK, SweepState
  <2>2. ASSUME NEW k \in Key, shards'[k] # NoRef
        PROVE  last_refill'[shards'[k]] <= last_access'[shards'[k]]
               /\ last_access'[shards'[k]] <= call'[t].now
    <3>1. shards'[k] = shards[k] /\ shards[k] # NoRef
      BY <2>1, <2>2
    <3>2. last_refill[shards[k]] <= last_access[shards[k]] /\ last_access[shards[k]] <= call[t].now
      BY <1>1, <2>1, <3>1 DEF IdleAlone, Reading
    <3> QED BY <2>1, <3>1, <3>2
  <2>3. ASSUME NEW k \in sweep'[t].keys_to_remove, shards'[k] # NoRef
        PROVE  call'[t].now - last_access'[shards'[k]] >= idle_ttl
    <3>1. k \in Key /\ k \in sweep[t].keys_to_remove
      BY <1>2, <2>1, <2>3
    <3>2. shards'[k] = shards[k] /\ shards[k] # NoRef
      BY <2>1, <2>3, <3>1
    <3> QED BY <1>1, <2>1, <3>1, <3>2 DEF IdleAlone
  <2>4. pc'[t] = "sweep" /\ idle_ttl \in Nat
    BY <1>1, <2>1 DEF IdleAlone
  <2> QED BY <1>1, <2>1, <2>2, <2>3, <2>4 DEF IdleAlone, Reading, Consuming
<1>8. CASE NextShard(t)
  <2>1. Stamps /\ UNCHANGED call /\ pc[t] = "sweep" /\ pc'[t] \in {"sweep", "lookup"}
        /\ sweep'[t].keys_to_remove = {}
    BY <1>1, <1>8 DEF NextShard, NoSweep, Goto, shared, TypeOK, SweepState
  <2> QED BY <1>1, <2>1 DEF IdleAlone, Reading, Consuming
<1>9. CASE Lookup(t) \/ AlreadyInserted(t)
  <2>1. Stamps /\ UNCHANGED <<call, sweep>> /\ pc[t] \in {"lookup", "insert"} /\ pc'[t] \in {"insert", "touch"}
    BY <1>1, <1>9 DEF Lookup, AlreadyInserted, Goto, shared, TypeOK
  <2> QED BY <1>1, <2>1 DEF IdleAlone, Reading, Consuming
<1>10. CASE Insert(t)
  <2>1. PICK r \in Free :
          /\ shards' = [shards EXCEPT ![call[t].key] = r]
          /\ last_refill' = [last_refill EXCEPT ![r] = call[t].now]
          /\ last_access' = [last_access EXCEPT ![r] = call[t].now]
    BY <1>10 DEF Insert
  <2>2. UNCHANGED <<call, sweep, clock>> /\ pc[t] = "insert" /\ pc'[t] = "touch"
    BY <1>1, <1>10 DEF Insert, Goto, TypeOK
  <2>3. r \in Ref /\ \A k \in Key : shards[k] # r
    BY DEF Free
  <2>4. \A k \in Key : \/ /\ shards'[k] = shards[k]
                          /\ shards[k] # NoRef =>
                                /\ last_refill'[shards[k]] = last_refill[shards[k]]
                                /\ last_access'[shards[k]] = last_access[shards[k]]
                       \/ /\ shards'[k] = r
                          /\ last_refill'[r] = call[t].now /\ last_access'[r] = call[t].now
    BY <1>1, <1>2, <2>1, <2>3 DEF TypeOK
  <2>5. sweep[t].keys_to_remove = {}
    BY <1>1, <2>2 DEF IdleAlone
  <2> QED BY <1>1, <2>2, <2>4, <2>5 DEF IdleAlone, Reading, Consuming
<1>11. CASE Touch(t)
  <2>1. /\ last_access' = [last_access EXCEPT ![state[t]] = call[t].now]
        /\ UNCHANGED <<shards, last_refill, call, state, sweep>>
        /\ pc[t] = "touch" /\ pc'[t] = "load_refill"
    BY <1>1, <1>11 DEF Touch, Goto, TypeOK
  <2>2. state[t] \in Ref /\ sweep[t].keys_to_remove = {}
    BY <1>1, <2>1 DEF TypeOK, Consuming, IdleAlone
  <2>3. last_access'[state[t]] = call[t].now
        /\ \A r \in Ref : r # state[t] => last_access'[r] = last_access[r]
    BY <1>1, <2>1, <2>2 DEF TypeOK
  <2>4. shards[call[t].key] = state[t]
    BY <1>1, <2>2, BucketAssumption DEF HoldsAlone
  <2>5. last_refill[state[t]] <= call[t].now
    BY <1>1, <1>2, <2>1, <2>2, <2>4, BucketAssumption DEF IdleAlone, Reading
  <2>6. ASSUME NEW k \in Key, shards[k] # NoRef
        PROVE  last_refill[shards[k]] <= last_access'[shards[k]] /\ last_access'[shards[k]] <= call[t].now
    <3>1. CASE shards[k] = state[t]
      BY <1>1, <2>3, <2>5, <3>1
    <3>2. CASE shards[k] # state[t]
      BY <1>1, <1>2, <2>1, <2>3, <2>6, <3>2 DEF IdleAlone, Reading
    <3> QED BY <3>1, <3>2
  <2> QED BY <1>1, <2>1, <2>2, <2>3, <2>6 DEF IdleAlone, Reading, Consuming
<1>12. CASE Claim(t)
  <2>1. UNCHANGED <<shards, last_access, call, state, sweep>> /\ pc[t] = "claim" /\ pc'[t] = "credit"
    BY <1>1, <1>12 DEF Claim, Goto, TypeOK
  <2>2. \A k \in Key : shards[k] # NoRef => last_refill'[shards[k]] <= last_access[shards[k]]
    BY <1>1, <1>2, <1>12, ClaimEndsAtNow DEF IdleAlone
  <2> QED BY <1>1, <2>1, <2>2 DEF IdleAlone, Reading, Consuming
<1>13. CASE NothingAccrued(t) \/ LoadRefill(t) \/ ClaimFails(t) \/ Credit(t) \/ LoadTokens(t) \/ DebitFails(t)
  <2>1. Stamps /\ UNCHANGED <<call, state, sweep>> /\ pc[t] \in Consuming \ {"touch"}
        /\ pc'[t] \in Consuming \ {"touch"}
    BY <1>1, <1>13 DEF NothingAccrued, LoadRefill, ClaimFails, Credit, LoadTokens, DebitFails, Goto,
                       shared, TypeOK, Consuming
  <2> QED BY <1>1, <2>1 DEF IdleAlone, Reading, Consuming
<1>14. CASE Deny(t) \/ Debit(t)
  <2>1. Stamps /\ UNCHANGED <<sweep, clock>> /\ pc[t] \in {"load_tokens", "debit"} /\ pc'[t] = "idle"
    BY <1>1, <1>14 DEF Deny, Debit, Return, Goto, shared, TypeOK
  <2>2. \A k \in Key : shards[k] # NoRef => last_access[shards[k]] <= clock
    BY <1>1, <1>2, <2>1 DEF IdleAlone, Reading
  <2>3. sweep[t].keys_to_remove = {}
    BY <1>1, <2>1 DEF IdleAlone
  <2> QED BY <1>1, <2>1, <2>2, <2>3 DEF IdleAlone, Reading, Consuming
<1> QED
  BY <1>1, <1>3, <1>4, <1>5, <1>6, <1>7, <1>8, <1>9, <1>10, <1>11, <1>12, <1>13, <1>14
  DEF Next, Running, CleanupIdle, FindBucket, TryConsume, Claiming, Deciding

LEMMA NextAlone == ASSUME OneCaller PROVE AloneInv /\ [Next]_vars => AloneInv'
<1> SUFFICES ASSUME AloneInv, [Next]_vars PROVE AloneInv'
  OBVIOUS
<1>1. ClaimInv' /\ KeyInv'
  BY NextClaimInv, NextKeyInv DEF AloneInv
<1>2. TypeOK'
  BY <1>1 DEF KeyInv, TypeInv
<1>3. \A t \in Thread : HoldsAlone(t)' /\ IdleAlone(t)'
  BY <1>2, NextHoldsAlone, NextIdleAlone
<1> QED BY <1>1, <1>3 DEF AloneInv

LEMMA InitAlone == Init => AloneInv
<1> SUFFICES ASSUME Init PROVE AloneInv
  OBVIOUS
<1>1. ClaimInv /\ KeyInv
  BY InitClaimInv DEF Init, ClaimInv, KeyInv, OneKeyPerBucket, KeyIsolation
<1>2. ASSUME NEW t \in Thread PROVE HoldsAlone(t) /\ IdleAlone(t)
  BY <1>2 DEF Init, HoldsAlone, IdleAlone, Consuming, NoSweep
<1> QED BY <1>1, <1>2 DEF AloneInv

\* What the caller evicts has not been accessed for the TTL, which there is.
LEMMA EvictsIdle ==
    ASSUME OneCaller, AloneInv, [Next]_vars, NEW k \in Key,
           shards[k] # NoRef, shards'[k] = NoRef
    PROVE  \E t \in Thread : /\ RemoveExpired(t)
                             /\ idle_ttl \in Nat
                             /\ call[t].now - last_access[shards[k]] >= idle_ttl
<1>1. TypeOK
  BY DEF AloneInv, KeyInv, TypeInv
<1>2. PICK t \in Thread : RemoveExpired(t)
  <2>1. ASSUME NEW t \in Thread, Calling(t) \/ Running(t), ~RemoveExpired(t)
        PROVE  shards'[k] # NoRef
    <3>1. \/ UNCHANGED shards
          \/ Insert(t)
      BY <2>1
      DEF Calling, Check, CheckAndSweep, Begin, Running, CleanupIdle, ScanEntry, NextShard, FindBucket,
          Lookup, AlreadyInserted, TryConsume, Touch, Claiming, NothingAccrued, LoadRefill, Claim,
          ClaimFails, Credit, Deciding, LoadTokens, Deny, Debit, DebitFails, shared
    <3> QED BY <1>1, <3>1, BucketAssumption DEF Insert, Free, TypeOK
  <2>2. ~UNCHANGED shards
    OBVIOUS
  <2> QED BY <2>1, <2>2 DEF Next, Tick, vars, shared
<1>3. k \in sweep[t].keys_to_remove /\ pc[t] = "sweep"
  BY <1>1, <1>2 DEF RemoveExpired, TypeOK
<1> QED BY <1>2, <1>3 DEF AloneInv, IdleAlone

\* One caller evicts a bucket only when its last access is idle_ttl old, however
\* slowly its sweep goes; with two, the other may access the bucket between the scan
\* that finds it expired and the removal.
THEOREM AloneEvictsOnlyIdle == ASSUME OneCaller PROVE Spec => EvictedWasIdle
<1>1. Init => AloneInv
  BY InitAlone
<1>2. AloneInv /\ [Next]_vars => AloneInv'
  BY NextAlone
<1>3. AloneInv /\ [Next]_vars =>
        [\A k \in Key : shards[k] # NoRef /\ shards'[k] = NoRef =>
            clock - last_access[shards[k]] >= idle_ttl]_vars
  <2> SUFFICES ASSUME AloneInv, [Next]_vars, NEW k \in Key, shards[k] # NoRef, shards'[k] = NoRef
               PROVE  clock - last_access[shards[k]] >= idle_ttl
    OBVIOUS
  <2>1. PICK t \in Thread : idle_ttl \in Nat /\ call[t].now - last_access[shards[k]] >= idle_ttl
    BY EvictsIdle
  <2>2. /\ call[t].now \in Nat /\ call[t].now <= clock /\ clock \in Nat
        /\ last_access[shards[k]] \in Nat
    BY DEF AloneInv, ClaimInv, TypeInv, TypeOK, Timeline
  <2> QED BY <2>1, <2>2
<1> QED BY <1>1, <1>2, <1>3, PTL DEF Spec, EvictedWasIdle

-----------------------------------------------------------------------------
(***************************************************************************)
(* The budget of a key                                                     *)
(***************************************************************************)

HeldIsMapped == \A t \in Thread : state[t] # NoRef => shards[call[t].key] = state[t]

\* Where calls hold the buckets the map has, what a step lets a key through is charged
\* to its bucket there; a bucket just inserted has nothing charged to it.
LEMMA ChargedToTheMap ==
    ASSUME KeyInv, HeldIsMapped, NEW t \in Thread, Calling(t) \/ Running(t), NEW k \in Key
    PROVE  /\ LetThrough(t, k) \in Nat
           /\ shards[k] # NoRef =>
                 /\ shards[k] \in Ref
                 /\ created'[shards[k]] = created[shards[k]]
                 /\ granted'[shards[k]] = granted[shards[k]] + LetThrough(t, k)
           /\ shards[k] = NoRef => LetThrough(t, k) = 0
           /\ \/ shards'[k] = shards[k]
              \/ shards[k] # NoRef /\ shards'[k] = NoRef /\ LetThrough(t, k) = 0
              \/ /\ shards[k] = NoRef /\ shards'[k] \in Ref /\ Insert(t)
                 /\ granted'[shards'[k]] = 0 /\ created'[shards'[k]] = call[t].now
<1>1. /\ TypeOK /\ OneKeyPerBucket /\ call[t].key \in Key /\ NoRef \notin Ref
      /\ call[t].cost * SCALE \in Nat
      /\ shards[k] # NoRef => shards[k] \in Ref /\ granted[shards[k]] \in Nat
  BY CostTyped, BucketAssumption DEF KeyInv, TypeInv, TypeOK
<1>2. CASE Insert(t)
  <2>1. PICK r \in Free : /\ shards' = [shards EXCEPT ![call[t].key] = r]
                          /\ created' = [created EXCEPT ![r] = call[t].now]
                          /\ granted' = [granted EXCEPT ![r] = 0]
    BY <1>2 DEF Insert
  <2>2. r \in Ref /\ r # shards[k] /\ shards[call[t].key] = NoRef
    BY <1>2 DEF Free, Insert
  <2>3. LetThrough(t, k) = 0
    BY <1>2 DEF LetThrough, Insert, Debit
  <2>4. shards'[k] = IF k = call[t].key THEN r ELSE shards[k]
    BY <1>1, <2>1 DEF TypeOK
  <2>5. created'[r] = call[t].now /\ granted'[r] = 0
    BY <1>1, <2>1, <2>2 DEF TypeOK
  <2>6. shards[k] # NoRef => created'[shards[k]] = created[shards[k]]
                             /\ granted'[shards[k]] = granted[shards[k]]
    BY <1>1, <2>1, <2>2 DEF TypeOK
  <2> QED BY <1>1, <1>2, <2>2, <2>3, <2>4, <2>5, <2>6
<1>3. CASE Debit(t)
  <2>1. /\ pc[t] = "debit" /\ UNCHANGED <<shards, created>>
        /\ granted' = [granted EXCEPT ![state[t]] = @ + call[t].cost * SCALE]
    BY <1>3 DEF Debit
  <2>2. state[t] # NoRef /\ state[t] \in Ref /\ shards[call[t].key] = state[t]
    BY <1>1, <2>1 DEF TypeOK, Consuming, HeldIsMapped
  <2>3. shards[k] = state[t] <=> k = call[t].key
    BY <1>1, <2>2 DEF OneKeyPerBucket
  <2>4. LetThrough(t, k) = IF call[t].key = k THEN call[t].cost * SCALE ELSE 0
    BY <1>3 DEF LetThrough
  <2>5. shards[k] # NoRef => granted'[shards[k]] = granted[shards[k]] + LetThrough(t, k)
    BY <1>1, <2>1, <2>2, <2>3, <2>4 DEF TypeOK
  <2> QED BY <1>1, <2>1, <2>2, <2>3, <2>4, <2>5
<1>4. CASE ~Insert(t) /\ ~Debit(t)
  <2>1. LetThrough(t, k) = 0
    BY <1>4 DEF LetThrough
  <2>2. UNCHANGED <<created, granted>>
    BY <1>4
    DEF Calling, Check, CheckAndSweep, Begin, Running, CleanupIdle, ScanEntry, RemoveExpired, NextShard,
        FindBucket, Lookup, AlreadyInserted, TryConsume, Touch, Claiming, NothingAccrued, LoadRefill,
        Claim, ClaimFails, Credit, Deciding, LoadTokens, Deny, DebitFails, history
  <2>3. UNCHANGED shards \/ RemoveExpired(t)
    BY <1>4
    DEF Calling, Check, CheckAndSweep, Begin, Running, CleanupIdle, ScanEntry, NextShard,
        FindBucket, Lookup, AlreadyInserted, TryConsume, Touch, Claiming, NothingAccrued, LoadRefill,
        Claim, ClaimFails, Credit, Deciding, LoadTokens, Deny, DebitFails, shared
  <2>4. shards'[k] = shards[k] \/ shards'[k] = NoRef
    BY <1>1, <2>3 DEF RemoveExpired, TypeOK
  <2> QED BY <1>1, <2>1, <2>2, <2>4
<1> QED BY <1>2, <1>3, <1>4

\* Without a TTL a key has one bucket, which is charged for all it is let through.
Charged(k) == admitted[k] = IF shards[k] = NoRef THEN 0 ELSE granted[shards[k]]

ChargeInv == LedgerInv /\ KeyInv /\ HoldsMapped /\ \A k \in Key : Charged(k)

LEMMA NextChargeInv ==
    ASSUME ExactRate, idle_ttl = NoTTL
    PROVE  ChargeInv /\ [BurstNext]_burst_vars => ChargeInv'
<1> SUFFICES ASSUME ChargeInv, [BurstNext]_burst_vars PROVE ChargeInv'
  OBVIOUS
<1>1. [Next]_vars
  BY DEF BurstNext, burst_vars, Next
<1>2. LedgerInv /\ KeyInv /\ HoldsMapped /\ HeldIsMapped /\ TypeOK
  BY DEF ChargeInv, HoldsMapped, HeldIsMapped, KeyInv, TypeInv
<1>3. LedgerInv' /\ KeyInv' /\ HoldsMapped'
  BY <1>1, <1>2, NextClaimInv, NextLedger, NextKeyInv, NextHoldsMapped DEF LedgerInv
<1>4. ASSUME NEW k \in Key PROVE Charged(k)'
  <2>1. CASE UNCHANGED burst_vars \/ (Tick /\ UNCHANGED admitted)
    BY <2>1 DEF ChargeInv, Charged, burst_vars, vars, shared, history, Tick
  <2>2. ASSUME NEW t \in Thread, Calling(t) \/ Running(t),
               admitted' = [j \in Key |-> admitted[j] + LetThrough(t, j)]
        PROVE  Charged(k)'
    <3>1. shards[k] # NoRef => shards'[k] = shards[k]
      <4>1. shards' = shards \/ \E u \in Thread : Insert(u)
        BY <1>1, <1>2, MapStays
      <4> QED BY <1>2, <4>1 DEF Insert, TypeOK
    <3>2. admitted'[k] = admitted[k] + LetThrough(t, k) /\ Charged(k)
      BY <2>2 DEF ChargeInv
    <3>3. shards[k] # NoRef => granted[shards[k]] \in Nat
      BY <1>2 DEF TypeOK
    <3> QED BY <1>2, <2>2, <3>1, <3>2, <3>3, ChargedToTheMap DEF Charged
  <2> QED BY <2>1, <2>2 DEF BurstNext
<1> QED BY <1>2, <1>3, <1>4 DEF ChargeInv

\* A bucket lets through no more than its budget, which starts when it is inserted: a key
\* has had its capacity and what its rate yields in all of time.
LEMMA KeyKeepsBudget ==
    ASSUME LedgerInv, NEW k \in Key, shards[k] # NoRef, NEW past \in Nat,
           NANOS_PER_SEC * past <= rate_scaled * created[shards[k]],
           admitted[k] = past + granted[shards[k]]
    PROVE  NANOS_PER_SEC * admitted[k] <= NANOS_PER_SEC * scaled_capacity + rate_scaled * clock
<1> DEFINE N == NANOS_PER_SEC
           R == rate_scaled
           g == granted[shards[k]]
           c == created[shards[k]]
<1>1. TypeOK /\ Timeline
  BY DEF LedgerInv, ClaimInv, TypeInv
<1>2. /\ N \in Nat /\ R \in Nat /\ scaled_capacity \in Nat /\ g \in Nat /\ c \in Nat
      /\ clock \in Nat
  BY <1>1, MathAssumption, ConstantsTyped, BucketAssumption DEF TypeOK, u64
<1>3. N * g <= N * scaled_capacity + R * (clock - c)
  BY <1>1, LedgerImpliesBudget DEF Budget, TypeOK
<1>4. N * past <= R * c
  OBVIOUS
<1> HIDE DEF N, R, g, c
<1>5. N * (past + g) = N * past + N * g /\ R * (clock - c) = R * clock - R * c
  BY <1>2
<1>6. N * past \in Int /\ N * g \in Int /\ R * clock \in Int /\ R * c \in Int
      /\ N * scaled_capacity \in Int
  BY <1>2
<1>7. N * (past + g) <= N * scaled_capacity + R * clock
  BY <1>3, <1>4, <1>5, <1>6
<1> QED BY <1>7 DEF N, R, g

\* Without a TTL no key is ever let through more than its capacity and what its rate
\* yields, at an exact rate: the calls that race to insert its bucket, and a bucket dated
\* by a call that was slow to insert it, give it nothing more.
THEOREM KeysKeepTheirBudget ==
    ASSUME ExactRate, idle_ttl = NoTTL PROVE BurstSpec => []KeyBudget
<1>1. BurstInit => ChargeInv
  <2> SUFFICES ASSUME BurstInit PROVE ChargeInv
    OBVIOUS
  <2>1. Init /\ admitted = [k \in Key |-> 0]
    BY DEF BurstInit
  <2>2. LedgerInv /\ TypeInv
    BY <2>1, InitLedgerInv, InitTypeInv
  <2> QED
    BY <2>1, <2>2
    DEF Init, ChargeInv, Charged, KeyInv, OneKeyPerBucket, KeyIsolation, HoldsMapped
<1>2. ChargeInv => KeyBudget
  <2> SUFFICES ASSUME ChargeInv, NEW k \in Key
               PROVE  NANOS_PER_SEC * admitted[k] <=
                         NANOS_PER_SEC * scaled_capacity + rate_scaled * clock
    BY DEF KeyBudget
  <2>1. /\ LedgerInv /\ TypeOK /\ Charged(k) /\ clock \in Nat
        /\ NANOS_PER_SEC \in Nat /\ scaled_capacity \in Nat /\ rate_scaled \in Nat
    BY MathAssumption, ConstantsTyped, BucketAssumption DEF ChargeInv, KeyInv, TypeInv, TypeOK, u64
  <2>2. CASE shards[k] = NoRef
    <3>1. admitted[k] = 0
      BY <2>1, <2>2 DEF Charged
    <3>2. NANOS_PER_SEC * scaled_capacity \in Nat /\ rate_scaled * clock \in Nat
      BY <2>1
    <3> QED BY <2>1, <3>1, <3>2
  <2>3. CASE shards[k] # NoRef
    <3>1. granted[shards[k]] \in Nat /\ created[shards[k]] \in Nat
      BY <2>1, <2>3 DEF TypeOK
    <3>2. admitted[k] = 0 + granted[shards[k]]
      BY <2>1, <2>3, <3>1 DEF Charged
    <3>3. NANOS_PER_SEC * 0 <= rate_scaled * created[shards[k]]
      BY <2>1, <3>1
    <3> QED BY <2>1, <2>3, <3>2, <3>3, KeyKeepsBudget
  <2> QED BY <2>2, <2>3
<1>3. ChargeInv /\ [BurstNext]_burst_vars => ChargeInv'
  BY NextChargeInv
<1> QED BY <1>1, <1>2, <1>3, PTL DEF BurstSpec

\* What a key was let through by buckets it no longer has is covered by the time before
\* its bucket was inserted, or before the next one can be.
PastIsCovered(t, k) ==
    IF shards[k] = NoRef
    THEN NANOS_PER_SEC * admitted[k] <= rate_scaled * Reading(t)
    ELSE /\ granted[shards[k]] <= admitted[k]
         /\ NANOS_PER_SEC * (admitted[k] - granted[shards[k]]) <= rate_scaled * created[shards[k]]

PastInv ==
    /\ LedgerInv /\ AloneInv
    /\ admitted \in [Key -> Nat]
    /\ \A t \in Thread, k \in Key : PastIsCovered(t, k)

\* Waiting for the TTL fills an empty bucket up.
TTLRefills == idle_ttl # NoTTL => rate_scaled * idle_ttl >= NANOS_PER_SEC * scaled_capacity

\* Time stands still while the caller takes a step, and it does not read an older one.
LEMMA ReadingMovesOn ==
    ASSUME OneCaller, TypeOK, Timeline, [Next]_vars, NEW t \in Thread
    PROVE  /\ Reading(t) \in Nat /\ Reading(t)' \in Nat
           /\ Reading(t) <= Reading(t)'
           /\ pc[t] # "idle" => Reading(t) = call[t].now
<1>1. /\ \A u \in Thread : u = t
      /\ clock \in Nat /\ call[t].now \in Nat /\ call[t].now <= clock
  BY BucketAssumption, MathAssumption DEF OneCaller, TypeOK, Timeline, u64
<1>2. CASE UNCHANGED vars \/ Tick
  BY <1>1, <1>2 DEF vars, Tick, Reading
<1>3. CASE Calling(t)
  BY <1>1, <1>3 DEF Calling, Check, CheckAndSweep, Begin, Goto, Reading, TypeOK
<1>4. CASE Running(t)
  <2>1. clock' = clock /\ (call' = call \/ pc'[t] = "idle")
    BY <1>4
    DEF Running, CleanupIdle, ScanEntry, RemoveExpired, NextShard, FindBucket, Lookup, Insert,
        AlreadyInserted, TryConsume, Touch, Claiming, NothingAccrued, LoadRefill, Claim,
        ClaimFails, Credit, Deciding, LoadTokens, Deny, Debit, DebitFails, Return, Goto, TypeOK
  <2>2. pc[t] # "idle"
    BY <1>4
    DEF Running, CleanupIdle, ScanEntry, RemoveExpired, NextShard, FindBucket, Lookup, Insert,
        AlreadyInserted, TryConsume, Touch, Claiming, NothingAccrued, LoadRefill, Claim,
        ClaimFails, Credit, Deciding, LoadTokens, Deny, Debit, DebitFails
  <2> QED BY <1>1, <2>1, <2>2 DEF Reading
<1> QED BY <1>1, <1>2, <1>3, <1>4 DEF Next

\* What is evicted has been left alone for as long as it takes to fill up: all that
\* its key was ever let through is covered by the time until then.
LEMMA EvictionIsCovered ==
    ASSUME OneCaller, TTLRefills, PastInv, [Next]_vars, NEW t \in Thread, NEW k \in Key,
           shards[k] # NoRef, shards'[k] = NoRef
    PROVE  NANOS_PER_SEC * admitted[k] <= rate_scaled * Reading(t)
<1> DEFINE r == shards[k]
           N == NANOS_PER_SEC
           R == rate_scaled
           now == call[t].now
           out == Cardinality(Outstanding(r))
<1>1. /\ LedgerInv /\ AloneInv /\ ClaimInv /\ TypeOK /\ Timeline /\ Ledger
      /\ \A u \in Thread : u = t
  BY DEF PastInv, AloneInv, ClaimInv, TypeInv, LedgerInv, OneCaller
<1>2. /\ r \in Ref /\ admitted[k] \in Nat /\ granted[r] \in Nat /\ created[r] \in Nat
      /\ last_refill[r] \in Nat /\ last_access[r] \in Nat /\ tokens[r] \in Nat /\ now \in Nat
      /\ N \in Nat /\ R \in Nat /\ scaled_capacity \in Nat /\ out \in Nat
      /\ created[r] <= last_refill[r]
  BY <1>1, MathAssumption, ConstantsTyped, ClaimInvIsClockInv, OutstandingFinite
  DEF TypeOK, PastInv, Timeline
<1>3. /\ RemoveExpired(t) /\ idle_ttl \in Nat /\ now - last_access[r] >= idle_ttl
  BY <1>1, EvictsIdle
<1>4. last_refill[r] <= last_access[r] /\ Reading(t) = now
  BY <1>1, <1>2, <1>3 DEF AloneInv, IdleAlone, RemoveExpired, Reading
<1>5. R * idle_ttl >= N * scaled_capacity
  BY <1>3, BucketAssumption DEF TTLRefills
<1>6. N * (tokens[r] + granted[r]) + R * out <= N * scaled_capacity + R * (last_refill[r] - created[r])
  BY <1>1, <1>2 DEF Ledger
<1>7. granted[r] <= admitted[k] /\ N * (admitted[k] - granted[r]) <= R * created[r]
  BY DEF PastInv, PastIsCovered
<1>8. \A a, g, c, l, tok, o, cap, ttl, acc, n \in Nat :
         /\ N * (tok + g) + R * o <= N * cap + R * (l - c)
         /\ g <= a /\ N * (a - g) <= R * c
         /\ c <= l /\ l <= acc /\ n - acc >= ttl
         /\ R * ttl >= N * cap
         => N * a <= R * n
  <2> HIDE DEF N, R
  <2> TAKE a, g, c, l, tok, o, cap, ttl, acc, n \in Nat
  <2> HAVE /\ N * (tok + g) + R * o <= N * cap + R * (l - c)
           /\ g <= a /\ N * (a - g) <= R * c
           /\ c <= l /\ l <= acc /\ n - acc >= ttl
           /\ R * ttl >= N * cap
  <2>1. N * g <= N * (tok + g) + R * o
    BY <1>2
  <2>2. N * (a - g) = N * a - N * g /\ R * (l - c) = R * l - R * c
    BY <1>2
  <2>3. R * (ttl + l) <= R * n
    <3>1. (ttl + l) * R <= n * R
      BY <1>2, KeepFactor
    <3> QED BY <1>2, <3>1
  <2>4. R * (ttl + l) = R * ttl + R * l
    BY <1>2
  <2>5. /\ N * a \in Int /\ N * g \in Int /\ R * c \in Int /\ R * l \in Int /\ R * ttl \in Int
        /\ R * n \in Int /\ N * cap \in Int /\ N * (tok + g) + R * o \in Int
    BY <1>2
  <2>6. N * a <= N * g + R * c
    BY <2>2, <2>5
  <2>7. N * g <= N * cap + R * l - R * c
    BY <2>1, <2>2, <2>5
  <2> QED BY <2>3, <2>4, <2>5, <2>6, <2>7
<1> HIDE DEF N, R, r, now, out
<1>9. N * admitted[k] <= R * now
  BY <1>2, <1>3, <1>4, <1>5, <1>6, <1>7, <1>8
<1> QED BY <1>4, <1>9 DEF N, R

\* Every step keeps the past of a key covered.
LEMMA NextPastInv ==
    ASSUME ExactRate, OneCaller, TTLRefills
    PROVE  PastInv /\ [BurstNext]_burst_vars => PastInv'
<1> SUFFICES ASSUME PastInv, [BurstNext]_burst_vars PROVE PastInv'
  OBVIOUS
<1>1. [Next]_vars
  BY DEF BurstNext, burst_vars, Next
<1>2. LedgerInv /\ AloneInv /\ KeyInv /\ ClaimInv /\ TypeOK /\ Timeline /\ admitted \in [Key -> Nat]
  BY DEF PastInv, AloneInv, KeyInv, TypeInv, ClaimInv
<1>3. LedgerInv' /\ AloneInv'
  BY <1>1, <1>2, NextClaimInv, NextLedger, NextAlone DEF LedgerInv
<1>4. HeldIsMapped
  BY <1>2 DEF AloneInv, HoldsAlone, HeldIsMapped
<1>5. CASE UNCHANGED burst_vars \/ (Tick /\ UNCHANGED admitted)
  <2>1. UNCHANGED <<shards, granted, created, admitted>>
    BY <1>5 DEF burst_vars, vars, shared, history, Tick
  <2>2. ASSUME NEW t \in Thread, NEW k \in Key PROVE PastIsCovered(t, k)'
    <3>1. /\ PastIsCovered(t, k) /\ admitted[k] \in Nat
          /\ NANOS_PER_SEC \in Nat /\ rate_scaled \in Nat
          /\ Reading(t) \in Nat /\ Reading(t)' \in Nat /\ Reading(t) <= Reading(t)'
      BY <1>1, <1>2, ReadingMovesOn, ConstantsTyped, MathAssumption DEF PastInv
    <3>2. rate_scaled * Reading(t) <= rate_scaled * Reading(t)'
      BY <3>1
    <3>3. /\ NANOS_PER_SEC * admitted[k] \in Int /\ rate_scaled * Reading(t) \in Int
          /\ rate_scaled * Reading(t)' \in Int
      BY <3>1
    <3> QED BY <2>1, <3>1, <3>2, <3>3 DEF PastIsCovered
  <2> QED BY <1>2, <1>3, <2>1, <2>2 DEF PastInv
<1>6. ASSUME NEW t \in Thread, Calling(t) \/ Running(t),
             admitted' = [j \in Key |-> admitted[j] + LetThrough(t, j)]
      PROVE  PastInv'
  <2>1. ASSUME NEW k \in Key PROVE admitted'[k] \in Nat /\ PastIsCovered(t, k)'
    <3> DEFINE x == LetThrough(t, k)
               r == shards[k]
    <3>1. /\ admitted'[k] = admitted[k] + x /\ x \in Nat /\ admitted[k] \in Nat
          /\ admitted'[k] \in Nat /\ PastIsCovered(t, k)
      BY <1>2, <1>4, <1>6, ChargedToTheMap DEF PastInv
    <3>2. /\ NANOS_PER_SEC \in Nat /\ rate_scaled \in Nat
          /\ Reading(t) \in Nat /\ Reading(t)' \in Nat /\ Reading(t) <= Reading(t)'
      BY <1>1, <1>2, ReadingMovesOn, ConstantsTyped, MathAssumption
    <3>3. rate_scaled * Reading(t) <= rate_scaled * Reading(t)'
      BY <3>2
    <3>4. /\ NANOS_PER_SEC * admitted[k] \in Int /\ rate_scaled * Reading(t) \in Int
          /\ rate_scaled * Reading(t)' \in Int
      BY <3>1, <3>2
    <3>5. CASE r # NoRef /\ shards'[k] = r
      <4>1. /\ granted'[r] = granted[r] + x /\ created'[r] = created[r] /\ granted[r] \in Nat
        BY <1>2, <1>4, <1>6, <3>5, ChargedToTheMap DEF TypeOK
      <4>2. /\ granted[r] <= admitted[k]
            /\ NANOS_PER_SEC * (admitted[k] - granted[r]) <= rate_scaled * created[r]
        BY <3>1, <3>5 DEF PastIsCovered
      <4>3. granted'[r] <= admitted'[k] /\ admitted'[k] - granted'[r] = admitted[k] - granted[r]
        BY <3>1, <4>1, <4>2
      <4> QED BY <3>1, <3>5, <4>1, <4>2, <4>3 DEF PastIsCovered
    <3>6. CASE r # NoRef /\ shards'[k] = NoRef
      <4>1. x = 0
        BY <1>2, <1>4, <1>6, <3>6, ChargedToTheMap
      <4>2. NANOS_PER_SEC * admitted[k] <= rate_scaled * Reading(t)
        BY <1>1, <3>6, EvictionIsCovered
      <4>3. NANOS_PER_SEC * admitted'[k] <= rate_scaled * Reading(t)'
        BY <3>1, <3>3, <3>4, <4>1, <4>2
      <4> QED BY <3>1, <3>6, <4>3 DEF PastIsCovered
    <3>7. CASE r = NoRef /\ shards'[k] = NoRef
      <4>1. x = 0 /\ NANOS_PER_SEC * admitted[k] <= rate_scaled * Reading(t)
        BY <1>2, <1>4, <1>6, <3>1, <3>7, ChargedToTheMap DEF PastIsCovered
      <4>2. NANOS_PER_SEC * admitted'[k] <= rate_scaled * Reading(t)'
        BY <3>1, <3>3, <3>4, <4>1
      <4> QED BY <3>1, <3>7, <4>2 DEF PastIsCovered
    <3>8. CASE r = NoRef /\ shards'[k] # NoRef
      <4>1. /\ x = 0 /\ Insert(t)
            /\ granted'[shards'[k]] = 0 /\ created'[shards'[k]] = call[t].now
        BY <1>2, <1>4, <1>6, <3>8, ChargedToTheMap
      <4>2. Reading(t) = call[t].now
        BY <4>1 DEF Insert, Reading
      <4>3. admitted'[k] = admitted[k] /\ admitted'[k] - 0 = admitted[k] /\ 0 <= admitted'[k]
        BY <3>1, <4>1
      <4> QED BY <3>1, <3>8, <4>1, <4>2, <4>3 DEF PastIsCovered
    <3>9. shards'[k] = r \/ shards'[k] = NoRef \/ r = NoRef
      BY <1>2, <1>4, <1>6, ChargedToTheMap
    <3> QED BY <3>1, <3>5, <3>6, <3>7, <3>8, <3>9
  <2>2. \A u \in Thread : u = t
    BY DEF OneCaller
  <2>3. admitted' \in [Key -> Nat]
    BY <1>6, <2>1
  <2> QED BY <1>3, <2>1, <2>2, <2>3 DEF PastInv
<1> QED BY <1>5, <1>6 DEF BurstNext

\* Eviction gives a key nothing, where the TTL is no shorter than the time an empty bucket
\* takes to fill: a single caller lets each key through its capacity and what its
\* rate yields, however often its bucket goes and comes back.
THEOREM EvictionKeepsBudget ==
    ASSUME ExactRate, OneCaller, TTLRefills PROVE BurstSpec => []KeyBudget
<1>1. BurstInit => PastInv
  <2> SUFFICES ASSUME BurstInit PROVE PastInv
    OBVIOUS
  <2>1. Init /\ admitted = [k \in Key |-> 0]
    BY DEF BurstInit
  <2>2. LedgerInv /\ AloneInv
    BY <2>1, InitLedgerInv, InitAlone
  <2>3. ASSUME NEW t \in Thread, NEW k \in Key PROVE PastIsCovered(t, k)
    <3>1. shards[k] = NoRef /\ admitted[k] = 0 /\ Reading(t) = 0
      BY <2>1 DEF Init, Reading
    <3>2. NANOS_PER_SEC * 0 <= rate_scaled * 0
      BY MathAssumption, ConstantsTyped
    <3> QED BY <3>1, <3>2 DEF PastIsCovered
  <2> QED BY <2>1, <2>2, <2>3 DEF PastInv
<1>2. PastInv => KeyBudget
  <2> SUFFICES ASSUME PastInv, NEW k \in Key
               PROVE  NANOS_PER_SEC * admitted[k] <=
                         NANOS_PER_SEC * scaled_capacity + rate_scaled * clock
    BY DEF KeyBudget
  <2>1. PICK t \in Thread : PastIsCovered(t, k)
    BY DEF PastInv, OneCaller
  <2>2. /\ LedgerInv /\ TypeOK /\ Timeline /\ admitted[k] \in Nat
        /\ clock \in Nat /\ NANOS_PER_SEC \in Nat /\ scaled_capacity \in Nat /\ rate_scaled \in Nat
    BY MathAssumption, ConstantsTyped, BucketAssumption
    DEF PastInv, LedgerInv, ClaimInv, TypeInv, TypeOK, u64
  <2>3. CASE shards[k] = NoRef
    <3>1. NANOS_PER_SEC * admitted[k] <= rate_scaled * Reading(t)
      BY <2>1, <2>3 DEF PastIsCovered
    <3>2. Reading(t) \in Nat /\ Reading(t) <= clock
      BY <2>2 DEF Reading, TypeOK, Timeline
    <3>3. rate_scaled * Reading(t) <= rate_scaled * clock
      BY <2>2, <3>2
    <3>4. /\ NANOS_PER_SEC * scaled_capacity \in Nat /\ rate_scaled * clock \in Nat
          /\ rate_scaled * Reading(t) \in Nat /\ NANOS_PER_SEC * admitted[k] \in Nat
      BY <2>2, <3>2
    <3> QED BY <3>1, <3>3, <3>4
  <2>4. CASE shards[k] # NoRef
    <3>1. /\ granted[shards[k]] \in Nat /\ granted[shards[k]] <= admitted[k]
          /\ NANOS_PER_SEC * (admitted[k] - granted[shards[k]]) <= rate_scaled * created[shards[k]]
      BY <2>1, <2>2, <2>4 DEF PastIsCovered, TypeOK
    <3>2. /\ admitted[k] - granted[shards[k]] \in Nat
          /\ admitted[k] = (admitted[k] - granted[shards[k]]) + granted[shards[k]]
      BY <2>2, <3>1
    <3> QED BY <2>2, <2>4, <3>1, <3>2, KeyKeepsBudget
  <2> QED BY <2>3, <2>4
<1>3. PastInv /\ [BurstNext]_burst_vars => PastInv'
  BY NextPastInv
<1> QED BY <1>1, <1>2, <1>3, PTL DEF BurstSpec

-----------------------------------------------------------------------------
(***************************************************************************)
(* One caller makes whole checks, at any rate                              *)
(***************************************************************************)

WithinCapacity == \A r \in Ref : tokens[r] <= scaled_capacity

WholeInv == AloneInv /\ CallsCost /\ WithinCapacity

\* No credit takes a bucket above its capacity, and no debit adds to it.
LEMMA NextWithinCapacity == TypeInv /\ WithinCapacity /\ [Next]_vars => WithinCapacity'
<1> SUFFICES ASSUME TypeInv, WithinCapacity, [Next]_vars PROVE WithinCapacity'
  OBVIOUS
<1>1. TypeOK /\ scaled_capacity \in Nat /\ \A r \in Ref : tokens[r] \in Nat
  BY ConstantsTyped DEF TypeInv, TypeOK
<1>2. CASE UNCHANGED tokens
  BY <1>2 DEF WithinCapacity
<1>3. ASSUME NEW t \in Thread, Debit(t) PROVE WithinCapacity'
  <2>1. /\ token_cost(t) \in Nat /\ loaded[t] = tokens[state[t]] /\ state[t] \in Ref
        /\ tokens' = [tokens EXCEPT ![state[t]] = loaded[t] - token_cost(t)]
    BY <1>1, <1>3, CostTyped DEF Debit, TypeOK, Consuming
  <2>2. tokens[state[t]] - token_cost(t) <= scaled_capacity
    BY <1>1, <2>1 DEF WithinCapacity
  <2> QED BY <1>1, <2>1, <2>2 DEF WithinCapacity, TypeOK
<1>4. ASSUME NEW t \in Thread, Insert(t) PROVE WithinCapacity'
  BY <1>1, <1>4 DEF Insert, WithinCapacity, TypeOK
<1>5. ASSUME NEW t \in Thread, Credit(t) PROVE WithinCapacity'
  <2>1. \A x : MinOf(x, scaled_capacity) <= scaled_capacity \/ x \notin Int
    BY <1>1 DEF MinOf
  <2>2. \A x \in Nat : saturating_add(x, added(t)) \in Int
    BY <1>1, TypesOfClock, AccruedTyped, MathAssumption DEF saturating_add, MinOf
  <2> QED BY <1>1, <1>5, <2>1, <2>2 DEF Credit, WithinCapacity, TypeOK
<1>6. ASSUME NEW t \in Thread, Claim(t) PROVE UNCHANGED tokens
  BY <1>6 DEF Claim
<1> QED BY <1>2, <1>3, <1>4, <1>5, <1>6, StepKinds

LEMMA WholeInvariant == ASSUME OneCaller PROVE Spec => []WholeInv
<1>1. Init => WholeInv
  <2> SUFFICES ASSUME Init PROVE WholeInv
    OBVIOUS
  <2>1. CallsCost /\ WithinCapacity
    BY ConstantsTyped DEF Init, CallsCost, WithinCapacity
  <2> QED BY <2>1, InitAlone DEF WholeInv
<1>2. WholeInv /\ [Next]_vars => WholeInv'
  <2> SUFFICES ASSUME WholeInv, [Next]_vars PROVE WholeInv'
    OBVIOUS
  <2>1. TypeInv
    BY DEF WholeInv, AloneInv, KeyInv
  <2> QED BY <2>1, NextAlone, NextCallsCost, NextWithinCapacity DEF WholeInv
<1> QED BY <1>1, <1>2, PTL DEF Spec

\* What WholeChecks leaves behind, in the terms of the bucket's own steps.
LEMMA WholeTaken ==
    \A b, c : Whole!taken(b, c) =
        IF c # 0 /\ b.tokens >= saturating_mul(c, SCALE)
        THEN [b EXCEPT !.tokens = @ - saturating_mul(c, SCALE)] ELSE b
  BY DEF Whole!taken, Whole!permits, Whole!token_cost, Whole!saturating_mul, Whole!MinOf,
         saturating_mul, MinOf

LEMMA WholeChecked ==
    ASSUME NEW x \in 0..scaled_capacity, NEW l \in 0..U64_MAX, NEW now \in Nat, NEW c, c # 0
    PROVE  LET a == refill_tokens(saturating_sub(now, l), rate_scaled) IN
           Whole!checked([tokens |-> x, last_refill |-> l], now, c) =
           Whole!taken([tokens |-> MinOf(x + a, scaled_capacity),
                        last_refill |-> saturating_add(l, nanos_for_tokens(a, rate_scaled))], c)
<1> DEFINE b == [tokens |-> x, last_refill |-> l]
           a == refill_tokens(saturating_sub(now, l), rate_scaled)
<1>1. /\ scaled_capacity \in Nat /\ scaled_capacity < U64_MAX /\ rate_scaled \in Nat
      /\ x \in Nat /\ x <= scaled_capacity /\ a \in Nat
  <2>1. saturating_sub(now, l) \in Nat
    BY MathAssumption DEF saturating_sub
  <2>2. a \in Nat
    BY <2>1, ConstantsTyped, ClaimedWithinElapsed
  <2>3. x \in Nat /\ x <= scaled_capacity
    BY ConstantsTyped
  <2> QED BY <2>2, <2>3, ConstantsTyped
<1>2. Whole!scaled_capacity = scaled_capacity /\ Whole!rate_scaled = rate_scaled
  BY DEF Whole!scaled_capacity, Whole!rate_scaled, scaled_capacity, rate_scaled,
         Whole!saturating_mul, saturating_mul, Whole!MinOf, MinOf
<1>3. Whole!accrued(b, now) = a
  BY <1>2 DEF Whole!accrued, Whole!refill_tokens, refill_tokens, Whole!saturating_sub, saturating_sub,
              Whole!MinOf, MinOf
<1>4. Whole!found(b, now) = b
  <2>1. b.tokens # -1
    BY <1>1
  <2> QED BY <2>1 DEF Whole!found, Whole!NoBucket, Whole!None
<1> HIDE DEF a
<1>5. Whole!apply_refill(b, now) =
        [tokens |-> MinOf(x + a, scaled_capacity),
         last_refill |-> saturating_add(l, nanos_for_tokens(a, rate_scaled))]
  <2>1. (IF x >= scaled_capacity THEN x ELSE MinOf(saturating_add(x, a), scaled_capacity))
          = MinOf(x + a, scaled_capacity)
    BY <1>1, MathAssumption DEF saturating_add, MinOf
  <2>2. \A y, z : Whole!saturating_add(y, z) = saturating_add(y, z) /\ Whole!MinOf(y, z) = MinOf(y, z)
                  /\ Whole!nanos_for_tokens(y, z) = nanos_for_tokens(y, z)
    BY DEF Whole!saturating_add, saturating_add, Whole!MinOf, MinOf, Whole!nanos_for_tokens, nanos_for_tokens
  <2> QED BY <1>2, <1>3, <2>1, <2>2 DEF Whole!apply_refill
<1>6. Whole!checked(b, now, c) = Whole!taken(Whole!apply_refill(b, now), c)
  BY <1>4 DEF Whole!checked, Whole!refilled
<1> QED BY <1>5, <1>6 DEF a

\* A key without a bucket is checked as one with a full bucket of now.
LEMMA WholeInserts ==
    ASSUME NEW now, NEW c, c # 0
    PROVE  Whole!checked(Whole!NoBucket, now, c)
             = Whole!checked([tokens |-> scaled_capacity, last_refill |-> now], now, c)
<1>1. Whole!scaled_capacity = scaled_capacity
  BY DEF Whole!scaled_capacity, scaled_capacity, Whole!saturating_mul, saturating_mul,
         Whole!MinOf, MinOf
<1> QED BY <1>1 DEF Whole!checked, Whole!refilled, Whole!found

\* The checks of WholeChecks are those of the mapping.
LEMMA AtomicChecked == \A b, now, c : Atomic!checked(b, now, c) = Whole!checked(b, now, c)
<1>1. \A y, z : /\ Atomic!saturating_add(y, z) = Whole!saturating_add(y, z)
                /\ Atomic!saturating_sub(y, z) = Whole!saturating_sub(y, z)
                /\ Atomic!saturating_mul(y, z) = Whole!saturating_mul(y, z)
                /\ Atomic!MinOf(y, z) = Whole!MinOf(y, z)
                /\ Atomic!nanos_for_tokens(y, z) = Whole!nanos_for_tokens(y, z)
                /\ Atomic!refill_tokens(y, z) = Whole!refill_tokens(y, z)
  BY DEF Whole!saturating_add, Atomic!saturating_add, Whole!saturating_sub, Atomic!saturating_sub,
         Whole!saturating_mul, Atomic!saturating_mul, Whole!MinOf, Atomic!MinOf,
         Whole!nanos_for_tokens, Atomic!nanos_for_tokens, Whole!refill_tokens, Atomic!refill_tokens
<1>2. /\ Atomic!scaled_capacity = Whole!scaled_capacity /\ Atomic!rate_scaled = Whole!rate_scaled
      /\ Atomic!NoBucket = Whole!NoBucket
  BY <1>1 DEF Whole!scaled_capacity, Atomic!scaled_capacity, Whole!rate_scaled, Atomic!rate_scaled,
              Whole!NoBucket, Atomic!NoBucket, Whole!None, Atomic!None
<1>3. \A b, now : Atomic!apply_refill(b, now) = Whole!apply_refill(b, now)
  BY <1>1, <1>2 DEF Whole!apply_refill, Atomic!apply_refill, Whole!accrued, Atomic!accrued
<1>4. \A b, now : Atomic!refilled(b, now) = Whole!refilled(b, now)
  BY <1>2, <1>3 DEF Whole!refilled, Atomic!refilled, Whole!found, Atomic!found
<1>5. \A b, c : Atomic!taken(b, c) = Whole!taken(b, c)
  BY <1>1 DEF Whole!taken, Atomic!taken, Whole!permits, Atomic!permits, Whole!token_cost, Atomic!token_cost
<1> QED BY <1>4, <1>5 DEF Whole!checked, Atomic!checked

\* What the caller's steps make of the buckets that WholeChecks has.
Left(t, k) == IF Checks(t, k) THEN LeftBy(t) ELSE Stored(k)

LEMMA BucketsAlone ==
    ASSUME OneCaller, NEW t \in Thread
    PROVE  /\ buckets = [k \in Key |-> Left(t, k)]
           /\ buckets' = [k \in Key |-> Left(t, k)']
<1>1. Thread = {t}
  BY DEF OneCaller
<1>2. \A k \in Key : (\E u \in Thread : Checks(u, k)) => (CHOOSE u \in Thread : Checks(u, k)) = t
  BY <1>1
<1>3. \A k \in Key : (\E u \in Thread : Checks(u, k)) <=> Checks(t, k)
  BY <1>1
<1>4. \A k \in Key : (\E u \in Thread : Checks(u, k)') => (CHOOSE u \in Thread : Checks(u, k)') = t
  BY <1>1
<1>5. \A k \in Key : (\E u \in Thread : Checks(u, k)') <=> Checks(t, k)'
  BY <1>1
<1> HIDE DEF Checks, LeftBy, Stored
<1> QED BY <1>2, <1>3, <1>4, <1>5 DEF buckets, Left

\* A step that leaves the map, the buckets in it and the call alone leaves behind what
\* there was, unless it changes what is still to be done.
LEMMA SameStored ==
    ASSUME UNCHANGED <<shards, tokens, last_refill>>
    PROVE  \A k : Stored(k)' = Stored(k)
  BY DEF Stored, Whole!NoBucket, Whole!None

\* The caller touches no bucket but that of its key.
LEMMA OthersStay ==
    ASSUME KeyInv, HeldIsMapped, NEW t \in Thread, Running(t), ~RemoveExpired(t),
           NEW j \in Key, j # call[t].key
    PROVE  Left(t, j)' = Left(t, j)
<1>1. /\ TypeOK /\ OneKeyPerBucket /\ call[t].key \in Key
      /\ pc[t] \in Consuming => state[t] \in Ref /\ shards[call[t].key] = state[t]
      /\ shards[j] # NoRef => shards[j] \in Ref
  BY DEF KeyInv, TypeInv, TypeOK, HeldIsMapped
<1>2. pc[t] \in Consuming => shards[j] # state[t]
  BY <1>1, BucketAssumption DEF OneKeyPerBucket
<1>3. ~Checks(t, j)
  BY DEF Checks
<1>4. ~Checks(t, j)'
  <2>1. call' = call \/ pc'[t] = "idle"
    BY <1>1
    DEF Running, CleanupIdle, ScanEntry, RemoveExpired, NextShard, FindBucket, Lookup, Insert,
        AlreadyInserted, TryConsume, Touch, Claiming, NothingAccrued, LoadRefill, Claim,
        ClaimFails, Credit, Deciding, LoadTokens, Deny, Debit, DebitFails, Return, Goto, TypeOK
  <2> QED BY <2>1 DEF Checks, Consuming
<1>5. /\ shards'[j] = shards[j]
      /\ shards[j] # NoRef => /\ tokens'[shards[j]] = tokens[shards[j]]
                              /\ last_refill'[shards[j]] = last_refill[shards[j]]
  <2>1. CASE Insert(t)
    BY <1>1, <2>1 DEF Insert, Free, TypeOK
  <2>2. CASE Claim(t) \/ Credit(t) \/ Debit(t)
    BY <1>1, <1>2, <2>2 DEF Claim, Credit, Debit, Consuming, TypeOK
  <2>3. CASE ~(Insert(t) \/ Claim(t) \/ Credit(t) \/ Debit(t))
    <3>1. UNCHANGED <<shards, tokens, last_refill>>
      BY <2>3
      DEF Running, CleanupIdle, ScanEntry, NextShard, FindBucket, Lookup, AlreadyInserted,
          TryConsume, Touch, Claiming, NothingAccrued, LoadRefill, ClaimFails,
          Deciding, LoadTokens, Deny, DebitFails, shared
    <3> QED BY <3>1
  <2> QED BY <2>1, <2>2, <2>3
<1> QED BY <1>3, <1>4, <1>5 DEF Left, Stored, Whole!NoBucket, Whole!None

\* What is still to be done at each step of a call.
LEMMA LeftCases ==
    ASSUME NEW t \in Thread, NEW k \in Key, k = call[t].key
    PROVE  LET c == call[t].cost IN
           /\ pc[t] \in {"insert", "touch", "load_refill", "claim"} =>
                 Left(t, k) = Whole!checked(Stored(k), call[t].now, c)
           /\ pc[t] = "credit" =>
                 Left(t, k) = Whole!taken([Stored(k) EXCEPT !.tokens = MinOf(@ + added(t), scaled_capacity)], c)
           /\ pc[t] \in {"load_tokens", "debit"} => Left(t, k) = Whole!taken(Stored(k), c)
           /\ pc[t] \in {"idle", "sweep", "lookup"} => Left(t, k) = Stored(k)
<1> HIDE DEF Stored
<1> QED BY DEF Left, LeftBy, Checks, Consuming

LEMMA LeftCasesAfter ==
    ASSUME NEW t \in Thread, NEW k \in Key, k = call'[t].key
    PROVE  LET c == call'[t].cost IN
           /\ pc'[t] \in {"insert", "touch", "load_refill", "claim"} =>
                 Left(t, k)' = Whole!checked(Stored(k)', call'[t].now, c)
           /\ pc'[t] = "credit" =>
                 Left(t, k)' = Whole!taken([Stored(k)' EXCEPT !.tokens = MinOf(@ + added(t)', scaled_capacity)], c)
           /\ pc'[t] \in {"load_tokens", "debit"} => Left(t, k)' = Whole!taken(Stored(k)', c)
  BY DEF Left, LeftBy, Checks, Consuming, Whole!checked, Whole!taken

\* Each step of a call but the first does one part of what is left to be done of the
\* check, and the last leaves nothing.
LEMMA OwnStep ==
    ASSUME WholeInv, NEW t \in Thread, Running(t), ~RemoveExpired(t), NEW k \in Key, k = call[t].key
    PROVE  IF Lookup(t)
           THEN Left(t, k)' = Whole!checked(Left(t, k), call[t].now, call[t].cost)
           ELSE Left(t, k)' = Left(t, k)
<1> DEFINE c   == call[t].cost
           now == call[t].now
           x   == tokens[shards[k]]
           l   == last_refill[shards[k]]
<1>1. /\ TypeOK /\ TypeInv /\ ClockTypes /\ Timeline /\ HoldsAlone(t) /\ now \in Nat
      /\ pc[t] # "idle" => c # 0
  BY TypesOfClock DEF WholeInv, AloneInv, KeyInv, ClaimInv, TypeInv, TypeOK, CallsCost
<1>2. pc[t] \in Consuming =>
         /\ shards[k] = state[t] /\ shards[k] \in Ref
         /\ Stored(k) = [tokens |-> x, last_refill |-> l]
         /\ x \in 0..scaled_capacity /\ l \in 0..U64_MAX
  <2>1. ASSUME pc[t] \in Consuming PROVE shards[k] = state[t] /\ shards[k] \in Ref /\ shards[k] # NoRef
    BY <1>1, <2>1, BucketAssumption DEF HoldsAlone, TypeOK
  <2>2. ASSUME NEW r \in Ref PROVE tokens[r] \in 0..scaled_capacity
    <3>1. tokens[r] \in Nat /\ tokens[r] <= scaled_capacity
      BY <1>1 DEF WholeInv, WithinCapacity, TypeOK
    <3> QED BY <3>1, ConstantsTyped
  <2>3. ASSUME NEW r \in Ref PROVE last_refill[r] \in 0..U64_MAX
    <3>1. last_refill[r] \in Nat /\ last_refill[r] <= clock /\ clock \in Nat /\ clock <= U64_MAX
      BY <1>1, BucketAssumption, MathAssumption DEF Timeline, TypeOK, u64
    <3> QED BY <3>1, MathAssumption
  <2>4. shards[k] # NoRef => Stored(k) = [tokens |-> x, last_refill |-> l]
    BY DEF Stored
  <2> HIDE DEF x, l
  <2>5. shards[k] \in Ref => x \in 0..scaled_capacity /\ l \in 0..U64_MAX
    BY <2>2, <2>3 DEF x, l
  <2> QED BY <2>1, <2>4, <2>5
<1> HIDE DEF c, now, x, l
<1>3. CASE ScanEntry(t) \/ NextShard(t)
  <2>1. UNCHANGED <<shards, tokens, last_refill, call>>
        /\ pc[t] = "sweep" /\ pc'[t] \in {"sweep", "lookup"}
    BY <1>1, <1>3 DEF ScanEntry, NextShard, Goto, shared, TypeOK
  <2>2. Left(t, k)' = Stored(k)' /\ Left(t, k) = Stored(k)
    BY <2>1 DEF Left, Checks, Consuming
  <2> QED BY <2>1, <2>2, SameStored DEF Lookup
<1>4. CASE Lookup(t)
  <2>1. UNCHANGED <<shards, tokens, last_refill, call>>
        /\ pc[t] = "lookup" /\ pc'[t] \in {"insert", "touch"}
    BY <1>1, <1>4 DEF Lookup, Goto, shared, TypeOK
  <2> QED BY <1>4, <2>1, SameStored, LeftCases, LeftCasesAfter
<1>5. CASE AlreadyInserted(t)
  BY <1>1, <1>5 DEF AlreadyInserted, HoldsAlone
<1>6. CASE Insert(t)
  <2>1. PICK r \in Free : /\ shards' = [shards EXCEPT ![call[t].key] = r]
                          /\ tokens' = [tokens EXCEPT ![r] = scaled_capacity]
                          /\ last_refill' = [last_refill EXCEPT ![r] = call[t].now]
    BY <1>6 DEF Insert
  <2>2. /\ pc[t] = "insert" /\ pc'[t] = "touch" /\ call' = call /\ shards[k] = NoRef
        /\ r \in Ref /\ r # NoRef
    BY <1>1, <1>6, BucketAssumption DEF Insert, Goto, TypeOK, Free
  <2>3. Stored(k) = Whole!NoBucket
    BY <2>2 DEF Stored
  <2>4. Stored(k)' = [tokens |-> scaled_capacity, last_refill |-> now]
    BY <1>1, <2>1, <2>2 DEF Stored, TypeOK, now
  <2>5. Left(t, k) = Whole!checked(Whole!NoBucket, now, c) /\ c # 0
    BY <1>1, <2>2, <2>3, LeftCases DEF now, c
  <2>6. Left(t, k)' = Whole!checked([tokens |-> scaled_capacity, last_refill |-> now], now, c)
    BY <2>2, <2>4, LeftCasesAfter DEF now, c
  <2>7. ~Lookup(t)
    BY <2>2 DEF Lookup
  <2> QED BY <2>5, <2>6, <2>7, WholeInserts
<1>7. CASE Touch(t) \/ LoadRefill(t) \/ ClaimFails(t)
  <2>1. UNCHANGED <<shards, tokens, last_refill, call>>
        /\ pc[t] \in {"touch", "load_refill", "claim"} /\ pc'[t] \in {"load_refill", "claim"}
    BY <1>1, <1>7 DEF Touch, LoadRefill, ClaimFails, Goto, shared, TypeOK
  <2>2. Left(t, k) = Whole!checked(Stored(k), now, c)
    BY <2>1, LeftCases DEF now, c
  <2>3. Left(t, k)' = Whole!checked(Stored(k)', now, c)
    BY <2>1, LeftCasesAfter DEF now, c
  <2>4. Stored(k)' = Stored(k) /\ ~Lookup(t)
    BY <2>1, SameStored DEF Lookup
  <2> QED BY <2>2, <2>3, <2>4
<1>8. CASE LoadTokens(t) \/ DebitFails(t)
  <2>1. UNCHANGED <<shards, tokens, last_refill, call>>
        /\ pc[t] \in {"load_tokens", "debit"} /\ pc'[t] \in {"load_tokens", "debit"}
    BY <1>1, <1>8 DEF LoadTokens, DebitFails, Goto, shared, TypeOK
  <2>2. Left(t, k) = Whole!taken(Stored(k), c)
    BY <2>1, LeftCases DEF c
  <2>3. Left(t, k)' = Whole!taken(Stored(k)', c)
    BY <2>1, LeftCasesAfter DEF c
  <2>4. Stored(k)' = Stored(k) /\ ~Lookup(t)
    BY <2>1, SameStored DEF Lookup
  <2> QED BY <2>2, <2>3, <2>4
<1>9. CASE NothingAccrued(t)
  <2>1. /\ UNCHANGED <<shards, tokens, last_refill, call>>
        /\ pc[t] = "load_refill" /\ pc[t] \in Consuming /\ pc'[t] = "load_tokens"
        /\ accrued_since(t, last_refill[state[t]]) = 0
    BY <1>1, <1>9 DEF NothingAccrued, Goto, shared, TypeOK, Consuming
  <2>2. refill_tokens(saturating_sub(now, l), rate_scaled) = 0
    BY <1>2, <2>1 DEF accrued_since, now, l
  <2>3. nanos_for_tokens(0, rate_scaled) = 0
    <3>1. 0 * NANOS_PER_SEC = 0 /\ \A y \in Nat \ {0} : 0 \div y = 0
      BY MathAssumption
    <3> QED BY <3>1, ConstantsTyped, MathAssumption DEF nanos_for_tokens, MinOf
  <2>4. MinOf(x + 0, scaled_capacity) = x /\ saturating_add(l, 0) = l
    BY <1>2, <2>1, ConstantsTyped, MathAssumption DEF MinOf, saturating_add
  <2>5. Whole!checked(Stored(k), now, c) = Whole!taken(Stored(k), c)
    <3>1. c # 0 /\ x \in 0..scaled_capacity /\ l \in 0..U64_MAX
      BY <1>1, <1>2, <2>1
    <3>2. Whole!checked([tokens |-> x, last_refill |-> l], now, c)
            = Whole!taken([tokens |-> MinOf(x + 0, scaled_capacity),
                           last_refill |-> saturating_add(l, nanos_for_tokens(0, rate_scaled))], c)
      BY <1>1, <2>2, <3>1, WholeChecked
    <3> QED BY <1>2, <2>1, <2>3, <2>4, <3>2
  <2>6. Left(t, k) = Whole!checked(Stored(k), now, c)
    BY <2>1, LeftCases DEF now, c
  <2>7. Left(t, k)' = Whole!taken(Stored(k)', c)
    BY <2>1, LeftCasesAfter DEF c
  <2> QED BY <2>1, <2>5, <2>6, <2>7, SameStored DEF Lookup
<1>10. CASE Claim(t)
  <2>1. /\ UNCHANGED <<shards, tokens, call, loaded>>
        /\ pc[t] = "claim" /\ pc[t] \in Consuming /\ pc'[t] = "credit" /\ loaded[t] = last_refill[state[t]]
        /\ last_refill' = [last_refill EXCEPT ![state[t]] = saturating_add(loaded[t], claimed(t))]
    BY <1>1, <1>10 DEF Claim, Goto, shared, TypeOK, Consuming
  <2> DEFINE a == refill_tokens(saturating_sub(now, l), rate_scaled)
             last == saturating_add(l, nanos_for_tokens(a, rate_scaled))
  <2>2. /\ added(t) = a /\ added(t)' = a
        /\ last_refill'[shards[k]] = last
    BY <1>1, <1>2, <2>1 DEF added, accrued_since, claimed, now, l, TypeOK
  <2>3. Stored(k)' = [tokens |-> x, last_refill |-> last]
    BY <1>2, <2>1, <2>2, BucketAssumption DEF Stored, x
  <2>4. Left(t, k)' = Whole!taken([Stored(k)' EXCEPT !.tokens = MinOf(@ + a, scaled_capacity)], c)
    BY <2>1, <2>2, LeftCasesAfter DEF c
  <2>5. [Stored(k)' EXCEPT !.tokens = MinOf(@ + a, scaled_capacity)]
          = [tokens |-> MinOf(x + a, scaled_capacity), last_refill |-> last]
    BY <2>3
  <2>6. Left(t, k) = Whole!taken([tokens |-> MinOf(x + a, scaled_capacity), last_refill |-> last], c)
    <3>1. c # 0 /\ x \in 0..scaled_capacity /\ l \in 0..U64_MAX
      BY <1>1, <1>2, <2>1
    <3>2. Whole!checked([tokens |-> x, last_refill |-> l], now, c)
            = Whole!taken([tokens |-> MinOf(x + a, scaled_capacity), last_refill |-> last], c)
      BY <1>1, <3>1, WholeChecked
    <3>3. Left(t, k) = Whole!checked(Stored(k), now, c)
      BY <2>1, LeftCases DEF now, c
    <3> QED BY <1>2, <2>1, <3>2, <3>3
  <2> QED BY <2>1, <2>4, <2>5, <2>6 DEF Lookup
<1>11. CASE Credit(t)
  <2>1. /\ UNCHANGED <<shards, last_refill, call>>
        /\ pc[t] = "credit" /\ pc[t] \in Consuming /\ pc'[t] = "load_tokens"
        /\ tokens' = [tokens EXCEPT ![state[t]] =
                        IF @ >= scaled_capacity
                        THEN @ ELSE MinOf(saturating_add(@, added(t)), scaled_capacity)]
    BY <1>1, <1>11 DEF Credit, Goto, shared, TypeOK, Consuming
  <2>2. tokens'[shards[k]] = MinOf(x + added(t), scaled_capacity)
    <3>1. added(t) \in Nat /\ x \in Nat /\ x <= scaled_capacity
      BY <1>1, <1>2, <2>1, AccruedTyped, ConstantsTyped
    <3>2. (IF x >= scaled_capacity THEN x ELSE MinOf(saturating_add(x, added(t)), scaled_capacity))
            = MinOf(x + added(t), scaled_capacity)
      BY <3>1, ConstantsTyped, MathAssumption DEF MinOf, saturating_add
    <3> QED BY <1>1, <1>2, <2>1, <3>2 DEF TypeOK, x
  <2>3. Stored(k)' = [Stored(k) EXCEPT !.tokens = MinOf(@ + added(t), scaled_capacity)]
    BY <1>2, <2>1, <2>2, BucketAssumption DEF Stored, l
  <2>4. Left(t, k) = Whole!taken([Stored(k) EXCEPT !.tokens = MinOf(@ + added(t), scaled_capacity)], c)
    BY <2>1, LeftCases DEF c
  <2>5. Left(t, k)' = Whole!taken(Stored(k)', c)
    BY <2>1, LeftCasesAfter DEF c
  <2> QED BY <2>1, <2>3, <2>4, <2>5 DEF Lookup
<1>12. CASE Deny(t) \/ Debit(t)
  <2>1. /\ UNCHANGED <<shards, last_refill>> /\ pc[t] \in {"load_tokens", "debit"} /\ pc[t] \in Consuming
        /\ pc'[t] = "idle" /\ c # 0
    BY <1>1, <1>12 DEF Deny, Debit, Return, Goto, shared, TypeOK, Consuming
  <2>2. Left(t, k)' = Stored(k)' /\ Left(t, k) = Whole!taken(Stored(k), c)
    <3>1. ~Checks(t, k)'
      BY <2>1 DEF Checks, Consuming
    <3> QED BY <2>1, <3>1, LeftCases DEF Left, c
  <2>3. Stored(k)' = Whole!taken(Stored(k), c)
    <3>1. CASE Deny(t)
      <4>1. UNCHANGED <<tokens, shards, last_refill>> /\ tokens[state[t]] < token_cost(t)
        BY <3>1 DEF Deny, shared
      <4>2. ~(x >= saturating_mul(c, SCALE)) /\ Stored(k).tokens = x
        <5>1. token_cost(t) \in Nat /\ x \in Nat /\ token_cost(t) = saturating_mul(c, SCALE)
          BY <1>1, <1>2, <2>1, CostTyped, ConstantsTyped DEF token_cost, c
        <5>2. x < token_cost(t)
          BY <1>2, <2>1, <4>1 DEF x
        <5> QED BY <1>2, <2>1, <5>1, <5>2
      <4> QED BY <4>1, <4>2, SameStored, WholeTaken
    <3>2. CASE Debit(t)
      <4>1. /\ loaded[t] = x /\ loaded[t] >= token_cost(t)
            /\ tokens' = [tokens EXCEPT ![state[t]] = loaded[t] - token_cost(t)]
        BY <1>1, <1>2, <2>1, <3>2 DEF Debit, TypeInv, DebitCovered, x
      <4>2. x >= saturating_mul(c, SCALE) /\ tokens'[shards[k]] = x - saturating_mul(c, SCALE)
        BY <1>1, <1>2, <2>1, <4>1 DEF token_cost, c, TypeOK
      <4>3. Stored(k)' = [Stored(k) EXCEPT !.tokens = @ - saturating_mul(c, SCALE)]
        BY <1>2, <2>1, <4>2, BucketAssumption DEF Stored, l
      <4> QED BY <1>2, <2>1, <4>2, <4>3, WholeTaken
    <3> QED BY <1>12, <3>1, <3>2
  <2> QED BY <2>1, <2>2, <2>3 DEF Lookup
<1> QED
  BY <1>3, <1>4, <1>5, <1>6, <1>7, <1>8, <1>9, <1>10, <1>11, <1>12
  DEF Running, CleanupIdle, FindBucket, TryConsume, Claiming, Deciding

\* A step of the caller is a step of WholeChecks, or none: a check is done when its
\* bucket is looked up.
LEMMA NextWhole ==
    ASSUME OneCaller, WholeInv, [Next]_vars
    PROVE  [Atomic!Next]_<<clock, buckets>>
<1>1. /\ TypeOK /\ KeyInv /\ Timeline /\ HeldIsMapped /\ \A u \in Thread : HoldsAlone(u)
  BY DEF WholeInv, AloneInv, KeyInv, TypeInv, ClaimInv, HoldsAlone, HeldIsMapped
<1>2. PICK t \in Thread : Thread = {t}
  BY DEF OneCaller
<1>3. buckets = [k \in Key |-> Left(t, k)] /\ buckets' = [k \in Key |-> Left(t, k)']
  BY BucketsAlone
<1>4. CASE UNCHANGED vars
  <2>1. \A k \in Key : Left(t, k)' = Left(t, k)
    BY <1>4 DEF vars, shared, Left, LeftBy, Checks, Stored, added, accrued_since,
                Whole!checked, Whole!taken, Whole!NoBucket, Whole!None
  <2> QED BY <1>3, <1>4, <2>1 DEF vars
<1>5. CASE Tick
  <2>1. \A k \in Key : Left(t, k)' = Left(t, k)
    BY <1>5 DEF Tick, shared, Left, LeftBy, Checks, Stored, added, accrued_since,
                Whole!checked, Whole!taken, Whole!NoBucket, Whole!None
  <2> QED BY <1>3, <1>5, <2>1 DEF Tick, Atomic!Tick, Atomic!Next
<1>6. CASE Calling(t)
  <2>1. UNCHANGED <<clock, shards, tokens, last_refill>> /\ pc[t] = "idle" /\ pc'[t] \in {"sweep", "lookup"}
    BY <1>1, <1>6 DEF Calling, Check, CheckAndSweep, Begin, Goto, shared, TypeOK
  <2>2. \A k \in Key : Left(t, k) = Stored(k) /\ Left(t, k)' = Stored(k)'
    BY <2>1 DEF Left, Checks, Consuming
  <2> QED BY <1>3, <2>1, <2>2, SameStored
<1>7. CASE RemoveExpired(t)
  <2>1. PICK k \in sweep[t].keys_to_remove : shards' = [shards EXCEPT ![k] = NoRef]
    BY <1>7 DEF RemoveExpired
  <2>2. /\ UNCHANGED <<clock, tokens, last_refill, pc>> /\ pc[t] = "sweep" /\ k \in Key
    BY <1>1, <1>7, <2>1 DEF RemoveExpired, TypeOK, SweepState
  <2>3. \A j \in Key : Left(t, j) = Stored(j) /\ Left(t, j)' = Stored(j)'
    BY <2>2 DEF Left, Checks, Consuming
  <2>4. Stored(k)' = Whole!NoBucket
    BY <1>1, <2>1, <2>2 DEF Stored, TypeOK, Whole!NoBucket, Whole!None
  <2>5. \A j \in Key : j # k => Stored(j)' = Stored(j)
    BY <1>1, <2>1, <2>2 DEF Stored, TypeOK, Whole!NoBucket, Whole!None
  <2>6. buckets' = [buckets EXCEPT ![k] = Whole!NoBucket]
    BY <1>3, <2>3, <2>4, <2>5
  <2>7. Whole!NoBucket = Atomic!NoBucket
    BY DEF Whole!NoBucket, Atomic!NoBucket, Whole!None, Atomic!None
  <2> QED BY <2>2, <2>6, <2>7 DEF Atomic!Evict, Atomic!Next
<1>8. CASE Running(t) /\ ~RemoveExpired(t)
  <2> PICK k \in Key : k = call[t].key
    BY <1>1 DEF TypeOK
  <2>1. clock' = clock
    BY <1>8
    DEF Running, CleanupIdle, ScanEntry, NextShard, FindBucket, Lookup, Insert,
        AlreadyInserted, TryConsume, Touch, Claiming, NothingAccrued, LoadRefill, Claim,
        ClaimFails, Credit, Deciding, LoadTokens, Deny, Debit, DebitFails
  <2>2. \A j \in Key : j # k => Left(t, j)' = Left(t, j)
    BY <1>1, <1>8, OthersStay
  <2>3. CASE Lookup(t)
    <3>1. Left(t, k)' = Atomic!checked(Left(t, k), call[t].now, call[t].cost)
      BY <1>8, <2>1, <2>3, OwnStep, AtomicChecked
    <3>2. call[t].cost \in Cost /\ call[t].now \in 0..clock
      <4>1. call[t].cost \in Cost \cup {0} /\ call[t].cost # 0
        BY <1>1, <2>3 DEF TypeOK, Lookup, WholeInv, CallsCost
      <4>2. call[t].now \in Nat /\ call[t].now <= clock /\ clock \in Nat
        BY <1>1 DEF TypeOK, Timeline
      <4> QED BY <4>1, <4>2
    <3>3. buckets' = [buckets EXCEPT ![k] = Atomic!checked(@, call[t].now, call[t].cost)]
      BY <1>3, <2>1, <2>2, <3>1
    <3> QED BY <2>1, <3>2, <3>3 DEF Atomic!Check, Atomic!Next
  <2>4. CASE ~Lookup(t)
    <3>1. Left(t, k)' = Left(t, k)
      BY <1>8, <2>1, <2>4, OwnStep
    <3> QED BY <1>3, <2>1, <2>2, <3>1
  <2> QED BY <2>3, <2>4
<1> QED BY <1>2, <1>4, <1>5, <1>6, <1>7, <1>8 DEF Next

\* The loads, claims, credits and debits of a call that meets no other add up to one whole
\* check of one key, at any rate, and with a sweep before it to the evictions and the
\* check.
THEOREM CallsAreWholeChecks == ASSUME OneCaller PROVE Spec => ImplementsWholeChecks
<1>1. Init => Atomic!Init
  <2> SUFFICES ASSUME Init PROVE Atomic!Init
    OBVIOUS
  <2>1. PICK t \in Thread : Thread = {t}
    BY DEF OneCaller
  <2>2. \A k \in Key : Left(t, k) = Atomic!NoBucket
    BY DEF Init, Left, Checks, Consuming, Stored, Whole!NoBucket, Whole!None, Atomic!NoBucket, Atomic!None
  <2> QED BY <2>2, BucketsAlone DEF Init, Atomic!Init
<1>2. WholeInv /\ [Next]_vars => [Atomic!Next]_<<clock, buckets>>
  BY NextWhole
<1> QED BY <1>1, <1>2, WholeInvariant, PTL DEF Spec, ImplementsWholeChecks, Atomic!Spec
=============================================================================
