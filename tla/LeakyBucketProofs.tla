-------------------------- MODULE LeakyBucketProofs --------------------------
(***************************************************************************)
(* LeakyBucket is TokenBucket upside down, for any number of keys, threads *)
(* and buckets and any capacity, rate and TTL: every step of a thread on a *)
(* leaky bucket is the step on a token bucket whose tokens are the room    *)
(* that is left.  What is proved of token buckets is then true of leaky    *)
(* ones, read in the mirror.                                               *)
(***************************************************************************)
EXTENDS LeakyBucket, RefillMathProofs, FiniteSetTheorems

\* The theorems about token buckets, about the room in the leaky ones.  What a key
\* has been let through by all its buckets plays no part in them.
Facts == INSTANCE TokenBucketProofs WITH
            tokens <- room, loaded <- room_loaded, admitted <- granted, admitted_now <- granted,
            MAX_BURST <- MAX_CAPACITY, MAX_RATE_PER_SEC <- MAX_LEAK_RATE,
            NUM_SHARDS <- 1, get_shard_index <- [k \in Key |-> 0]

\* They ask nothing of their constants that a leaky bucket's do not satisfy.
LEMMA FactsApply == Facts!BucketAssumption /\ Facts!MathAssumption
  BY LeakyAssumption, MathAssumption
  DEF Facts!BucketAssumption, Facts!MathAssumption, u64, Facts!u64

-----------------------------------------------------------------------------
(***************************************************************************)
(* The invariant                                                           *)
(***************************************************************************)

\* The subtraction of levels cannot underflow, and what a thread is about to pour
\* fits, as long as the level is still what it loaded.
LevelInv ==
    /\ tokens \in [Ref -> 0..scaled_capacity]
    /\ loaded \in [Thread -> Nat]
    /\ \A t \in Thread : pc[t] = "debit" => new_tokens(t, loaded[t]) <= scaled_capacity

MirrorInv == LevelInv /\ Facts!TypeInv

\* A leaky bucket can never hold as much as a saturated cost is cut to.
LEMMA LeakyConstants ==
    /\ scaled_capacity \in Nat /\ scaled_capacity < U64_MAX
    /\ rate_scaled \in Nat
<1>1. capacity \in Nat /\ capacity <= MAX_CAPACITY
  BY LeakyAssumption DEF capacity, MinOf
<1>2. leak_rate_per_second \in Nat
  BY LeakyAssumption DEF leak_rate_per_second, MinOf
<1>3. capacity * SCALE \in Nat /\ 2 * (capacity * SCALE) <= U64_MAX
  <2>1. capacity * SCALE <= MAX_CAPACITY * SCALE
    BY <1>1, MathAssumption, LeakyAssumption, KeepFactor
  <2>2. 2 * (MAX_CAPACITY * SCALE) = 2 * SCALE * MAX_CAPACITY
    BY MathAssumption, LeakyAssumption
  <2> QED BY <1>1, <2>1, <2>2, MathAssumption, LeakyAssumption
<1>4. scaled_capacity \in Nat /\ scaled_capacity < U64_MAX
  BY <1>3, MathAssumption DEF scaled_capacity, saturating_mul, MinOf
<1>5. rate_scaled \in Nat
  BY <1>2, MathAssumption DEF rate_scaled, saturating_mul, MinOf
<1> QED BY <1>4, <1>5

\* The constants of the three readings of the bucket are the same.
LEMMA SameConstants ==
    /\ Threads!scaled_capacity = scaled_capacity /\ Threads!rate_scaled = rate_scaled
    /\ Room!scaled_capacity = scaled_capacity /\ Room!rate_scaled = rate_scaled
    /\ Facts!scaled_capacity = scaled_capacity /\ Facts!rate_scaled = rate_scaled
  BY DEF scaled_capacity, rate_scaled, capacity, leak_rate_per_second, saturating_mul, MinOf,
         Threads!scaled_capacity, Threads!rate_scaled, Threads!capacity,
         Threads!refill_rate_per_second, Threads!saturating_mul, Threads!MinOf,
         Room!scaled_capacity, Room!rate_scaled, Room!capacity,
         Room!refill_rate_per_second, Room!saturating_mul, Room!MinOf,
         Facts!scaled_capacity, Facts!rate_scaled, Facts!capacity,
         Facts!refill_rate_per_second, Facts!saturating_mul, Facts!MinOf

\* And sets have the same sizes.
LEMMA SameSizes == \A S : Facts!Cardinality(S) = Cardinality(S)
  BY DEF Facts!Cardinality, Cardinality

\* What the invariant says of a thread and the bucket it works on.
LEMMA Shapes ==
    ASSUME MirrorInv
    PROVE  /\ pc \in [Thread -> Threads!Steps]
           /\ state \in [Thread -> Ref \cup {NoRef}]
           /\ call \in [Thread -> [key : Key, cost : Cost \cup {0}, now : Nat]]
           /\ granted \in [Ref -> Nat]
           /\ \A t \in Thread : pc[t] \in Threads!Consuming => state[t] \in Ref
           /\ \A t \in Thread : token_cost(t) \in Nat
<1>1. Facts!TypeOK
  BY DEF MirrorInv, Facts!TypeInv
<1>2. /\ pc \in [Thread -> Threads!Steps]
      /\ state \in [Thread -> Ref \cup {NoRef}]
      /\ call \in [Thread -> [key : Key, cost : Cost \cup {0}, now : Nat]]
      /\ granted \in [Ref -> Nat]
      /\ \A t \in Thread : pc[t] \in Threads!Consuming => state[t] \in Ref
  BY <1>1 DEF Facts!TypeOK, Facts!Steps, Facts!Consuming, Threads!Steps, Threads!Consuming
<1>3. ASSUME NEW t \in Thread PROVE token_cost(t) \in Nat
  <2>0. call[t].cost \in Cost \cup {0} /\ \A c \in Cost : c \in Nat
    BY <1>2, LeakyAssumption, MathAssumption DEF u64
  <2>1. call[t].cost \in Nat
    BY <2>0
  <2> QED BY <2>1, MathAssumption DEF token_cost, Threads!token_cost, Threads!saturating_mul, Threads!MinOf
<1> QED BY <1>2, <1>3

\* A cost fits exactly when there is room for it.
LEMMA FitsInRoom ==
    ASSUME MirrorInv, NEW t \in Thread, NEW x \in 0..scaled_capacity
    PROVE  /\ new_tokens(t, x) <= scaled_capacity <=> scaled_capacity - x >= Room!token_cost(t)
           /\ new_tokens(t, x) <= scaled_capacity =>
                 /\ new_tokens(t, x) \in 0..scaled_capacity
                 /\ scaled_capacity - new_tokens(t, x) = (scaled_capacity - x) - Room!token_cost(t)
<1>1. token_cost(t) \in Nat /\ scaled_capacity \in Nat /\ scaled_capacity < U64_MAX
  BY Shapes, LeakyConstants
<1>2. Room!token_cost(t) = token_cost(t)
  BY DEF token_cost, Threads!token_cost, Threads!saturating_mul, Threads!MinOf,
         Room!token_cost, Room!saturating_mul, Room!MinOf
<1> QED BY <1>1, <1>2, MathAssumption DEF new_tokens, saturating_add, MinOf

\* A step that moves no level, and nothing loaded, leaves the room alone.
LEMMA RoomStays ==
    ASSUME UNCHANGED <<tokens, loaded>>,
           \A t \in Thread : pc'[t] = "debit" <=> pc[t] = "debit"
    PROVE  room' = room /\ room_loaded' = room_loaded
<1>1. room' = room
  BY DEF room
<1>2. room_loaded' = room_loaded
  BY DEF room_loaded
<1> QED BY <1>1, <1>2

\* What a thread loads, seen in the mirror: a level is room, anything else is
\* what it is.
LEMMA RoomLoads ==
    ASSUME MirrorInv, NEW t \in Thread, NEW x, NEW step, step # "debit",
           loaded' = [loaded EXCEPT ![t] = x], pc' = [pc EXCEPT ![t] = step]
    PROVE  room_loaded' = [room_loaded EXCEPT ![t] = x]
<1>1. loaded \in [Thread -> Nat] /\ pc \in [Thread -> Threads!Steps]
  BY Shapes DEF MirrorInv, LevelInv
<1>2. \A u \in Thread :
         /\ loaded'[u] = IF u = t THEN x ELSE loaded[u]
         /\ pc'[u] = IF u = t THEN step ELSE pc[u]
  BY <1>1
<1>3. /\ \A u \in Thread : room_loaded'[u] = IF u = t THEN x ELSE room_loaded[u]
      /\ room_loaded = [u \in Thread |-> room_loaded[u]]
      /\ room_loaded' = [u \in Thread |-> room_loaded'[u]]
  BY <1>2 DEF room_loaded
<1> QED BY <1>3

LEMMA RoomLoadsLevel ==
    ASSUME MirrorInv, NEW t \in Thread, NEW x,
           loaded' = [loaded EXCEPT ![t] = x], pc' = [pc EXCEPT ![t] = "debit"]
    PROVE  room_loaded' = [room_loaded EXCEPT ![t] = scaled_capacity - x]
<1>1. loaded \in [Thread -> Nat] /\ pc \in [Thread -> Threads!Steps]
  BY Shapes DEF MirrorInv, LevelInv
<1>2. \A u \in Thread :
         /\ loaded'[u] = IF u = t THEN x ELSE loaded[u]
         /\ pc'[u] = IF u = t THEN "debit" ELSE pc[u]
  BY <1>1
<1>3. /\ \A u \in Thread :
            room_loaded'[u] = IF u = t THEN scaled_capacity - x ELSE room_loaded[u]
      /\ room_loaded = [u \in Thread |-> room_loaded[u]]
      /\ room_loaded' = [u \in Thread |-> room_loaded'[u]]
  BY <1>2 DEF room_loaded
<1> QED BY <1>3

\* A level that moves, seen in the mirror.
LEMMA RoomMoves ==
    ASSUME MirrorInv, NEW r \in Ref, NEW x, tokens' = [tokens EXCEPT ![r] = x]
    PROVE  room' = [room EXCEPT ![r] = scaled_capacity - x]
<1>1. \A q \in Ref : tokens'[q] = IF q = r THEN x ELSE tokens[q]
  BY DEF MirrorInv, LevelInv
<1>2. /\ \A q \in Ref : room'[q] = IF q = r THEN scaled_capacity - x ELSE room[q]
      /\ room = [q \in Ref |-> room[q]]
      /\ room' = [q \in Ref |-> room'[q]]
  BY <1>1 DEF room
<1> QED BY <1>2

\* What a thread computes from a timestamp is the same in the mirror.
LEMMA SameAccrued ==
    ASSUME NEW t \in Thread
    PROVE  /\ \A x : Room!accrued_since(t, x) = Threads!accrued_since(t, x)
           /\ pc[t] # "debit" => /\ room_loaded[t] = loaded[t]
                                /\ Room!added(t) = Threads!added(t)
                                /\ Room!claimed(t) = Threads!claimed(t)
<1>1. \A x : Room!accrued_since(t, x) = Threads!accrued_since(t, x)
  BY SameConstants
  DEF Room!accrued_since, Room!refill_tokens, Room!saturating_sub, Room!MinOf,
      Threads!accrued_since, Threads!refill_tokens, Threads!saturating_sub, Threads!MinOf
<1>2. pc[t] # "debit" => room_loaded[t] = loaded[t]
  BY DEF room_loaded
<1>3. pc[t] # "debit" => Room!added(t) = Threads!added(t)
  BY <1>1, <1>2 DEF Room!added, Threads!added
<1>4. pc[t] # "debit" => Room!claimed(t) = Threads!claimed(t)
  BY <1>3, SameConstants
  DEF Room!claimed, Room!nanos_for_tokens, Room!MinOf,
      Threads!claimed, Threads!nanos_for_tokens, Threads!MinOf
<1> QED BY <1>1, <1>2, <1>3, <1>4

\* The two instances have the same steps.
LEMMA SameNext == [Room!Next]_(Room!vars) <=> [Facts!Next]_(Facts!vars)
  BY DEF Room!Next, Facts!Next, Room!vars, Facts!vars, Room!shared, Facts!shared,
     Room!history, Facts!history, Room!Tick, Facts!Tick, Room!Calling, Facts!Calling,
     Room!Running, Facts!Running, Room!Check, Facts!Check, Room!CheckAndSweep, Facts!CheckAndSweep,
     Room!Begin, Facts!Begin, Room!Goto, Facts!Goto, Room!NoSweep, Facts!NoSweep,
     Room!KeysOfShard, Facts!KeysOfShard, Room!CleanupIdle, Facts!CleanupIdle,
     Room!ScanEntry, Facts!ScanEntry, Room!RemoveExpired, Facts!RemoveExpired,
     Room!NextShard, Facts!NextShard, Room!IsExpired, Facts!IsExpired,
     Room!saturating_sub, Facts!saturating_sub,
     Room!FindBucket, Facts!FindBucket, Room!Lookup, Facts!Lookup, Room!Insert, Facts!Insert,
     Room!AlreadyInserted, Facts!AlreadyInserted, Room!Free, Facts!Free,
     Room!scaled_capacity, Facts!scaled_capacity, Room!capacity, Facts!capacity,
     Room!MinOf, Facts!MinOf, Room!saturating_mul, Facts!saturating_mul,
     Room!TryConsume, Facts!TryConsume, Room!Touch, Facts!Touch,
     Room!Claiming, Facts!Claiming, Room!NothingAccrued, Facts!NothingAccrued,
     Room!LoadRefill, Facts!LoadRefill, Room!Claim, Facts!Claim, Room!ClaimFails, Facts!ClaimFails,
     Room!Credit, Facts!Credit, Room!Deciding, Facts!Deciding, Room!LoadTokens, Facts!LoadTokens,
     Room!Deny, Facts!Deny, Room!Debit, Facts!Debit, Room!DebitFails, Facts!DebitFails,
     Room!Return, Facts!Return, Room!NoCall, Facts!NoCall,
     Room!added, Facts!added, Room!claimed, Facts!claimed, Room!accrued_since, Facts!accrued_since,
     Room!refill_tokens, Facts!refill_tokens, Room!nanos_for_tokens, Facts!nanos_for_tokens,
     Room!rate_scaled, Facts!rate_scaled, Room!refill_rate_per_second, Facts!refill_rate_per_second,
     Room!saturating_add, Facts!saturating_add, Room!token_cost, Facts!token_cost

-----------------------------------------------------------------------------
(***************************************************************************)
(* Every step, in the mirror                                               *)
(***************************************************************************)

\* The steps that neither move a level nor load one.
LEMMA QuietSteps ==
    ASSUME MirrorInv, NEW t \in Thread,
           Check(t) \/ CheckAndSweep(t) \/ CleanupIdle(t) \/ Lookup(t) \/ AlreadyInserted(t)
              \/ Touch(t) \/ Threads!NothingAccrued(t)
    PROVE  Room!Calling(t) \/ Room!Running(t)
<1>1. pc \in [Thread -> Threads!Steps]
  BY Shapes
<1>2. UNCHANGED <<tokens, loaded>>
  BY DEF Check, CheckAndSweep, CleanupIdle, Lookup, AlreadyInserted, Touch,
         Threads!Check, Threads!CheckAndSweep, Threads!Begin, Threads!CleanupIdle,
         Threads!ScanEntry, Threads!RemoveExpired, Threads!NextShard, Threads!Lookup,
         Threads!AlreadyInserted, Threads!Touch, Threads!NothingAccrued, Threads!shared
<1>3. \A u \in Thread : pc'[u] = "debit" <=> pc[u] = "debit"
  BY <1>1
  DEF Check, CheckAndSweep, CleanupIdle, Lookup, AlreadyInserted, Touch,
         Threads!Check, Threads!CheckAndSweep, Threads!Begin, Threads!CleanupIdle,
         Threads!ScanEntry, Threads!RemoveExpired, Threads!NextShard, Threads!Lookup,
         Threads!AlreadyInserted, Threads!Touch, Threads!NothingAccrued, Threads!Goto
<1>4. room' = room /\ room_loaded' = room_loaded
  BY <1>2, <1>3, RoomStays
<1>5. Check(t) => Room!Check(t)
  BY <1>4
  DEF Check, Threads!Check, Threads!Begin, Threads!Goto, Threads!shared, Threads!history,
      Room!Check, Room!Begin, Room!Goto, Room!shared, Room!history
<1>6. CheckAndSweep(t) => Room!CheckAndSweep(t)
  BY <1>4
  DEF CheckAndSweep, Threads!CheckAndSweep, Threads!Begin, Threads!Goto, Threads!shared,
      Threads!history, Threads!NoSweep, Threads!KeysOfShard,
      Room!CheckAndSweep, Room!Begin, Room!Goto, Room!shared, Room!history,
      Room!NoSweep, Room!KeysOfShard
<1>7. CleanupIdle(t) => Room!CleanupIdle(t)
  BY <1>4
  DEF CleanupIdle, Threads!CleanupIdle, Threads!ScanEntry, Threads!RemoveExpired,
      Threads!NextShard, Threads!Goto, Threads!shared, Threads!history, Threads!NoSweep,
      Threads!KeysOfShard, Threads!IsExpired, Threads!saturating_sub,
      Room!CleanupIdle, Room!ScanEntry, Room!RemoveExpired,
      Room!NextShard, Room!Goto, Room!shared, Room!history, Room!NoSweep,
      Room!KeysOfShard, Room!IsExpired, Room!saturating_sub
<1>8. /\ Lookup(t) => Room!Lookup(t)
      /\ AlreadyInserted(t) => Room!AlreadyInserted(t)
      /\ Touch(t) => Room!Touch(t)
  BY <1>4
  DEF Lookup, Threads!Lookup, AlreadyInserted, Threads!AlreadyInserted, Touch, Threads!Touch,
      Threads!Goto, Threads!shared, Threads!history,
      Room!Lookup, Room!AlreadyInserted, Room!Touch, Room!Goto, Room!shared, Room!history
<1>9. Threads!NothingAccrued(t) => Room!NothingAccrued(t)
  BY <1>4, SameAccrued
  DEF Threads!NothingAccrued, Threads!Goto, Threads!shared, Threads!history,
      Room!NothingAccrued, Room!Goto, Room!shared, Room!history
<1> QED
  BY <1>5, <1>6, <1>7, <1>8, <1>9
  DEF Room!Calling, Room!Running, Room!FindBucket, Room!TryConsume, Room!Claiming

\* The clock's step.
LEMMA TickMirrored == MirrorInv /\ Threads!Tick => Room!Tick
<1> SUFFICES ASSUME MirrorInv, Threads!Tick PROVE Room!Tick
  OBVIOUS
<1>1. room' = room /\ room_loaded' = room_loaded
  BY RoomStays DEF Threads!Tick, Threads!shared
<1> QED BY <1>1 DEF Threads!Tick, Threads!shared, Threads!history,
                    Room!Tick, Room!shared, Room!history

\* An empty bucket has all its room.
LEMMA InsertMirrored ==
    ASSUME MirrorInv, NEW t \in Thread, Insert(t)
    PROVE  Room!Insert(t)
<1>1. PICK r \in Threads!Free :
          /\ shards' = [shards EXCEPT ![call[t].key] = r]
          /\ tokens' = [tokens EXCEPT ![r] = 0]
          /\ last_refill' = [last_refill EXCEPT ![r] = call[t].now]
          /\ last_access' = [last_access EXCEPT ![r] = call[t].now]
          /\ created' = [created EXCEPT ![r] = call[t].now]
          /\ granted' = [granted EXCEPT ![r] = 0]
          /\ state' = [state EXCEPT ![t] = r]
  BY DEF Insert
<1>2. r \in Room!Free
  BY DEF Threads!Free, Room!Free
<1>3. room' = [room EXCEPT ![r] = Room!scaled_capacity]
  <2>1. r \in Ref
    BY DEF Threads!Free
  <2>2. room' = [room EXCEPT ![r] = scaled_capacity - 0]
    BY <1>1, <2>1, RoomMoves
  <2>3. scaled_capacity - 0 = Room!scaled_capacity
    BY LeakyConstants, SameConstants
  <2> QED BY <2>2, <2>3
<1>4. room_loaded' = room_loaded
  <2>1. pc \in [Thread -> Threads!Steps] /\ pc[t] = "insert" /\ loaded' = loaded
        /\ pc' = [pc EXCEPT ![t] = "touch"]
    BY Shapes DEF Insert, Threads!Goto
  <2>2. \A u \in Thread : pc'[u] = "debit" <=> pc[u] = "debit"
    BY <2>1
  <2> QED BY <2>1, <2>2 DEF room_loaded
<1>5. \E q \in Room!Free :
          /\ shards' = [shards EXCEPT ![call[t].key] = q]
          /\ room' = [room EXCEPT ![q] = Room!scaled_capacity]
          /\ last_refill' = [last_refill EXCEPT ![q] = call[t].now]
          /\ last_access' = [last_access EXCEPT ![q] = call[t].now]
          /\ created' = [created EXCEPT ![q] = call[t].now]
          /\ granted' = [granted EXCEPT ![q] = 0]
          /\ state' = [state EXCEPT ![t] = q]
  BY <1>1, <1>2, <1>3
<1> QED BY <1>4, <1>5 DEF Insert, Threads!Goto, Room!Insert, Room!Goto

\* The steps of apply_leak up to the claim see timestamps only.
LEMMA ClaimingMirrored ==
    ASSUME MirrorInv, NEW t \in Thread,
           Threads!LoadRefill(t) \/ Threads!Claim(t) \/ Threads!ClaimFails(t)
    PROVE  Room!LoadRefill(t) \/ Room!Claim(t) \/ Room!ClaimFails(t)
<1>1. pc \in [Thread -> Threads!Steps]
  BY Shapes
<1>2. room' = room
  BY DEF Threads!LoadRefill, Threads!Claim, Threads!ClaimFails, Threads!shared, room
<1>3. CASE Threads!LoadRefill(t)
  <2>0. /\ loaded' = [loaded EXCEPT ![t] = last_refill[state[t]]]
        /\ pc' = [pc EXCEPT ![t] = "claim"]
    BY <1>3 DEF Threads!LoadRefill, Threads!Goto
  <2>1. room_loaded' = [room_loaded EXCEPT ![t] = last_refill[state[t]]]
    BY <2>0, RoomLoads
  <2>2. Room!LoadRefill(t)
    BY <1>2, <1>3, <2>1, SameAccrued
    DEF Threads!LoadRefill, Threads!Goto, Threads!shared, Threads!history,
        Room!LoadRefill, Room!Goto, Room!shared, Room!history
  <2> QED BY <2>2
<1>4. CASE Threads!Claim(t)
  <2>1. /\ pc[t] = "claim" /\ UNCHANGED <<tokens, loaded>>
        /\ pc' = [pc EXCEPT ![t] = "credit"]
    BY <1>4 DEF Threads!Claim, Threads!Goto
  <2>2. \A u \in Thread : pc'[u] = "debit" <=> pc[u] = "debit"
    BY <1>1, <2>1
  <2>3. room_loaded' = room_loaded
    BY <2>1, <2>2, RoomStays
  <2>4. room_loaded[t] = loaded[t] /\ Room!claimed(t) = Threads!claimed(t)
    BY <2>1, SameAccrued
  <2>5. Room!Claim(t)
    BY <1>2, <1>4, <2>3, <2>4
    DEF Threads!Claim, Threads!Goto, Threads!history, Threads!saturating_add, Threads!MinOf,
        Room!Claim, Room!Goto, Room!history, Room!saturating_add, Room!MinOf
  <2> QED BY <2>5
<1>5. CASE Threads!ClaimFails(t)
  <2>0. loaded' = [loaded EXCEPT ![t] = 0] /\ pc' = [pc EXCEPT ![t] = "load_refill"]
    BY <1>5 DEF Threads!ClaimFails, Threads!Goto
  <2>1. room_loaded' = [room_loaded EXCEPT ![t] = 0]
    BY <2>0, RoomLoads
  <2>2. Room!ClaimFails(t)
    BY <1>2, <1>5, <2>1
    DEF Threads!ClaimFails, Threads!Goto, Threads!shared, Threads!history,
        Room!ClaimFails, Room!Goto, Room!shared, Room!history
  <2> QED BY <2>2
<1> QED BY <1>3, <1>4, <1>5

\* What leaks out makes room, up to the capacity.
LEMMA LeakMirrored ==
    ASSUME MirrorInv, NEW t \in Thread, Leak(t)
    PROVE  Room!Credit(t)
<1> DEFINE r == state[t]
           a == Threads!added(t)
<1>1. pc[t] = "credit" /\ r \in Ref /\ tokens' = [tokens EXCEPT ![r] = saturating_sub(@, a)]
  BY Shapes DEF Leak, Threads!Consuming
<1>2. room_loaded' = [room_loaded EXCEPT ![t] = 0]
  <2>1. loaded' = [loaded EXCEPT ![t] = 0] /\ pc' = [pc EXCEPT ![t] = "load_tokens"]
    BY DEF Leak, Threads!Goto
  <2> QED BY <2>1, RoomLoads
<1>3. Room!added(t) = a /\ a \in Nat
  <2>1. Room!added(t) = a
    BY <1>1, SameAccrued
  <2>2. Facts!added(t) \in Nat
    BY FactsApply, Facts!TypesOfClock, Facts!AccruedTyped DEF MirrorInv, Facts!TypeInv
  <2>3. Facts!added(t) = Room!added(t)
    BY SameConstants
    DEF Room!added, Room!accrued_since, Room!refill_tokens, Room!saturating_sub, Room!MinOf,
        Facts!added, Facts!accrued_since, Facts!refill_tokens, Facts!saturating_sub, Facts!MinOf
  <2> QED BY <2>1, <2>2, <2>3
<1>4. room' = [room EXCEPT ![r] =
                 IF @ >= Room!scaled_capacity
                 THEN @
                 ELSE Room!MinOf(Room!saturating_add(@, Room!added(t)), Room!scaled_capacity)]
  <2> DEFINE C == scaled_capacity
             x == tokens[r]
             New(y) == IF y >= C THEN y ELSE Room!MinOf(Room!saturating_add(y, a), C)
  <2>1. C \in Nat /\ C < U64_MAX /\ U64_MAX \in Nat /\ tokens \in [Ref -> 0..C] /\ x \in 0..C
    BY <1>1, LeakyConstants, MathAssumption DEF MirrorInv, LevelInv
  <2> HIDE DEF C, x, a
  <2>2. C - saturating_sub(x, a) = New(C - x)
    BY <1>3, <2>1 DEF saturating_sub, Room!MinOf, Room!saturating_add
  <2>4. room[r] = C - x /\ tokens' = [tokens EXCEPT ![r] = saturating_sub(x, a)]
    BY <1>1 DEF room, C, x
  <2>5. room' = [room EXCEPT ![r] = C - saturating_sub(x, a)]
    BY <1>1, <2>4, RoomMoves DEF C
  <2>6. Room!scaled_capacity = C
    BY SameConstants DEF C
  <2>7. room' = [room EXCEPT ![r] = New(room[r])]
    BY <2>2, <2>4, <2>5
  <2>8. New(room[r]) =
           IF room[r] >= Room!scaled_capacity
           THEN room[r]
           ELSE Room!MinOf(Room!saturating_add(room[r], Room!added(t)), Room!scaled_capacity)
    BY <1>3, <2>6
  <2> HIDE DEF New
  <2> QED BY <2>7, <2>8
<1> QED BY <1>2, <1>4 DEF Leak, Threads!Goto, Room!Credit, Room!Goto, Room!history

\* A level that a cost fits on is room for it.
LEMMA DecidingMirrored ==
    ASSUME MirrorInv, NEW t \in Thread,
           LoadTokens(t) \/ Deny(t) \/ Pour(t) \/ PourFails(t)
    PROVE  Room!Deciding(t)
<1> DEFINE r == state[t]
<1>1. /\ r \in Ref /\ scaled_capacity \in Nat
      /\ tokens \in [Ref -> 0..scaled_capacity] /\ tokens[r] \in 0..scaled_capacity
      /\ room[r] = scaled_capacity - tokens[r]
      /\ Room!token_cost(t) \in Nat
  <2>1. r \in Ref
    BY Shapes DEF LoadTokens, Deny, Pour, PourFails, Threads!DebitFails, Threads!Consuming
  <2>2. Room!token_cost(t) = token_cost(t)
    BY DEF token_cost, Threads!token_cost, Threads!saturating_mul, Threads!MinOf,
           Room!token_cost, Room!saturating_mul, Room!MinOf
  <2> QED BY <2>1, <2>2, Shapes, LeakyConstants DEF MirrorInv, LevelInv, room
<1>2. new_tokens(t, tokens[r]) <= scaled_capacity <=> room[r] >= Room!token_cost(t)
  BY <1>1, FitsInRoom
<1>3. CASE LoadTokens(t)
  <2>0. /\ loaded' = [loaded EXCEPT ![t] = tokens[r]]
        /\ pc' = [pc EXCEPT ![t] = "debit"]
    BY <1>3 DEF LoadTokens, Threads!Goto
  <2>1. room_loaded' = [room_loaded EXCEPT ![t] = room[r]]
    BY <1>1, <2>0, RoomLoadsLevel
  <2>2. room' = room
    BY <1>3 DEF LoadTokens, shared, room
  <2>3. Room!LoadTokens(t)
    BY <1>2, <1>3, <2>1, <2>2
    DEF LoadTokens, Threads!Goto, shared, Room!LoadTokens, Room!Goto, Room!shared, Room!history
  <2> QED BY <2>3 DEF Room!Deciding
<1>4. CASE Deny(t)
  <2>0. loaded' = [loaded EXCEPT ![t] = 0] /\ pc' = [pc EXCEPT ![t] = "idle"]
    BY <1>4 DEF Deny, Threads!Return, Threads!Goto
  <2>1. room_loaded' = [room_loaded EXCEPT ![t] = 0]
    BY <2>0, RoomLoads
  <2>2. room' = room
    BY <1>4 DEF Deny, shared, room
  <2>3. ~ (new_tokens(t, tokens[r]) <= scaled_capacity)
    <3>1. new_tokens(t, tokens[r]) \in Nat /\ new_tokens(t, tokens[r]) > scaled_capacity
      BY <1>1, <1>4, Shapes, MathAssumption DEF Deny, new_tokens, saturating_add, MinOf
    <3> QED BY <1>1, <3>1
  <2>4. room[r] < Room!token_cost(t)
    BY <1>1, <1>2, <2>3
  <2>5. Room!Deny(t)
    BY <1>4, <2>1, <2>2, <2>4
    DEF Deny, Threads!Return, Threads!Goto, Threads!NoCall, shared,
        Room!Deny, Room!Return, Room!Goto, Room!NoCall, Room!shared, Room!history
  <2> QED BY <2>5 DEF Room!Deciding
<1>5. CASE Pour(t)
  <2>0. loaded' = [loaded EXCEPT ![t] = 0] /\ pc' = [pc EXCEPT ![t] = "idle"]
    BY <1>5 DEF Pour, Threads!Return, Threads!Goto
  <2>1. room_loaded' = [room_loaded EXCEPT ![t] = 0]
    BY <2>0, RoomLoads
  <2>2. /\ pc[t] = "debit" /\ tokens[r] = loaded[t]
        /\ tokens' = [tokens EXCEPT ![r] = new_tokens(t, loaded[t])]
        /\ new_tokens(t, tokens[r]) <= scaled_capacity
    BY <1>5 DEF Pour, MirrorInv, LevelInv
  <2>3. room_loaded[t] = room[r]
    BY <1>1, <2>2 DEF room_loaded
  <2>4. scaled_capacity - new_tokens(t, tokens[r]) = room_loaded[t] - Room!token_cost(t)
    BY <1>1, <2>2, <2>3, FitsInRoom
  <2>5. room' = [room EXCEPT ![r] = room_loaded[t] - Room!token_cost(t)]
    <3>1. room' = [room EXCEPT ![r] = scaled_capacity - new_tokens(t, loaded[t])]
      BY <1>1, <2>2, RoomMoves
    <3> QED BY <2>2, <2>4, <3>1
  <2>6. Room!Debit(t)
    BY <1>5, <2>1, <2>2, <2>3, <2>5
    DEF Pour, Threads!Return, Threads!Goto, Threads!NoCall,
        Room!Debit, Room!Return, Room!Goto, Room!NoCall
  <2> QED BY <2>6 DEF Room!Deciding
<1>6. CASE PourFails(t)
  <2>0. loaded' = [loaded EXCEPT ![t] = 0] /\ pc' = [pc EXCEPT ![t] = "load_tokens"]
    BY <1>6 DEF PourFails, Threads!DebitFails, Threads!Goto
  <2>1. room_loaded' = [room_loaded EXCEPT ![t] = 0]
    BY <2>0, RoomLoads
  <2>2. room' = room
    BY <1>6 DEF PourFails, Threads!DebitFails, Threads!shared, room
  <2>3. Room!DebitFails(t)
    BY <1>6, <2>1, <2>2
    DEF PourFails, Threads!DebitFails, Threads!Goto, Threads!shared, Threads!history,
        Room!DebitFails, Room!Goto, Room!shared, Room!history
  <2> QED BY <2>3 DEF Room!Deciding
<1> QED BY <1>3, <1>4, <1>5, <1>6

\* A level that is poured into or leaks stays a level, and what a thread is about
\* to pour keeps fitting.
LEMMA NextLevelInv ==
    ASSUME MirrorInv, [Next]_vars
    PROVE  LevelInv'
<1>1. /\ tokens \in [Ref -> 0..scaled_capacity] /\ loaded \in [Thread -> Nat]
      /\ pc \in [Thread -> Threads!Steps] /\ scaled_capacity \in Nat
      /\ \A t \in Thread : pc[t] = "debit" => new_tokens(t, loaded[t]) <= scaled_capacity
  BY Shapes, LeakyConstants DEF MirrorInv, LevelInv
<1> DEFINE Covered == \A t \in Thread : pc'[t] = "debit" =>
                         /\ pc[t] = "debit" /\ loaded'[t] = loaded[t] /\ call'[t] = call[t]
<1>2. ASSUME Covered, tokens' \in [Ref -> 0..scaled_capacity], loaded' \in [Thread -> Nat]
      PROVE  LevelInv'
  <2>1. ASSUME NEW t \in Thread, pc'[t] = "debit"
        PROVE  new_tokens(t, loaded[t])' <= scaled_capacity
    BY <1>1, <1>2, <2>1 DEF new_tokens, token_cost, Threads!token_cost
  <2> QED BY <1>2, <2>1 DEF LevelInv
<1>0. ASSUME NEW t \in Thread, NEW step, step # "debit", pc' = [pc EXCEPT ![t] = step],
             \A u \in Thread \ {t} : loaded'[u] = loaded[u] /\ call'[u] = call[u]
      PROVE  Covered
  BY <1>0, <1>1
<1> HIDE DEF Covered
<1> USE DEF shared, Threads!shared, Threads!Goto, Threads!Return
<1>3. CASE UNCHANGED vars \/ Threads!Tick
  BY <1>1, <1>2, <1>3 DEF vars, Threads!Tick, Covered
<1>4. ASSUME NEW t \in Thread, Check(t) \/ CheckAndSweep(t) PROVE LevelInv'
  <2>1. PICK k \in Key, c \in Cost, step \in {"lookup", "sweep"} : Threads!Begin(t, k, c, step)
    BY <1>4 DEF Check, CheckAndSweep, Threads!Check, Threads!CheckAndSweep
  <2>2. Covered
    <3>1. /\ pc' = [pc EXCEPT ![t] = step] /\ loaded' = loaded
          /\ call' = [call EXCEPT ![t] = [key |-> k, cost |-> c, now |-> clock]]
      BY <2>1 DEF Threads!Begin
    <3> QED BY <1>0, <3>1, Shapes
  <2> QED BY <1>1, <1>2, <2>1, <2>2 DEF Threads!Begin
<1>5. ASSUME NEW t \in Thread, CleanupIdle(t) PROVE LevelInv'
  BY <1>1, <1>2, <1>5
  DEF Covered, CleanupIdle, Threads!CleanupIdle, Threads!ScanEntry, Threads!RemoveExpired,
      Threads!NextShard
<1>6. ASSUME NEW t \in Thread, Lookup(t) \/ AlreadyInserted(t) \/ Touch(t) PROVE LevelInv'
  <2>1. /\ tokens' = tokens /\ loaded' = loaded /\ call' = call
        /\ \/ pc' = [pc EXCEPT ![t] =
                         IF shards[call[t].key] = NoRef THEN "insert" ELSE "touch"]
           \/ pc' = [pc EXCEPT ![t] = "touch"]
           \/ pc' = [pc EXCEPT ![t] = "load_refill"]
    BY <1>6
    DEF Lookup, AlreadyInserted, Touch, Threads!Lookup, Threads!AlreadyInserted, Threads!Touch
  <2>2. PICK step \in {"insert", "touch", "load_refill"} : pc' = [pc EXCEPT ![t] = step]
    BY <2>1
  <2>3. Covered
    BY <1>0, <2>1, <2>2
  <2> QED BY <1>1, <1>2, <2>1, <2>3
<1>7. ASSUME NEW t \in Thread, Insert(t) PROVE LevelInv'
  <2>1. tokens' \in [Ref -> 0..scaled_capacity]
    <3>1. \E r \in Ref : tokens' = [tokens EXCEPT ![r] = 0]
      BY <1>7 DEF Insert, Threads!Free
    <3> QED BY <1>1, <3>1
  <2>2. Covered
    <3>1. pc' = [pc EXCEPT ![t] = "touch"] /\ loaded' = loaded /\ call' = call
      BY <1>7 DEF Insert
    <3> QED BY <1>0, <3>1
  <2> QED BY <1>1, <1>2, <1>7, <2>1, <2>2 DEF Insert
<1>8. ASSUME NEW t \in Thread, Claiming(t) PROVE LevelInv'
  <2>1. last_refill \in [Ref -> Nat] /\ \A u \in Thread : pc[u] \in Threads!Consuming => state[u] \in Ref
    BY Shapes DEF MirrorInv, Facts!TypeInv, Facts!TypeOK
  <2>2. loaded' \in [Thread -> Nat]
    BY <1>1, <1>8, <2>1
    DEF Claiming, Threads!Claiming, Threads!NothingAccrued, Threads!LoadRefill, Threads!Claim,
        Threads!ClaimFails, Threads!Consuming
  <2> QED
    BY <1>1, <1>2, <1>8, <2>2
    DEF Covered, Claiming, Threads!Claiming, Threads!NothingAccrued, Threads!LoadRefill, Threads!Claim,
        Threads!ClaimFails
<1>9. ASSUME NEW t \in Thread, Leak(t) PROVE LevelInv'
  <2>1. Threads!added(t) \in Nat
    <3>1. Facts!added(t) \in Nat
      BY FactsApply, Facts!TypesOfClock, Facts!AccruedTyped DEF MirrorInv, Facts!TypeInv
    <3>2. pc[t] # "debit"
      BY <1>9 DEF Leak
    <3>3. Facts!added(t) = Room!added(t)
      BY SameConstants
      DEF Room!added, Room!accrued_since, Room!refill_tokens, Room!saturating_sub, Room!MinOf,
          Facts!added, Facts!accrued_since, Facts!refill_tokens, Facts!saturating_sub, Facts!MinOf
    <3> QED BY <3>1, <3>2, <3>3, SameAccrued
  <2>2. \A x \in 0..scaled_capacity : saturating_sub(x, Threads!added(t)) \in 0..scaled_capacity
    BY <1>1, <2>1 DEF saturating_sub
  <2>3. tokens' \in [Ref -> 0..scaled_capacity]
    BY <1>1, <1>9, <2>2 DEF Leak
  <2>4. loaded' = [loaded EXCEPT ![t] = 0] /\ call' = call /\ pc' = [pc EXCEPT ![t] = "load_tokens"]
    BY <1>9 DEF Leak
  <2>5. Covered /\ loaded' \in [Thread -> Nat]
    BY <1>0, <1>1, <2>4
  <2> QED BY <1>2, <2>3, <2>5
<1>10. ASSUME NEW t \in Thread, LoadTokens(t) PROVE LevelInv'
  <2>1. state[t] \in Ref /\ tokens[state[t]] \in Nat
    BY <1>1, <1>10, Shapes DEF LoadTokens, Threads!Consuming
  <2>2. /\ loaded' \in [Thread -> Nat] /\ tokens' = tokens
        /\ call' = call
    BY <1>1, <1>10, <2>1 DEF LoadTokens
  <2>3. ASSUME NEW u \in Thread, pc'[u] = "debit"
        PROVE  new_tokens(u, loaded'[u]) <= scaled_capacity
    <3>1. CASE u = t
      BY <1>1, <1>10, <2>3, <3>1 DEF LoadTokens
    <3>2. CASE u # t
      BY <1>1, <1>10, <2>3, <3>2 DEF LoadTokens
    <3> QED BY <3>1, <3>2
  <2>4. \A u \in Thread : new_tokens(u, loaded[u])' = new_tokens(u, loaded'[u])
    BY <2>2 DEF new_tokens, token_cost, Threads!token_cost
  <2> QED BY <1>1, <2>2, <2>3, <2>4 DEF LevelInv
<1>11. ASSUME NEW t \in Thread, Deny(t) \/ PourFails(t) PROVE LevelInv'
  <2>1. /\ tokens' = tokens /\ loaded' = [loaded EXCEPT ![t] = 0]
        /\ call' = call \/ call' = [call EXCEPT ![t] = Threads!NoCall]
        /\ \E step \in {"idle", "load_tokens"} : pc' = [pc EXCEPT ![t] = step]
    BY <1>11 DEF Deny, PourFails, Threads!DebitFails
  <2>2. loaded' \in [Thread -> Nat]
    BY <1>1, <2>1
  <2>3. PICK step \in {"idle", "load_tokens"} : pc' = [pc EXCEPT ![t] = step]
    BY <2>1
  <2>4. \A u \in Thread \ {t} : loaded'[u] = loaded[u] /\ call'[u] = call[u]
    BY <1>1, <2>1, Shapes
  <2>5. Covered
    BY <1>0, <2>3, <2>4
  <2> QED BY <1>1, <1>2, <2>1, <2>2, <2>5
<1>12. ASSUME NEW t \in Thread, Pour(t) PROVE LevelInv'
  <2>1. /\ tokens[state[t]] = loaded[t] /\ state[t] \in Ref
        /\ new_tokens(t, loaded[t]) <= scaled_capacity
        /\ loaded[t] \in 0..scaled_capacity
    BY <1>1, <1>12, Shapes DEF Pour, Threads!Consuming
  <2>2. new_tokens(t, loaded[t]) \in 0..scaled_capacity
    BY <2>1, FitsInRoom
  <2>3. tokens' \in [Ref -> 0..scaled_capacity]
    BY <1>1, <1>12, <2>2 DEF Pour
  <2>4. /\ loaded' = [loaded EXCEPT ![t] = 0] /\ pc' = [pc EXCEPT ![t] = "idle"]
        /\ call' = [call EXCEPT ![t] = Threads!NoCall]
    BY <1>12 DEF Pour
  <2>5. Covered /\ loaded' \in [Thread -> Nat]
    BY <1>0, <1>1, <2>4, Shapes
  <2> QED BY <1>2, <2>3, <2>5
<1> QED
  BY <1>3, <1>4, <1>5, <1>6, <1>7, <1>8, <1>9, <1>10, <1>11, <1>12 DEF Next, Running

\* Every step of a leaky bucket is the step of a token bucket.
LEMMA NextMirrored ==
    ASSUME MirrorInv, [Next]_vars
    PROVE  [Room!Next]_(Room!vars)
<1>1. CASE UNCHANGED vars
  <2>1. room' = room /\ room_loaded' = room_loaded
    BY <1>1, RoomStays DEF vars, shared
  <2> QED BY <1>1, <2>1 DEF vars, shared, Room!vars, Room!shared, Room!history
<1>2. CASE Threads!Tick
  BY <1>2, TickMirrored DEF Room!Next
<1>3. ASSUME NEW t \in Thread, Check(t) \/ CheckAndSweep(t) \/ Running(t)
      PROVE  Room!Calling(t) \/ Room!Running(t)
  <2>1. CASE \/ Check(t) \/ CheckAndSweep(t) \/ CleanupIdle(t) \/ Lookup(t)
             \/ AlreadyInserted(t) \/ Touch(t) \/ Threads!NothingAccrued(t)
    BY <2>1, QuietSteps
  <2>2. CASE Insert(t)
    BY <2>2, InsertMirrored DEF Room!Running, Room!FindBucket
  <2>3. CASE Threads!LoadRefill(t) \/ Threads!Claim(t) \/ Threads!ClaimFails(t)
    BY <2>3, ClaimingMirrored DEF Room!Running, Room!TryConsume, Room!Claiming
  <2>4. CASE Leak(t)
    BY <2>4, LeakMirrored DEF Room!Running, Room!TryConsume
  <2>5. CASE LoadTokens(t) \/ Deny(t) \/ Pour(t) \/ PourFails(t)
    BY <2>5, DecidingMirrored DEF Room!Running, Room!TryConsume
  <2> QED BY <1>3, <2>1, <2>2, <2>3, <2>4, <2>5 DEF Running, Claiming, Threads!Claiming
<1> QED BY <1>1, <1>2, <1>3 DEF Next, Room!Next

\* An empty map is one of either kind.
LEMMA InitMirrored ==
    ASSUME Init
    PROVE  MirrorInv /\ Facts!Timeline /\ Facts!NoDoubleCredit /\ Facts!Ledger /\ Facts!CaughtUp
<1>1. /\ clock = 0 /\ shards = [k \in Key |-> NoRef]
      /\ tokens = [r \in Ref |-> 0] /\ last_refill = [r \in Ref |-> 0]
      /\ last_access = [r \in Ref |-> 0] /\ pc = [t \in Thread |-> "idle"]
      /\ call = [t \in Thread |-> Threads!NoCall] /\ state = [t \in Thread |-> NoRef]
      /\ loaded = [t \in Thread |-> 0] /\ sweep = [t \in Thread |-> Threads!NoSweep]
      /\ created = [r \in Ref |-> 0] /\ granted = [r \in Ref |-> 0]
  BY DEF Init, Threads!Init
<1>2. scaled_capacity \in Nat /\ rate_scaled \in Nat /\ NANOS_PER_SEC \in Nat
  BY LeakyConstants, MathAssumption
<1>3. Threads!NoCall \in [key : Key, cost : Cost \cup {0}, now : Nat] /\ Threads!NoCall.now = 0
  BY LeakyAssumption DEF Threads!NoCall
<1>4. Threads!NoSweep \in [shard : 0..0, unseen : SUBSET Key, keys_to_remove : SUBSET Key]
  BY DEF Threads!NoSweep
<1>5. 0 \in 0..MaxTime
  BY LeakyAssumption, MathAssumption DEF u64
<1>6. room \in [Ref -> Nat] /\ (\A r \in Ref : room[r] = scaled_capacity)
      /\ room_loaded \in [Thread -> Nat]
  BY <1>1, <1>2 DEF room, room_loaded
<1>7. Facts!TypeOK
  BY <1>1, <1>3, <1>4, <1>5, <1>6, LeakyAssumption
  DEF Facts!TypeOK, Facts!Steps, Facts!Consuming, Facts!SweepState
<1>8. Facts!DebitCovered /\ LevelInv
  BY <1>1, <1>2 DEF Facts!DebitCovered, LevelInv
<1>9. Facts!Timeline /\ Facts!NoDoubleCredit /\ Facts!CaughtUp
  BY <1>1, <1>3 DEF Facts!Timeline, Facts!NoDoubleCredit, Facts!CaughtUp
<1>10. ASSUME NEW r \in Ref PROVE Facts!Cardinality(Facts!Outstanding(r)) = 0
  <2>1. Facts!Outstanding(r) = {}
    BY <1>1 DEF Facts!Outstanding, Facts!Crediting
  <2> QED BY <2>1, SameSizes, FS_EmptySet
<1>11. Facts!Ledger
  <2>1. NANOS_PER_SEC * (scaled_capacity + 0) + rate_scaled * 0
          <= NANOS_PER_SEC * scaled_capacity + rate_scaled * (0 - 0)
    BY <1>2
  <2>2. \A r \in Ref : room[r] <= scaled_capacity
    BY <1>2, <1>6
  <2>3. \A r \in Ref : granted[r] = 0 /\ created[r] = 0 /\ last_refill[r] = 0
    BY <1>1
  <2> QED BY <1>6, <1>10, <2>1, <2>2, <2>3, SameConstants DEF Facts!Ledger
<1> QED BY <1>7, <1>8, <1>9, <1>11 DEF MirrorInv, Facts!TypeInv

\* The invariant in every state, and what follows from it at an exact rate.
LEMMA MirrorInvariant == Spec => [](MirrorInv /\ Facts!ClaimInv)
<1>1. Init => MirrorInv /\ Facts!ClaimInv
  BY InitMirrored DEF MirrorInv, Facts!ClaimInv
<1>2. MirrorInv /\ Facts!ClaimInv /\ [Next]_vars => (MirrorInv /\ Facts!ClaimInv)'
  <2> SUFFICES ASSUME MirrorInv, Facts!ClaimInv, [Next]_vars
               PROVE  LevelInv' /\ Facts!ClaimInv'
    BY DEF MirrorInv, Facts!ClaimInv
  <2>1. [Facts!Next]_(Facts!vars)
    BY NextMirrored, SameNext
  <2> QED BY <2>1, NextLevelInv, FactsApply, Facts!NextClaimInv
<1> QED BY <1>1, <1>2, PTL DEF Spec

-----------------------------------------------------------------------------
(***************************************************************************)
(* Theorems                                                                *)
(***************************************************************************)

\* Every step of any thread on a leaky bucket is the step of a thread on a token
\* bucket of the same capacity and rate, with room for tokens: the algorithms
\* admit the same calls at the same times.
THEOREM LeakyIsTokenBucket == Spec => IsTokenBucketUpsideDown
<1>1. MirrorInv /\ [Next]_vars => [Room!Next]_(Room!vars)
  BY NextMirrored
<1> QED BY <1>1, MirrorInvariant, PTL DEF Spec, IsTokenBucketUpsideDown

\* The types of a leaky bucket are those of the mirror, but for its levels.
THEOREM TypeCorrect == Spec => []TypeOK
<1>1. MirrorInv => TypeOK
  <2> SUFFICES ASSUME MirrorInv PROVE TypeOK
    OBVIOUS
  <2>1. Facts!TypeOK /\ LevelInv
    BY DEF MirrorInv, Facts!TypeInv
  <2>2. tokens \in [Ref -> Nat] /\ \A r \in Ref : tokens[r] <= scaled_capacity
    BY <2>1, LeakyConstants DEF LevelInv
  <2> QED
    BY <2>1, <2>2
    DEF TypeOK, LevelInv, Facts!TypeOK, Facts!Steps, Facts!Consuming, Facts!SweepState,
        Threads!TypeOK, Threads!Steps, Threads!Consuming, Threads!SweepState
<1> QED BY <1>1, MirrorInvariant, PTL

\* A claimed scaled unit is worth a whole number of nanoseconds, in the mirror too.
LEMMA ExactInMirror == Exact(rate_scaled) => Facts!ExactRate
  BY SameConstants DEF Exact, Facts!ExactRate

\* What threads have claimed and not drained is what they have claimed of the room.
LEMMA SameOutstanding ==
    ASSUME NEW r \in Ref
    PROVE  Threads!Outstanding(r) = Facts!Outstanding(r)
<1>1. Threads!Crediting(r) = Facts!Crediting(r)
  BY DEF Threads!Crediting, Facts!Crediting
<1>2. ASSUME NEW t \in Threads!Crediting(r) PROVE Threads!Interval(t) = Facts!Interval(t)
  <2>1. t \in Thread /\ pc[t] # "debit"
    BY <1>2 DEF Threads!Crediting
  <2>2. room_loaded[t] = loaded[t] /\ Room!claimed(t) = Threads!claimed(t)
    BY <2>1, SameAccrued
  <2>3. Facts!claimed(t) = Room!claimed(t)
    BY SameConstants
    DEF Room!claimed, Room!nanos_for_tokens, Room!added, Room!accrued_since,
        Room!refill_tokens, Room!saturating_sub, Room!MinOf,
        Facts!claimed, Facts!nanos_for_tokens, Facts!added, Facts!accrued_since,
        Facts!refill_tokens, Facts!saturating_sub, Facts!MinOf
  <2> QED BY <2>2, <2>3 DEF Threads!Interval, Facts!Interval
<1> QED BY <1>1, <1>2 DEF Threads!Outstanding, Facts!Outstanding

\* The ledger of the room, in every state.
LEMMA MirrorLedger == ASSUME Exact(rate_scaled) PROVE Spec => [](MirrorInv /\ Facts!LedgerInv)
<1>1. Init => Facts!LedgerInv
  BY InitMirrored DEF MirrorInv, Facts!ClaimInv, Facts!LedgerInv
<1>2. MirrorInv /\ Facts!LedgerInv /\ [Next]_vars => Facts!LedgerInv'
  <2> SUFFICES ASSUME MirrorInv, Facts!LedgerInv, [Next]_vars PROVE Facts!LedgerInv'
    OBVIOUS
  <2>1. [Facts!Next]_(Facts!vars)
    BY NextMirrored, SameNext
  <2>2. Facts!ClaimInv'
    BY <2>1, FactsApply, Facts!NextClaimInv DEF Facts!LedgerInv
  <2>3. Facts!Ledger'
    BY <2>1, ExactInMirror, FactsApply, Facts!NextLedger
  <2> QED BY <2>2, <2>3 DEF Facts!LedgerInv
<1> QED BY <1>1, <1>2, MirrorInvariant, PTL DEF Spec

\* At an exact rate a bucket never drains faster than its leak rate: what has
\* been poured in and is gone, and what threads have claimed and are about to
\* drain, is within what leaks in the time that has been claimed once.
THEOREM DrainsAtTheRate == ASSUME Exact(rate_scaled) PROVE Spec => []DrainedAtTheRate
<1>1. MirrorInv /\ Facts!LedgerInv => DrainedAtTheRate
  <2> SUFFICES ASSUME MirrorInv, Facts!LedgerInv, NEW r \in Ref
               PROVE  NANOS_PER_SEC * (granted[r] - tokens[r])
                        + rate_scaled * Cardinality(Threads!Outstanding(r))
                      <= rate_scaled * (last_refill[r] - created[r])
    BY DEF DrainedAtTheRate
  <2> DEFINE N == NANOS_PER_SEC
             C == scaled_capacity
             g == granted[r]
             x == tokens[r]
             out == rate_scaled * Cardinality(Threads!Outstanding(r))
             in == rate_scaled * (last_refill[r] - created[r])
  <2>1. N * (room[r] + g) + out <= N * C + in
    BY SameConstants, SameSizes, SameOutstanding DEF Facts!LedgerInv, Facts!Ledger
  <2>2. /\ N \in Nat /\ C \in Nat /\ g \in Nat /\ x \in Nat /\ room[r] = C - x
    BY LeakyConstants, Shapes, MathAssumption DEF MirrorInv, LevelInv, room
  <2>3. out \in Nat /\ in \in Int
    <3>1. Cardinality(Threads!Outstanding(r)) \in Nat
      BY FactsApply, Facts!ClaimInvIsClockInv, Facts!OutstandingFinite, SameSizes, SameOutstanding DEF Facts!LedgerInv
    <3>2. last_refill[r] \in Nat /\ created[r] \in Nat
      BY DEF MirrorInv, Facts!TypeInv, Facts!TypeOK
    <3> QED BY <3>1, <3>2, LeakyConstants
  <2> HIDE DEF N, C, g, x, out, in
  <2>4. N * (room[r] + g) = N * C + N * (g - x)
    BY <2>2
  <2>5. N * (g - x) \in Int /\ N * C \in Int
    BY <2>2
  <2>6. N * (g - x) + out <= in
    BY <2>1, <2>3, <2>4, <2>5
  <2> QED BY <2>6 DEF N, g, x, out, in
<1> QED BY <1>1, MirrorLedger, PTL

\* At an exact rate no call decides on a bucket from which time that it has seen
\* pass is still to leak, whatever fails and whoever else claims.
THEOREM LeaksCatchUp == ASSUME Exact(rate_scaled) PROVE Spec => []LeakCaughtUp
<1>1. Init => Facts!CaughtUp
  BY InitMirrored
<1>2. MirrorInv /\ Facts!ClaimInv /\ Facts!CaughtUp /\ [Next]_vars => Facts!CaughtUp'
  <2> SUFFICES ASSUME MirrorInv, Facts!ClaimInv, Facts!CaughtUp, [Next]_vars
               PROVE  Facts!CaughtUp'
    OBVIOUS
  <2>1. [Facts!Next]_(Facts!vars)
    BY NextMirrored, SameNext
  <2> QED BY <2>1, ExactInMirror, FactsApply, Facts!NextCaughtUp
<1>3. Facts!CaughtUp => LeakCaughtUp
  <2>1. ASSUME NEW t \in Thread, NEW x
        PROVE  Facts!accrued_since(t, x) = Threads!accrued_since(t, x)
    BY SameConstants
    DEF Facts!accrued_since, Facts!refill_tokens, Facts!saturating_sub, Facts!MinOf,
        Threads!accrued_since, Threads!refill_tokens, Threads!saturating_sub, Threads!MinOf
  <2> QED BY <2>1 DEF Facts!CaughtUp, LeakCaughtUp, Threads!RefillCaughtUp
<1> QED BY <1>1, <1>2, <1>3, MirrorInvariant, PTL DEF Spec

\* The leak rate is cut long before its scaled value would be.
LEMMA RateNotCut ==
    ASSUME rate_scaled > 0
    PROVE  rate_scaled = leak_rate_per_second * SCALE /\ leak_rate_per_second # 0
<1>1. leak_rate_per_second \in Nat /\ leak_rate_per_second <= MAX_LEAK_RATE
  BY LeakyAssumption DEF leak_rate_per_second, MinOf
<1>2. leak_rate_per_second * SCALE \in Nat /\ leak_rate_per_second * SCALE <= U64_MAX
  <2>1. leak_rate_per_second * SCALE <= MAX_LEAK_RATE * SCALE
    BY <1>1, MathAssumption, LeakyAssumption, KeepFactor
  <2>2. 2 * (MAX_LEAK_RATE * SCALE) = 2 * SCALE * MAX_LEAK_RATE /\ MAX_LEAK_RATE * SCALE \in Nat
    BY MathAssumption, LeakyAssumption
  <2> QED BY <1>1, <2>1, <2>2, MathAssumption, LeakyAssumption
<1>3. rate_scaled = leak_rate_per_second * SCALE
  BY <1>2 DEF rate_scaled, saturating_mul, MinOf
<1>4. 0 * SCALE = 0
  BY MathAssumption
<1> QED BY <1>3, <1>4

\* At an exact rate a denied caller that sleeps its retry_after finds room for
\* its cost, whatever the level it was denied at.
THEOREM RetriesFindRoom == ASSUME Exact(rate_scaled) PROVE Spec => []RetryAfterSuffices
<1>1. MirrorInv => RetryAfterSuffices
  <2> SUFFICES ASSUME MirrorInv, NEW r \in Ref, NEW c \in Cost \ {0}
               PROVE  LET remaining == (scaled_capacity - tokens[r]) \div SCALE
                          wait      == leaky_decision(FALSE, remaining, c).retry_after
                      IN  rate_scaled > 0 /\ c <= capacity =>
                            saturating_sub(tokens[r], refill_tokens(wait, rate_scaled))
                               + c * SCALE <= scaled_capacity
    BY DEF RetryAfterSuffices
  <2>1. \A remaining : leaky_decision(FALSE, remaining, c).retry_after =
                          wait_for_tokens(c, leak_rate_per_second)
    BY DEF leaky_decision
  <2> SUFFICES ASSUME rate_scaled > 0, c <= capacity
               PROVE  saturating_sub(tokens[r],
                         refill_tokens(wait_for_tokens(c, leak_rate_per_second), rate_scaled))
                        + c * SCALE <= scaled_capacity
    BY <2>1
  <2> DEFINE w == wait_for_tokens(c, leak_rate_per_second)
             f == refill_tokens(w, rate_scaled)
             x == tokens[r]
             C == scaled_capacity
  <2>2. /\ c \in Nat /\ SCALE \in Nat \ {0} /\ C \in Nat /\ x \in Nat /\ x <= C
        /\ C < U64_MAX /\ U64_MAX \in Nat /\ capacity \in Nat
        /\ leak_rate_per_second \in Nat /\ rate_scaled \in Nat
    BY LeakyConstants, LeakyAssumption, MathAssumption
    DEF MirrorInv, LevelInv, u64, capacity, leak_rate_per_second, MinOf
  <2>3. C = capacity * SCALE /\ c * SCALE \in Nat /\ c * SCALE <= C
    <3>1. capacity * SCALE \in Nat /\ c * SCALE \in Nat
      BY <2>2
    <3>2. C = capacity * SCALE
      BY <2>2, <3>1 DEF scaled_capacity, saturating_mul, MinOf
    <3> QED BY <2>2, <3>1, <3>2, KeepFactor
  <2>4. rate_scaled = leak_rate_per_second * SCALE /\ leak_rate_per_second # 0
    BY RateNotCut
  <2>5. w \in Nat /\ c * SCALE <= f
    <3>1. w \in Nat
      BY <2>2, <2>4, WaitBounds
    <3>2. c * SCALE <= U64_MAX
      BY <2>2, <2>3
    <3>3. Exact(leak_rate_per_second * SCALE)
      BY <2>4
    <3>4. c * SCALE <= refill_tokens(w, leak_rate_per_second * SCALE)
      BY <2>2, <2>4, <3>2, <3>3, WaitIsRight
    <3> QED BY <2>4, <3>1, <3>4
  <2>6. f \in Nat
    BY <2>2, <2>5, ClaimedWithinElapsed
  <2> HIDE DEF w, f, x, C
  <2>7. saturating_sub(x, f) + c * SCALE <= C
    BY <2>2, <2>3, <2>5, <2>6 DEF saturating_sub
  <2> QED BY <2>7 DEF w, f, x, C
<1> QED BY <1>1, MirrorInvariant, PTL
=============================================================================
