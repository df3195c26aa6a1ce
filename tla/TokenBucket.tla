---------------------------- MODULE TokenBucket ----------------------------
(***************************************************************************)
(* TokenBucket (src/algorithm/token_bucket.rs): threads that call          *)
(* check_impl on one bucket map, with no lock between them.  Every action  *)
(* is one access to memory the threads share (an atomic load, store or     *)
(* compare-and-swap, a lookup, insertion or removal in the concurrent map) *)
(* with the local computation that follows it, so every interleaving the   *)
(* program has is a behaviour here.                                        *)
(*                                                                         *)
(* A Ref is one AtomicTokenState allocation.  A thread may hold one that   *)
(* the map no longer has; it is reused only when nobody can reach it       *)
(* (Arc and flurry's guard).                                               *)
(*                                                                         *)
(* created and granted are history variables: no action reads them.        *)
(***************************************************************************)
EXTENDS RefillMath, FiniteSets

CONSTANTS
    Key, Thread, Ref, NoRef,
    burst,            \* the capacity given to new(), in tokens
    rate,             \* the refill rate given to new(), in tokens per second
    MAX_BURST, MAX_RATE_PER_SEC,
    idle_ttl, NoTTL,  \* the TTL in nanoseconds, or NoTTL for None
    NUM_SHARDS,
    get_shard_index,  \* [Key -> shard]; the hash of the source, any map here
    Cost,             \* the costs callers ask for
    MaxTime           \* the clock stops here

ASSUME BucketAssumption ==
    /\ Key # {}
    /\ burst \in Nat /\ rate \in Nat
    /\ MAX_BURST \in Nat /\ MAX_RATE_PER_SEC \in Nat
    /\ 2 * SCALE * MAX_BURST <= U64_MAX
    /\ NoRef \notin Ref
    /\ NoTTL \notin Nat /\ idle_ttl \in Nat \cup {NoTTL}
    /\ NUM_SHARDS \in Nat \ {0}
    /\ get_shard_index \in [Key -> 0 .. NUM_SHARDS - 1]
    /\ Cost \subseteq u64
    /\ MaxTime \in u64

VARIABLES
    clock,            \* nanoseconds since reference_instant
    shards,           \* Key -> the Ref its shard maps it to, or NoRef
    tokens,           \* Ref -> scaled tokens
    last_refill,      \* Ref -> nanoseconds
    last_access,      \* Ref -> nanoseconds
    pc,               \* Thread -> the step it is at
    call,             \* Thread -> the arguments of its call, and `now'
    state,            \* Thread -> the Ref its guard protects, or NoRef
    loaded,           \* Thread -> what its last atomic load returned
    sweep,            \* Thread -> progress of its cleanup_idle
    created,          \* history: Ref -> last_refill when it was inserted
    granted           \* history: Ref -> scaled tokens it has let through

shared  == <<shards, tokens, last_refill, last_access>>
history == <<created, granted>>
vars == <<clock, shared, pc, call, state, loaded, sweep, history>>

-----------------------------------------------------------------------------

capacity               == MinOf(burst, MAX_BURST)
refill_rate_per_second == MinOf(rate, MAX_RATE_PER_SEC)

scaled_capacity == saturating_mul(capacity, SCALE)
rate_scaled     == saturating_mul(refill_rate_per_second, SCALE)
token_cost(t)   == saturating_mul(call[t].cost, SCALE)

\* A scaled token is worth a whole number of nanoseconds (or nothing accrues).
ExactRate == rate_scaled = 0 \/ NANOS_PER_SEC % rate_scaled = 0

NoCall  == [key |-> CHOOSE k \in Key : TRUE, cost |-> 0, now |-> 0]
NoSweep == [shard |-> 0, unseen |-> {}, keys_to_remove |-> {}]

\* The steps at which a thread works on the bucket it holds.
Consuming == {"touch", "load_refill", "claim", "credit", "load_tokens", "debit"}
Steps == {"idle", "sweep", "lookup", "insert"} \cup Consuming

KeysOfShard(i) == {k \in Key : get_shard_index[k] = i}

\* Mutant: the guards are forgotten, a bucket is freed once the map drops it.
FreeOnceUnmapped == Ref \ {shards[k] : k \in Key}

\* The allocations nobody can reach.
Free == Ref \ ({shards[k] : k \in Key} \cup {state[t] : t \in Thread})

\* What apply_refill computes from a timestamp, and from the one it loaded.
accrued_since(t, last) ==
    refill_tokens(saturating_sub(call[t].now, last), rate_scaled)

added(t)   == accrued_since(t, loaded[t])
claimed(t) == nanos_for_tokens(added(t), rate_scaled)

Init ==
    /\ clock = 0
    /\ shards = [k \in Key |-> NoRef]
    /\ tokens = [r \in Ref |-> 0]
    /\ last_refill = [r \in Ref |-> 0]
    /\ last_access = [r \in Ref |-> 0]
    /\ pc = [t \in Thread |-> "idle"]
    /\ call = [t \in Thread |-> NoCall]
    /\ state = [t \in Thread |-> NoRef]
    /\ loaded = [t \in Thread |-> 0]
    /\ sweep = [t \in Thread |-> NoSweep]
    /\ created = [r \in Ref |-> 0]
    /\ granted = [r \in Ref |-> 0]

-----------------------------------------------------------------------------
(***************************************************************************)
(* check_impl                                                              *)
(***************************************************************************)

Goto(t, step) == pc' = [pc EXCEPT ![t] = step]

\* check_impl returns: its locals are gone.
Return(t) ==
    /\ Goto(t, "idle")
    /\ call' = [call EXCEPT ![t] = NoCall]
    /\ state' = [state EXCEPT ![t] = NoRef]
    /\ loaded' = [loaded EXCEPT ![t] = 0]
    /\ UNCHANGED sweep

Tick ==
    /\ clock < MaxTime
    /\ clock' = clock + 1
    /\ UNCHANGED <<shared, pc, call, state, loaded, sweep, history>>

\* A call reads the clock once.  A call of cost 0 returns zero_cost_decision
\* before it touches anything.
Begin(t, k, c, step) ==
    /\ pc[t] = "idle"
    /\ c # 0
    /\ call' = [call EXCEPT ![t] = [key |-> k, cost |-> c, now |-> clock]]
    /\ Goto(t, step)
    /\ UNCHANGED <<clock, shared, state, loaded, history>>

Check(t) == \E k \in Key, c \in Cost : Begin(t, k, c, "lookup") /\ UNCHANGED sweep

\* The calls whose coin falls on should_cleanup: they sweep first.
CheckAndSweep(t) ==
    /\ idle_ttl # NoTTL
    /\ \E k \in Key, c \in Cost : Begin(t, k, c, "sweep")
    /\ sweep' = [sweep EXCEPT ![t] = [NoSweep EXCEPT !.unseen = KeysOfShard(0)]]

-----------------------------------------------------------------------------
(***************************************************************************)
(* cleanup_idle: shard after shard, collect the expired keys, then remove  *)
(* them by key.                                                            *)
(***************************************************************************)

\* Mutant: one nanosecond early.
IsExpiredEarly(t, k) ==
    /\ shards[k] # NoRef
    /\ saturating_sub(call[t].now, last_access[shards[k]]) + 1 >= idle_ttl

IsExpired(t, k) ==
    /\ shards[k] # NoRef
    /\ saturating_sub(call[t].now, last_access[shards[k]]) >= idle_ttl

\* The iterator visits each key of the shard once, in any order, and sees what
\* the map holds for it at that moment.
ScanEntry(t) ==
    /\ pc[t] = "sweep"
    /\ \E k \in sweep[t].unseen :
          sweep' = [sweep EXCEPT
                      ![t].unseen = @ \ {k},
                      ![t].keys_to_remove = IF IsExpired(t, k) THEN @ \cup {k} ELSE @]
    /\ UNCHANGED <<clock, shared, pc, call, state, loaded, history>>

RemoveExpired(t) ==
    /\ pc[t] = "sweep"
    /\ sweep[t].unseen = {}
    /\ \E k \in sweep[t].keys_to_remove :
          /\ shards' = [shards EXCEPT ![k] = NoRef]
          /\ sweep' = [sweep EXCEPT ![t].keys_to_remove = @ \ {k}]
    /\ UNCHANGED <<clock, tokens, last_refill, last_access, pc, call, state,
                   loaded, history>>

\* Mutant: the last shard is never swept.
NextShardButLast(t) ==
    /\ pc[t] = "sweep"
    /\ sweep[t].unseen = {} /\ sweep[t].keys_to_remove = {}
    /\ LET next == sweep[t].shard + 1 IN
       IF next < NUM_SHARDS - 1
       THEN /\ sweep' = [sweep EXCEPT ![t].shard = next,
                                      ![t].unseen = KeysOfShard(next)]
            /\ UNCHANGED pc
       ELSE /\ sweep' = [sweep EXCEPT ![t] = NoSweep]
            /\ Goto(t, "lookup")
    /\ UNCHANGED <<clock, shared, call, state, loaded, history>>

NextShard(t) ==
    /\ pc[t] = "sweep"
    /\ sweep[t].unseen = {} /\ sweep[t].keys_to_remove = {}
    /\ LET next == sweep[t].shard + 1 IN
       IF next < NUM_SHARDS
       THEN /\ sweep' = [sweep EXCEPT ![t].shard = next,
                                      ![t].unseen = KeysOfShard(next)]
            /\ UNCHANGED pc
       ELSE /\ sweep' = [sweep EXCEPT ![t] = NoSweep]
            /\ Goto(t, "lookup")
    /\ UNCHANGED <<clock, shared, call, state, loaded, history>>

-----------------------------------------------------------------------------
(***************************************************************************)
(* Finding the bucket                                                      *)
(***************************************************************************)

Lookup(t) ==
    /\ pc[t] = "lookup"
    /\ state' = [state EXCEPT ![t] = shards[call[t].key]]
    /\ Goto(t, IF shards[call[t].key] = NoRef THEN "insert" ELSE "touch")
    /\ UNCHANGED <<clock, shared, call, loaded, sweep, history>>

\* try_insert wins: the new bucket is full, and dated by this call's `now'.
Insert(t) ==
    /\ pc[t] = "insert"
    /\ shards[call[t].key] = NoRef
    /\ \E r \in Free :
          /\ shards' = [shards EXCEPT ![call[t].key] = r]
          /\ tokens' = [tokens EXCEPT ![r] = scaled_capacity]
          /\ last_refill' = [last_refill EXCEPT ![r] = call[t].now]
          /\ last_access' = [last_access EXCEPT ![r] = call[t].now]
          /\ created' = [created EXCEPT ![r] = call[t].now]
          /\ granted' = [granted EXCEPT ![r] = 0]
          /\ state' = [state EXCEPT ![t] = r]
    /\ Goto(t, "touch")
    /\ UNCHANGED <<clock, call, loaded, sweep>>

\* Mutant: the loser of the insertion keeps the bucket it made.
OwnBucketKept(t) ==
    /\ pc[t] = "insert"
    /\ shards[call[t].key] # NoRef
    /\ \E r \in Free : state' = [state EXCEPT ![t] = r]
    /\ Goto(t, "touch")
    /\ UNCHANGED <<clock, shared, call, loaded, sweep, history>>

\* try_insert loses: not_inserted.current is used instead.
AlreadyInserted(t) ==
    /\ pc[t] = "insert"
    /\ shards[call[t].key] # NoRef
    /\ state' = [state EXCEPT ![t] = shards[call[t].key]]
    /\ Goto(t, "touch")
    /\ UNCHANGED <<clock, shared, call, loaded, sweep, history>>

-----------------------------------------------------------------------------
(***************************************************************************)
(* AtomicTokenState::try_consume                                           *)
(***************************************************************************)

\* Mutant: an access leaves last_access alone.
TouchNothing(t) ==
    /\ pc[t] = "touch"
    /\ Goto(t, "load_refill")
    /\ UNCHANGED <<clock, shared, call, state, loaded, sweep, history>>

Touch(t) ==
    /\ pc[t] = "touch"
    /\ last_access' = [last_access EXCEPT ![state[t]] = call[t].now]
    /\ Goto(t, "load_refill")
    /\ UNCHANGED <<clock, shards, tokens, last_refill, call, state, loaded,
                   sweep, history>>

\* apply_refill loads the timestamp, and returns at once if nothing has accrued.
NothingAccrued(t) ==
    /\ pc[t] = "load_refill"
    /\ accrued_since(t, last_refill[state[t]]) = 0
    /\ Goto(t, "load_tokens")
    /\ UNCHANGED <<clock, shared, call, state, loaded, sweep, history>>

LoadRefill(t) ==
    /\ pc[t] = "load_refill"
    /\ accrued_since(t, last_refill[state[t]]) > 0
    /\ loaded' = [loaded EXCEPT ![t] = last_refill[state[t]]]
    /\ Goto(t, "claim")
    /\ UNCHANGED <<clock, shared, call, state, sweep, history>>

\* Mutant: a store for the compare-and-swap.
ClaimByStore(t) ==
    /\ pc[t] = "claim"
    /\ last_refill' = [last_refill EXCEPT
                         ![state[t]] = saturating_add(loaded[t], claimed(t))]
    /\ Goto(t, "credit")
    /\ UNCHANGED <<clock, shards, tokens, last_access, call, state, loaded,
                   sweep, history>>

\* The compare-and-swap that claims the interval just after `loaded'.
Claim(t) ==
    /\ pc[t] = "claim"
    /\ last_refill[state[t]] = loaded[t]
    /\ last_refill' = [last_refill EXCEPT
                         ![state[t]] = saturating_add(loaded[t], claimed(t))]
    /\ Goto(t, "credit")
    /\ UNCHANGED <<clock, shards, tokens, last_access, call, state, loaded,
                   sweep, history>>

\* Mutants: a failed claim is given up, or tried again with the same timestamp.
ClaimGivenUp(t) ==
    /\ pc[t] = "claim"
    /\ loaded' = [loaded EXCEPT ![t] = 0]
    /\ Goto(t, "load_tokens")
    /\ UNCHANGED <<clock, shared, call, state, sweep, history>>

ClaimNotReloaded(t) == pc[t] = "claim" /\ UNCHANGED vars

\* It fails: another thread has moved the timestamp, or spuriously (the weak
\* compare-and-swap may fail on a value that matches).
ClaimFails(t) ==
    /\ pc[t] = "claim"
    /\ loaded' = [loaded EXCEPT ![t] = 0]
    /\ Goto(t, "load_refill")
    /\ UNCHANGED <<clock, shared, call, state, sweep, history>>

\* Mutant: a credit above the capacity.
CreditUncapped(t) ==
    /\ pc[t] = "credit"
    /\ tokens' = [tokens EXCEPT ![state[t]] = saturating_add(@, added(t))]
    /\ loaded' = [loaded EXCEPT ![t] = 0]
    /\ Goto(t, "load_tokens")
    /\ UNCHANGED <<clock, shards, last_refill, last_access, call, state, sweep,
                   history>>

\* fetch_update: credit what was claimed, up to the capacity.
Credit(t) ==
    /\ pc[t] = "credit"
    /\ tokens' = [tokens EXCEPT ![state[t]] =
                    IF @ >= scaled_capacity
                    THEN @
                    ELSE MinOf(saturating_add(@, added(t)), scaled_capacity)]
    /\ loaded' = [loaded EXCEPT ![t] = 0]
    /\ Goto(t, "load_tokens")
    /\ UNCHANGED <<clock, shards, last_refill, last_access, call, state, sweep,
                   history>>

\* Mutant: the cost is not compared with what is there.
LoadTokensUnchecked(t) ==
    /\ pc[t] = "load_tokens"
    /\ loaded' = [loaded EXCEPT ![t] = tokens[state[t]]]
    /\ Goto(t, "debit")
    /\ UNCHANGED <<clock, shared, call, state, sweep, history>>

LoadTokens(t) ==
    /\ pc[t] = "load_tokens"
    /\ tokens[state[t]] >= token_cost(t)
    /\ loaded' = [loaded EXCEPT ![t] = tokens[state[t]]]
    /\ Goto(t, "debit")
    /\ UNCHANGED <<clock, shared, call, state, sweep, history>>

Deny(t) ==
    /\ pc[t] = "load_tokens"
    /\ tokens[state[t]] < token_cost(t)
    /\ Return(t)
    /\ UNCHANGED <<clock, shared, history>>

\* Mutant: a store for the compare-and-swap.
DebitByStore(t) ==
    /\ pc[t] = "debit"
    /\ tokens' = [tokens EXCEPT ![state[t]] = loaded[t] - token_cost(t)]
    /\ granted' = [granted EXCEPT ![state[t]] = @ + call[t].cost * SCALE]
    /\ Return(t)
    /\ UNCHANGED <<clock, shards, last_refill, last_access, created>>

\* The compare-and-swap that takes the tokens; the call is permitted.  granted
\* counts what the caller asked for, not what token_cost was cut to.
Debit(t) ==
    /\ pc[t] = "debit"
    /\ tokens[state[t]] = loaded[t]
    /\ tokens' = [tokens EXCEPT ![state[t]] = loaded[t] - token_cost(t)]
    /\ granted' = [granted EXCEPT ![state[t]] = @ + call[t].cost * SCALE]
    /\ Return(t)
    /\ UNCHANGED <<clock, shards, last_refill, last_access, created>>

DebitFails(t) ==
    /\ pc[t] = "debit"
    /\ loaded' = [loaded EXCEPT ![t] = 0]
    /\ Goto(t, "load_tokens")
    /\ UNCHANGED <<clock, shared, call, state, sweep, history>>

-----------------------------------------------------------------------------

CleanupIdle(t) == ScanEntry(t) \/ RemoveExpired(t) \/ NextShard(t)

FindBucket(t) == Lookup(t) \/ Insert(t) \/ AlreadyInserted(t)

Claiming(t) == NothingAccrued(t) \/ LoadRefill(t) \/ Claim(t) \/ ClaimFails(t)

Deciding(t) == LoadTokens(t) \/ Deny(t) \/ Debit(t) \/ DebitFails(t)

TryConsume(t) == Touch(t) \/ Claiming(t) \/ Credit(t) \/ Deciding(t)

\* A thread inside check_impl, and a thread that enters it.
Running(t) == CleanupIdle(t) \/ FindBucket(t) \/ TryConsume(t)

Calling(t) == Check(t) \/ CheckAndSweep(t)

Next == Tick \/ \E t \in Thread : Calling(t) \/ Running(t)

Spec == Init /\ [][Next]_vars

(***************************************************************************)
(* A thread inside check_impl keeps running.  A compare-and-swap that      *)
(* finds the value it expects again and again does not fail forever:       *)
(* hardware makes spurious failures rare.  Nothing makes callers call, or  *)
(* the clock run.                                                          *)
(***************************************************************************)
Fairness ==
    \A t \in Thread :
       WF_vars(Running(t)) /\ SF_vars(Claim(t)) /\ SF_vars(Debit(t))

FairSpec == Spec /\ Fairness

\* Calls never cease, and should_cleanup is true on 1 call in 100: some call
\* sweeps again and again.
Busy == Fairness /\ \A t \in Thread : SF_vars(CheckAndSweep(t))

-----------------------------------------------------------------------------
(***************************************************************************)
(* Correctness                                                             *)
(***************************************************************************)

SweepState == [shard : 0 .. NUM_SHARDS - 1,
               unseen : SUBSET Key, keys_to_remove : SUBSET Key]

\* Every variable has its type; a thread holds a bucket exactly while it works
\* on one.
TypeOK ==
    /\ clock \in 0..MaxTime
    /\ shards \in [Key -> Ref \cup {NoRef}]
    /\ tokens \in [Ref -> Nat]
    /\ last_refill \in [Ref -> Nat]
    /\ last_access \in [Ref -> Nat]
    /\ pc \in [Thread -> Steps]
    /\ call \in [Thread -> [key : Key, cost : Cost \cup {0}, now : Nat]]
    /\ state \in [Thread -> Ref \cup {NoRef}]
    /\ loaded \in [Thread -> Nat]
    /\ sweep \in [Thread -> SweepState]
    /\ created \in [Ref -> Nat]
    /\ granted \in [Ref -> Nat]
    /\ \A t \in Thread : state[t] # NoRef <=> pc[t] \in Consuming

\* The nanoseconds thread t has claimed and not yet credited.
Interval(t) == loaded[t] + 1 .. loaded[t] + claimed(t)

Crediting(r) == {t \in Thread : pc[t] = "credit" /\ state[t] = r}

\* All the nanoseconds claimed from r and not yet credited to it.
Outstanding(r) == UNION {Interval(t) : t \in Crediting(r)}

\* Two threads cannot both credit the same nanoseconds (the comment on
\* apply_refill): the intervals that threads have claimed are disjoint, lie
\* after the bucket's creation, and end no later than its timestamp, which
\* never runs ahead of the clock.
NoDoubleCredit ==
    \A t \in Thread : pc[t] = "credit" =>
        /\ Interval(t) \subseteq created[state[t]] + 1 .. last_refill[state[t]]
        /\ last_refill[state[t]] <= clock
        /\ \A u \in Crediting(state[t]) \ {t} : Interval(t) \cap Interval(u) = {}

\* The budget of a bucket at an exact rate: whatever the threads interleave, what
\* it has let through since it was inserted is at most its capacity and what its rate
\* yields in the time since then.
Budget ==
    \A r \in Ref : NANOS_PER_SEC * granted[r] <=
        NANOS_PER_SEC * scaled_capacity + rate_scaled * (clock - created[r])

\* The ledger behind the budget.  Tokens left, tokens gone, and what is claimed
\* and not yet credited never exceed the capacity and what has accrued.
Ledger ==
    \A r \in Ref :
        /\ tokens[r] <= scaled_capacity
        /\ created[r] <= last_refill[r]
        /\ NANOS_PER_SEC * (tokens[r] + granted[r])
              + rate_scaled * Cardinality(Outstanding(r))
           <= NANOS_PER_SEC * scaled_capacity
              + rate_scaled * (last_refill[r] - created[r])

\* "A spurious weak-CAS failure retries rather than leaving the timestamp
\* stale" (apply_refill): no call decides on a bucket from which time that
\* call has seen pass is still unclaimed.
RefillCaughtUp ==
    \A t \in Thread : pc[t] \in {"load_tokens", "debit"} =>
        accrued_since(t, last_refill[state[t]]) = 0

\* Without eviction, calls on one key all work on the one bucket the map holds
\* for it, however their insertions race, and no bucket serves two keys.
OneBucketPerKey ==
    /\ \A j, k \in Key : shards[j] = shards[k] /\ shards[j] # NoRef => j = k
    /\ idle_ttl = NoTTL =>
          \A t \in Thread : state[t] # NoRef => shards[call[t].key] = state[t]

\* With eviction a thread may hold a bucket the map no longer has.  Even then a
\* key is never charged for another: calls on two keys work on two buckets.
KeyIsolation ==
    \A t \in Thread : state[t] # NoRef =>
        /\ \A u \in Thread : state[u] = state[t] => call[u].key = call[t].key
        /\ \A k \in Key : shards[k] = state[t] => k = call[t].key

\* A bucket's timestamp never moves back, not even for a thread whose `now' is
\* old, until the bucket is freed and its memory used for a new one.
TimestampNeverMovesBack ==
    [][\A r \in Ref : last_refill'[r] < last_refill[r] => r \in Free]_vars

\* "Keys that haven't been accessed for this duration will be removed"
\* (idle_ttl): a bucket is evicted only when its last access is idle_ttl old.
EvictedWasIdle ==
    [][\A k \in Key : shards[k] # NoRef /\ shards'[k] = NoRef =>
          clock - last_access[shards[k]] >= idle_ttl]_vars

\* "To prevent unbounded growth" (cleanup_idle): while calls keep coming, on
\* whatever keys, a key that stays idle does not stay in the map.
IdleKeysAreEvicted ==
    \A k \in Key : []<>( \/ shards[k] = NoRef
                       \/ clock - last_access[shards[k]] < idle_ttl )

\* The retry loops are lock-free: a compare-and-swap fails only when another
\* succeeds, or spuriously, so every call returns.
EveryCallReturns ==
    \A t \in Thread : (pc[t] # "idle") ~> (pc[t] = "idle")
=============================================================================
