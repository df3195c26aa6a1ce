---------------------------- MODULE LeakyBucket ----------------------------
(***************************************************************************)
(* LeakyBucket (src/algorithm/leaky_bucket.rs).  The file repeats          *)
(* token_bucket.rs: the same calls, sweep, lookup, insertion and claim, on *)
(* one map instead of 256 shards.  Those steps are the ones of TokenBucket *)
(* with one shard (Threads).  What differs is here: `tokens' counts what   *)
(* requests have poured in and has not leaked yet, so a bucket starts      *)
(* empty, a claimed interval lowers it, and a call is denied when it would *)
(* overflow.                                                               *)
(*                                                                         *)
(* The variable last_refill of Threads is last_leak_nanos.                 *)
(***************************************************************************)
EXTENDS RefillMath, FiniteSets

CONSTANTS
    Key, Thread, Ref, NoRef,
    burst,            \* the capacity given to new()
    rate,             \* the leak rate given to new()
    MAX_CAPACITY, MAX_LEAK_RATE,
    idle_ttl, NoTTL, Cost, MaxTime

VARIABLES
    clock, shards, tokens, last_refill, last_access, pc, call, state, loaded,
    sweep, created, granted

Threads == INSTANCE TokenBucket WITH
              MAX_BURST <- MAX_CAPACITY, MAX_RATE_PER_SEC <- MAX_LEAK_RATE,
              NUM_SHARDS <- 1, get_shard_index <- [k \in Key |-> 0]

ASSUME LeakyAssumption ==
    /\ Key # {}
    /\ burst \in Nat /\ rate \in Nat
    /\ MAX_CAPACITY \in Nat /\ MAX_LEAK_RATE \in Nat
    /\ 2 * SCALE * MAX_CAPACITY <= U64_MAX /\ 2 * SCALE * MAX_LEAK_RATE <= U64_MAX
    /\ NoRef \notin Ref
    /\ NoTTL \notin Nat /\ idle_ttl \in Nat \cup {NoTTL}
    /\ Cost \subseteq u64
    /\ MaxTime \in u64

shared == <<shards, tokens, last_refill, last_access>>
vars == <<clock, shared, pc, call, state, loaded, sweep, created, granted>>

capacity             == MinOf(burst, MAX_CAPACITY)
leak_rate_per_second == MinOf(rate, MAX_LEAK_RATE)
scaled_capacity      == saturating_mul(capacity, SCALE)
rate_scaled          == saturating_mul(leak_rate_per_second, SCALE)
token_cost(t)        == Threads!token_cost(t)

Init == Threads!Init

-----------------------------------------------------------------------------

Check(t)           == Threads!Check(t)
CheckAndSweep(t)   == Threads!CheckAndSweep(t)
CleanupIdle(t)     == Threads!CleanupIdle(t)
Lookup(t)          == Threads!Lookup(t)
AlreadyInserted(t) == Threads!AlreadyInserted(t)

\* try_insert wins: the new bucket is empty.
Insert(t) ==
    /\ pc[t] = "insert"
    /\ shards[call[t].key] = NoRef
    /\ \E r \in Threads!Free :
          /\ shards' = [shards EXCEPT ![call[t].key] = r]
          /\ tokens' = [tokens EXCEPT ![r] = 0]
          /\ last_refill' = [last_refill EXCEPT ![r] = call[t].now]
          /\ last_access' = [last_access EXCEPT ![r] = call[t].now]
          /\ created' = [created EXCEPT ![r] = call[t].now]
          /\ granted' = [granted EXCEPT ![r] = 0]
          /\ state' = [state EXCEPT ![t] = r]
    /\ Threads!Goto(t, "touch")
    /\ UNCHANGED <<clock, call, loaded, sweep>>

-----------------------------------------------------------------------------
(***************************************************************************)
(* AtomicLeakyState::try_add                                               *)
(***************************************************************************)

Touch(t) == Threads!Touch(t)

\* Mutant: a claim that fails is given up.
ClaimingOnce(t) ==
    \/ Threads!NothingAccrued(t) \/ Threads!LoadRefill(t) \/ Threads!Claim(t)
    \/ /\ pc[t] = "claim"
       /\ loaded' = [loaded EXCEPT ![t] = 0]
       /\ Threads!Goto(t, "load_tokens")
       /\ UNCHANGED <<clock, shared, call, state, sweep, created, granted>>

\* apply_leak, up to the claim.
Claiming(t) == Threads!Claiming(t)

\* fetch_update: what was claimed leaks out, down to nothing.
Leak(t) ==
    /\ pc[t] = "credit"
    /\ tokens' = [tokens EXCEPT ![state[t]] = saturating_sub(@, Threads!added(t))]
    /\ loaded' = [loaded EXCEPT ![t] = 0]
    /\ Threads!Goto(t, "load_tokens")
    /\ UNCHANGED <<clock, shards, last_refill, last_access, call, state, sweep,
                   created, granted>>

new_tokens(t, current) == saturating_add(current, token_cost(t))

\* Mutant: the level is compared with the capacity before the cost is added.
LoadTokensBefore(t) ==
    /\ pc[t] = "load_tokens"
    /\ tokens[state[t]] <= scaled_capacity
    /\ loaded' = [loaded EXCEPT ![t] = tokens[state[t]]]
    /\ Threads!Goto(t, "debit")
    /\ UNCHANGED <<clock, shared, call, state, sweep, created, granted>>

LoadTokens(t) ==
    /\ pc[t] = "load_tokens"
    /\ new_tokens(t, tokens[state[t]]) <= scaled_capacity
    /\ loaded' = [loaded EXCEPT ![t] = tokens[state[t]]]
    /\ Threads!Goto(t, "debit")
    /\ UNCHANGED <<clock, shared, call, state, sweep, created, granted>>

Deny(t) ==
    /\ pc[t] = "load_tokens"
    /\ new_tokens(t, tokens[state[t]]) > scaled_capacity
    /\ Threads!Return(t)
    /\ UNCHANGED <<clock, shared, created, granted>>

\* Mutant: a store for the compare-and-swap.
PourByStore(t) ==
    /\ pc[t] = "debit"
    /\ tokens' = [tokens EXCEPT ![state[t]] = new_tokens(t, loaded[t])]
    /\ granted' = [granted EXCEPT ![state[t]] = @ + call[t].cost * SCALE]
    /\ Threads!Return(t)
    /\ UNCHANGED <<clock, shards, last_refill, last_access, created>>

\* The compare-and-swap that pours the cost in; the call is permitted.
Pour(t) ==
    /\ pc[t] = "debit"
    /\ tokens[state[t]] = loaded[t]
    /\ tokens' = [tokens EXCEPT ![state[t]] = new_tokens(t, loaded[t])]
    /\ granted' = [granted EXCEPT ![state[t]] = @ + call[t].cost * SCALE]
    /\ Threads!Return(t)
    /\ UNCHANGED <<clock, shards, last_refill, last_access, created>>

PourFails(t) == Threads!DebitFails(t)

\* The decision that check_impl builds from what try_add returns.
leaky_decision(permitted, remaining_capacity, cost) ==
    LET current_level == saturating_sub(capacity, remaining_capacity) IN
    [permitted   |-> permitted,
     retry_after |-> IF permitted
                     THEN None
                     ELSE wait_for_tokens(cost, leak_rate_per_second),
     remaining   |-> remaining_capacity,
     limit       |-> capacity,
     reset       |-> IF leak_rate_per_second > 0 /\ current_level > 0
                     THEN wait_for_tokens(current_level, leak_rate_per_second)
                     ELSE 0]

-----------------------------------------------------------------------------

Running(t) ==
    \/ CleanupIdle(t)
    \/ Lookup(t) \/ Insert(t) \/ AlreadyInserted(t)
    \/ Touch(t) \/ Claiming(t) \/ Leak(t)
    \/ LoadTokens(t) \/ Deny(t) \/ Pour(t) \/ PourFails(t)

Next ==
    \/ Threads!Tick
    \/ \E t \in Thread : Check(t) \/ CheckAndSweep(t) \/ Running(t)

Spec == Init /\ [][Next]_vars

(***************************************************************************)
(* Upside down: the room left in a leaky bucket stands for the tokens left *)
(* in a token bucket of the same capacity and rate.                        *)
(***************************************************************************)

room == [r \in Ref |-> scaled_capacity - tokens[r]]

\* Before its compare-and-swap a thread has loaded a level; else a timestamp.
room_loaded ==
    [t \in Thread |-> IF pc[t] = "debit" THEN scaled_capacity - loaded[t] ELSE loaded[t]]

Room == INSTANCE TokenBucket WITH
           tokens <- room, loaded <- room_loaded,
           MAX_BURST <- MAX_CAPACITY, MAX_RATE_PER_SEC <- MAX_LEAK_RATE,
           NUM_SHARDS <- 1, get_shard_index <- [k \in Key |-> 0]

-----------------------------------------------------------------------------
(***************************************************************************)
(* Correctness                                                             *)
(***************************************************************************)

\* The types of TokenBucket, and a bucket that never overflows.
TypeOK == Threads!TypeOK /\ \A r \in Ref : tokens[r] <= scaled_capacity

\* What has leaked out of a bucket is what was poured in and is not there any
\* more.  At an exact rate it never exceeds what the rate drains in the time
\* that has been claimed, less what threads have claimed and not yet drained.
DrainedAtTheRate ==
    \A r \in Ref :
        NANOS_PER_SEC * (granted[r] - tokens[r])
           + rate_scaled * Cardinality(Threads!Outstanding(r))
        <= rate_scaled * (last_refill[r] - created[r])

\* No call decides on a bucket from which it has seen time pass that has not
\* been claimed ("claim the elapsed interval, then subtract leaked occupancy").
LeakCaughtUp == Threads!RefillCaughtUp

\* The two algorithms are one: each step of the leaky bucket is the step that a
\* token bucket takes, with room for tokens.  Whatever a token bucket promises, a
\* leaky bucket does, and whatever bursts the one lets through, so does the other.
IsTokenBucketUpsideDown == [][Room!Next]_(Room!vars)

\* A denied caller that sleeps its retry_after finds room, if its cost fits the
\* capacity at all and nobody else pours in the meantime.
RetryAfterSuffices ==
    \A r \in Ref, c \in Cost \ {0} :
        LET remaining == (scaled_capacity - tokens[r]) \div SCALE
            wait      == leaky_decision(FALSE, remaining, c).retry_after
        IN  rate_scaled > 0 /\ c <= capacity =>
               saturating_sub(tokens[r], refill_tokens(wait, rate_scaled))
                  + c * SCALE <= scaled_capacity
=============================================================================
