---------------------------- MODULE CachedBucket ----------------------------
(***************************************************************************)
(* CachedTokenBucket (src/algorithm/cached_token_bucket.rs, deprecated):   *)
(* token buckets on one map each, and a cache of one entry in each thread, *)
(* in front of all of them: CACHE is a static, and has the key's string    *)
(* only.  A Key here is a string and the limiter it is asked of.           *)
(*                                                                         *)
(* The steps of check_impl and cleanup_idle that repeat token_bucket.rs    *)
(* are those of TokenBucket (Threads).  The limiters have the same         *)
(* parameters and were made at one instant; some have no TTL.              *)
(***************************************************************************)
EXTENDS RefillMath, FiniteSets

CONSTANTS
    Limiter, Name, Key,
    Evicting,         \* the limiters made with with_ttl
    Thread, Ref, NoRef,
    burst, rate, MAX_BURST, MAX_RATE_PER_SEC,
    idle_ttl, NoTTL, Cost, MaxTime,
    HOT               \* a key accessed more often is hot: 10

ASSUME CacheAssumption ==
    /\ Key \subseteq [limiter : Limiter, name : Name]
    /\ Evicting \subseteq Limiter /\ HOT \in Nat
    /\ 2 * SCALE * MAX_BURST <= U64_MAX

VARIABLES
    clock, shards, tokens, last_refill, last_access, pc, call, state, loaded,
    sweep, created, granted,
    access_count,     \* Ref -> accesses, up to one more than HOT
    cache             \* Thread -> the entry of its CACHE

Threads == INSTANCE TokenBucket WITH NUM_SHARDS <- 1, get_shard_index <- [k \in Key |-> 0]

bucket == <<tokens, last_refill, last_access, created, granted>>
mine   == <<access_count, cache>>
vars   == <<clock, shards, bucket, pc, call, state, loaded, sweep, mine>>

Init ==
    /\ Threads!Init
    /\ access_count = [r \in Ref |-> 0]
    /\ cache = [t \in Thread |-> [name |-> NoRef, state |-> NoRef]]

\* An Arc in a cache keeps its bucket too.
Free == Threads!Free \ {cache[t].state : t \in Thread}

is_hot_key(r) == access_count[r] > HOT

-----------------------------------------------------------------------------

Tick     == Threads!Tick /\ UNCHANGED mine
Check(t) == Threads!Check(t) /\ UNCHANGED mine

\* A call that sweeps the map of its limiter first.
CheckAndSweep(t) ==
    /\ \E k \in Key, c \in Cost :
          /\ k.limiter \in Evicting
          /\ Threads!Begin(t, k, c, "sweep")
          /\ sweep' = [sweep EXCEPT ![t].unseen = {j \in Key : j.limiter = k.limiter}]
    /\ UNCHANGED mine

EndSweep(t) ==
    /\ pc[t] = "sweep"
    /\ sweep[t].unseen = {} /\ sweep[t].keys_to_remove = {}
    /\ Threads!Goto(t, "lookup")
    /\ UNCHANGED <<clock, shards, bucket, call, state, loaded, sweep, mine>>

CleanupIdle(t) ==
    \/ (Threads!ScanEntry(t) \/ Threads!RemoveExpired(t)) /\ UNCHANGED mine
    \/ EndSweep(t)

-----------------------------------------------------------------------------
(***************************************************************************)
(* get_or_create_state_cached                                              *)
(***************************************************************************)

\* Mutant: every limiter caches.
CachesAlways(t) == TRUE

\* idle_ttl.is_none()
Caches(t) == call[t].key.limiter \notin Evicting

\* Mutant: the entry's key is not compared.
IsCachedAnyName(t) == Caches(t) /\ cache[t].state # NoRef

IsCached(t) == Caches(t) /\ cache[t].name = call[t].key.name

Found(t, r, step) == state' = [state EXCEPT ![t] = r] /\ Threads!Goto(t, step)

CacheHit(t) ==
    /\ pc[t] = "lookup"
    /\ IsCached(t)
    /\ Found(t, cache[t].state, "touch")
    /\ UNCHANGED <<clock, shards, bucket, call, loaded, sweep, mine>>

Lookup(t) ==
    /\ pc[t] = "lookup"
    /\ ~IsCached(t)
    /\ LET r == shards[call[t].key] IN Found(t, r, IF r = NoRef THEN "insert" ELSE "remember")
    /\ UNCHANGED <<clock, shards, bucket, call, loaded, sweep, mine>>

\* try_insert wins, or loses and the bucket that is there is used.
Insert(t) ==
    /\ pc[t] = "insert"
    /\ shards[call[t].key] = NoRef
    /\ \E r \in Free :
          /\ shards' = [shards EXCEPT ![call[t].key] = r]
          /\ tokens' = [tokens EXCEPT ![r] = Threads!scaled_capacity]
          /\ last_refill' = [last_refill EXCEPT ![r] = call[t].now]
          /\ last_access' = [last_access EXCEPT ![r] = call[t].now]
          /\ created' = [created EXCEPT ![r] = call[t].now]
          /\ granted' = [granted EXCEPT ![r] = 0]
          /\ access_count' = [access_count EXCEPT ![r] = 0]
          /\ Found(t, r, "remember")
    /\ UNCHANGED <<clock, call, loaded, sweep, cache>>

AlreadyInserted(t) ==
    /\ pc[t] = "insert"
    /\ shards[call[t].key] # NoRef
    /\ Found(t, shards[call[t].key], "remember")
    /\ UNCHANGED <<clock, shards, bucket, call, loaded, sweep, mine>>

\* CacheEntry::set, if the bucket is hot.
Remember(t) ==
    /\ pc[t] = "remember"
    /\ cache' = IF Caches(t) /\ is_hot_key(state[t])
                THEN [cache EXCEPT ![t] = [name |-> call[t].key.name, state |-> state[t]]]
                ELSE cache
    /\ Threads!Goto(t, "touch")
    /\ UNCHANGED <<clock, shards, bucket, call, state, loaded, sweep, access_count>>

FindBucket(t) ==
    CacheHit(t) \/ Lookup(t) \/ Insert(t) \/ AlreadyInserted(t) \/ Remember(t)

-----------------------------------------------------------------------------

\* try_consume counts the access too.  No step of another thread sees both the
\* count and last_access, so the two are one step.
Touch(t) ==
    /\ Threads!Touch(t)
    /\ access_count' = [access_count EXCEPT ![state[t]] = MinOf(@ + 1, HOT + 1)]
    /\ UNCHANGED cache

TryConsume(t) ==
    \/ Touch(t)
    \/ (Threads!Claiming(t) \/ Threads!Credit(t) \/ Threads!Deciding(t)) /\ UNCHANGED mine

Running(t) == CleanupIdle(t) \/ FindBucket(t) \/ TryConsume(t)

Next == Tick \/ \E t \in Thread : Check(t) \/ CheckAndSweep(t) \/ Running(t)

Spec == Init /\ [][Next]_vars

-----------------------------------------------------------------------------
(***************************************************************************)
(* Correctness                                                             *)
(***************************************************************************)

\* "Each client/user/key has an independent bucket" (README): all calls on a key
\* of a limiter that does not evict work on the one bucket that its map has for
\* the key, whichever thread found it in its cache.
OneBucketPerKey ==
    \A t \in Thread : state[t] # NoRef /\ call[t].key.limiter \notin Evicting =>
        shards[call[t].key] = state[t]

\* A key is never charged for another, not even for its namesake in another
\* limiter, and not by way of a bucket that was evicted and is still in use.
KeyIsolation == Threads!KeyIsolation
=============================================================================
