-------------------------- MODULE TokenBucketAlone --------------------------
(***************************************************************************)
(* TokenBucket with one caller implements WholeChecks: a check counts as   *)
(* done when it looks its bucket up, and from then on the bucket stands    *)
(* for what the rest of the call will make of it.                          *)
(***************************************************************************)
EXTENDS TokenBucket

Whole == INSTANCE Limiter WITH requests_per_second <- refill_rate_per_second, burst <- capacity

Stored(k) ==
    IF shards[k] = NoRef
    THEN Whole!NoBucket
    ELSE [tokens |-> tokens[shards[k]], last_refill |-> last_refill[shards[k]]]

\* A thread that works on the bucket of key k, or is about to insert it.
Checks(t, k) == pc[t] \in {"insert"} \cup Consuming /\ call[t].key = k

\* The bucket that the call of thread t will leave behind.
LeftBy(t) ==
    LET bucket == Stored(call[t].key)
        cost   == call[t].cost
    IN CASE pc[t] \in {"insert", "touch", "load_refill", "claim"} ->
                Whole!checked(bucket, call[t].now, cost)
         [] pc[t] = "credit" ->
                Whole!taken([bucket EXCEPT !.tokens = MinOf(@ + added(t), scaled_capacity)], cost)
         [] OTHER -> Whole!taken(bucket, cost)

buckets == [k \in Key |-> IF \E t \in Thread : Checks(t, k)
                          THEN LeftBy(CHOOSE t \in Thread : Checks(t, k))
                          ELSE Stored(k)]

Atomic == INSTANCE WholeChecks WITH requests_per_second <- refill_rate_per_second, burst <- capacity

\* The loads, claims, credits and debits of a call that meets no other add up to
\* one check of one key, however often a compare-and-swap fails and time goes on
\* meanwhile, and eviction does no more than forget a bucket.
ImplementsWholeChecks == Atomic!Spec
=============================================================================
