---------------------------- MODULE WholeChecks ----------------------------
(***************************************************************************)
(* What callers of check_with_cost take for granted: a check is one step,  *)
(* on the bucket of its key, at a `now' that has been.  RateLimiter and    *)
(* Middleware are built on such checks; TokenBucketAlone shows where       *)
(* TokenBucket keeps to them.                                              *)
(***************************************************************************)
EXTENDS Limiter

CONSTANTS Key, Cost

VARIABLES clock, buckets

Init == clock = 0 /\ buckets = [k \in Key |-> NoBucket]

Tick == clock' = clock + 1 /\ UNCHANGED buckets

Check(k) ==
    /\ \E cost \in Cost, now \in 0..clock :
          buckets' = [buckets EXCEPT ![k] = checked(@, now, cost)]
    /\ UNCHANGED clock

Evict(k) == buckets' = [buckets EXCEPT ![k] = NoBucket] /\ UNCHANGED clock

Next == Tick \/ \E k \in Key : Check(k) \/ Evict(k)

Spec == Init /\ [][Next]_<<clock, buckets>>
=============================================================================
