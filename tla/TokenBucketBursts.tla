------------------------- MODULE TokenBucketBursts -------------------------
(***************************************************************************)
(* TokenBucket with two more history variables: what each key was let      *)
(* through, over the whole run, whichever bucket it was charged to, and    *)
(* between two ticks of the clock.                                         *)
(***************************************************************************)
EXTENDS TokenBucket

VARIABLES
    admitted,      \* Key -> scaled tokens let through so far
    admitted_now   \* Key -> scaled tokens let through at this instant

burst_vars == <<vars, admitted, admitted_now>>

BurstInit ==
    /\ Init
    /\ admitted = [k \in Key |-> 0]
    /\ admitted_now = [k \in Key |-> 0]

\* What the step of thread t lets through: only Debit adds to granted.
LetThrough(t, k) ==
    IF Debit(t) /\ call[t].key = k THEN call[t].cost * SCALE ELSE 0

BurstNext ==
    \/ /\ Tick
       /\ admitted_now' = [k \in Key |-> 0]
       /\ UNCHANGED admitted
    \/ \E t \in Thread :
          /\ Calling(t) \/ Running(t)
          /\ admitted' = [k \in Key |-> admitted[k] + LetThrough(t, k)]
          /\ admitted_now' = [k \in Key |-> admitted_now[k] + LetThrough(t, k)]

BurstSpec == BurstInit /\ [][BurstNext]_burst_vars

BusySpec == BurstSpec /\ Busy

-----------------------------------------------------------------------------

\* "Capacity: maximum number of tokens (burst size)" (TokenBucket) is not what a
\* key can be let through at one instant: a thread that stopped between its claim
\* and its credit adds up to one capacity more, and the calls of the instant
\* itself share another.  There is no more to a burst than that.
BurstIsBounded ==
    \A k \in Key : admitted_now[k] <= scaled_capacity * (1 + Cardinality(Thread))

\* The budget of a key, however many buckets it went through: eviction resets a
\* quota only when waiting would have filled it up as well.
KeyBudget ==
    \A k \in Key : NANOS_PER_SEC * admitted[k] <=
        NANOS_PER_SEC * scaled_capacity + rate_scaled * clock
=============================================================================
