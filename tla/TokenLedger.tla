---------------------------- MODULE TokenLedger ----------------------------
(***************************************************************************)
(* What a token bucket promises each key, with no threads, no atomics and  *)
(* no buckets to find: a level of at most Capacity, time that passes and   *)
(* is worth Rate units of the level per Second, and calls that take from   *)
(* the level what it holds.                                                *)
(*                                                                         *)
(* Time is credited late, in any portions, and a portion may be worth less *)
(* than its due; but no instant is credited twice.  That is all a key's    *)
(* budget needs.                                                           *)
(***************************************************************************)
EXTENDS Integers

CONSTANTS Key, Capacity, Rate, Second,
          MaxTime    \* time stops here

\* What the constants are.
LedgerAssumption ==
    /\ Capacity \in Nat /\ Rate \in Nat /\ MaxTime \in Nat
    /\ Second \in Nat \ {0}

VARIABLES
    time,      \* instants gone by
    level,     \* Key -> units it may take now
    backlog,   \* Key -> instants gone by and not yet credited
    taken      \* Key -> units it has taken

vars == <<time, level, backlog, taken>>

AtMost(a, b) == IF a <= b THEN a ELSE b

Init ==
    /\ time = 0
    /\ level = [k \in Key |-> Capacity]
    /\ backlog = [k \in Key |-> 0]
    /\ taken = [k \in Key |-> 0]

Elapse ==
    /\ time < MaxTime
    /\ time' = time + 1
    /\ backlog' = [k \in Key |-> backlog[k] + 1]
    /\ UNCHANGED <<level, taken>>

\* s instants of k's backlog become x units, or less; what does not fit the
\* capacity is lost.
Credit(k, s, x) ==
    /\ Second * x <= Rate * s
    /\ backlog' = [backlog EXCEPT ![k] = @ - s]
    /\ level' = [level EXCEPT ![k] = AtMost(@ + x, Capacity)]
    /\ UNCHANGED <<time, taken>>

Take(k, x) ==
    /\ x <= level[k]
    /\ level' = [level EXCEPT ![k] = @ - x]
    /\ taken' = [taken EXCEPT ![k] = @ + x]
    /\ UNCHANGED <<time, backlog>>

Next ==
    \/ Elapse
    \/ \E k \in Key :
          \/ \E s \in 0..backlog[k] : \E x \in 0..Capacity : Credit(k, s, x)
          \/ \E x \in 1..Capacity : Take(k, x)

Spec == Init /\ [][Next]_vars

-----------------------------------------------------------------------------

\* The fields are natural numbers, and no level exceeds the capacity.
TypeOK ==
    /\ time \in 0..MaxTime
    /\ level \in [Key -> 0..Capacity]
    /\ backlog \in [Key -> 0..time]
    /\ taken \in [Key -> Nat]

\* The promise: no key ever takes more than the capacity and what its rate is
\* worth over the time gone by.
RateIsKept ==
    \A k \in Key : Second * taken[k] <= Second * Capacity + Rate * time
=============================================================================
