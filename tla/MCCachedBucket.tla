--------------------------- MODULE MCCachedBucket ---------------------------
(***************************************************************************)
(* Small instances of CachedBucket for TLC.                                *)
(***************************************************************************)
EXTENDS CachedBucket, TLC

CONSTANTS lim1, lim2, n1, n2, t1, t2, r1, r2, r3, r4

\* Two names in one limiter, and one of them in the other; or one name in both.
ThreeKeys == {[limiter |-> lim1, name |-> n1], [limiter |-> lim1, name |-> n2],
              [limiter |-> lim2, name |-> n1]}
Namesakes == [limiter : Limiter, name : {n1}]

ThreadsAndBucketsAlike == Permutations(Thread) \cup Permutations(Ref)
=============================================================================
