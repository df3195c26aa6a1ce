--------------------------- MODULE MCTokenBucket ---------------------------
(***************************************************************************)
(* Small instances of TokenBucket for TLC.                                 *)
(***************************************************************************)
EXTENDS TokenBucket, TLC

CONSTANTS k1, k2, t1, t2, t3, r1, r2, r3

\* One shard for all keys; a shard for each of k1 and k2.
OneShard  == [k \in Key |-> 0]
ShardEach == [k \in Key |-> IF k = k1 THEN 0 ELSE 1]

ThreadsAlike == Permutations(Thread)
ThreadsAndBucketsAlike == Permutations(Thread) \cup Permutations(Ref)
=============================================================================
