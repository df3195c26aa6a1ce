--------------------------- MODULE MCLeakyBucket ---------------------------
(***************************************************************************)
(* Small instances of LeakyBucket for TLC.                                 *)
(***************************************************************************)
EXTENDS LeakyBucket, TLC

CONSTANTS k1, k2, t1, t2, t3, r1, r2, r3

ThreadsAlike == Permutations(Thread)
=============================================================================
