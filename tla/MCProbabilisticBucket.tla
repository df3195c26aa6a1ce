------------------------ MODULE MCProbabilisticBucket ------------------------
(***************************************************************************)
(* A small instance of ProbabilisticBucket for TLC.                        *)
(***************************************************************************)
EXTENDS ProbabilisticBucket, TLC

CONSTANTS k1, t1, t2, t3, r1

ThreadsAlike == Permutations(Thread)
=============================================================================
