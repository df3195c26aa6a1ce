------------------------ MODULE MCTokenBucketBursts ------------------------
(***************************************************************************)
(* The same instances, with the refinement of TokenLedger and the history  *)
(* of what each key was let through.                                       *)
(***************************************************************************)
EXTENDS MCTokenBucket, TokenBucketRefinement, TokenBucketAlone, TokenBucketBursts
=============================================================================
