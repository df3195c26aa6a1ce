----------------------- MODULE TokenBucketRefinement -----------------------
(***************************************************************************)
(* TokenBucket without eviction implements TokenLedger, key by key.        *)
(*                                                                         *)
(* A key the map does not have yet has a full level and all of time as its *)
(* backlog.  A bucket's backlog is what its timestamp has not reached, and *)
(* what threads have claimed and not yet credited: a claim is a stuttering *)
(* step of the ledger, the credit that follows is the step.                *)
(***************************************************************************)
EXTENDS TokenBucket

level == [k \in Key |->
            IF shards[k] = NoRef THEN scaled_capacity ELSE tokens[shards[k]]]

backlog == [k \in Key |->
              IF shards[k] = NoRef
              THEN clock
              ELSE clock - last_refill[shards[k]] + Cardinality(Outstanding(shards[k]))]

taken == [k \in Key |-> IF shards[k] = NoRef THEN 0 ELSE granted[shards[k]]]

Promise == INSTANCE TokenLedger WITH
              time <- clock, Capacity <- scaled_capacity,
              Rate <- rate_scaled, Second <- NANOS_PER_SEC

\* The threads' interleaved loads, claims, credits and debits add up to a
\* ledger: every debit is covered by the level at that moment, and every credit
\* by time nobody else credits.
ImplementsLedger == Promise!Spec
=============================================================================
