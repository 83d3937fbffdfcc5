----------------------------- MODULE MCPartition -----------------------------
(* Folds that fill one, two and three shards.                              *)
EXTENDS Partition, TLC

CONSTANTS a, b, c

MCContents == {a, b, c}
MCNShards == a :> 1 @@ b :> 2 @@ c :> 3
=============================================================================
