----------------------------- MODULE MCHashTable -----------------------------
(* Instances of HashTable for TLC.                                         *)
EXTENDS HashTable, TLC

CONSTANTS k1, k2, k3, k4

\* The keys of one shard: KVStore picks the shard by the same hash, so that with
\* as many shards as a new table has buckets all keys start at one bucket, and
\* spread only as the table doubles.
ShardHash == k1 :> 1 @@ k2 :> 1 @@ k3 :> 3 @@ k4 :> 3
=============================================================================
