------------------------------- MODULE MCShard -------------------------------
(* Instances of Shard for TLC.                                             *)
EXTENDS Shard

\* One node more than the list keeps: LRU::set appends before it drops.
ListMemory == 1 .. MaxSize + 1
=============================================================================
