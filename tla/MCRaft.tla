------------------------------- MODULE MCRaft -------------------------------
(* Instances of Raft for TLC.                                              *)
EXTENDS Raft, TLC

\* The UUIDs are only compared for equality.
ServerSymmetry == Permutations(Writers) \cup Permutations(Server \ Writers)
=============================================================================
