------------------------------ MODULE MCThreads ------------------------------
(* Instances of Threads for TLC.                                           *)
EXTENDS Threads, TLC

\* The pool's threads run the same loop.
WorkerSymmetry == Permutations(Workers)
=============================================================================
