----------------------------- MODULE MCWritePath -----------------------------
(* Instances of WritePath for TLC.                                         *)
EXTENDS WritePath, TLC

CONSTANTS k1, w1, w2

Set(k, t) == [op |-> "SET", key |-> k, val |-> [kind |-> "bulk", text |-> t]]
Del(k) == [op |-> "DEL", key |-> k, val |-> None]

OneSet == {Set(k1, "a")}
TwoSets == {Set(k1, "a"), Set(k1, "b")}

\* With a deletion and a value that is not one token.
WithOdd == {Set(k1, "a"), Set(k1, "odd"), Del(k1)}

WorkerSymmetry == Permutations(Workers)
=============================================================================
