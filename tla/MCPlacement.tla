----------------------------- MODULE MCPlacement -----------------------------
(* Instances of Placement for TLC.                                         *)
EXTENDS Placement, TLC

CONSTANTS k1, k2, k3

\* Points of 64 that interleave, with keys between them, at one of them, and
\* after the last.
RingPoints ==
    9 :> {5, 40} @@ 18 :> {12, 50} @@ 28 :> {20, 33} @@ 44 :> {2, 60}

KeyPoints == k1 :> 13 @@ k2 :> 40 @@ k3 :> 63
=============================================================================
