------------------------------- MODULE MCJoin -------------------------------
(* Small instances of Join and Routing.                                    *)
EXTENDS Routing, TLC

MCWalk == "k" :> <<4, 3, 2, 1>>

Case(F, J, A, n) ==
    [founders |-> F, joiners |-> J, asked |-> A, faults |-> n]

MCWriters == {Case({1, 2}, {4}, {2}, 0)}
MCCases ==
    MCWriters \cup
    {Case({1, 2, 3}, {4}, {1}, 0), Case({1}, {3, 4}, {1, 3, 4}, 0),
     Case({1, 2}, {4}, {1, 2}, 1)}
=============================================================================
