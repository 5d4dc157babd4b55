------------------------------- MODULE KeyMap -------------------------------
(* What HashTable promises: a map from keys to values that its operations  *)
(* change one at a time, each only under its own key.                      *)

CONSTANTS Keys, Values, None

VARIABLES
    map,
    pending     \* the operation under way: <<>>, <<"set">> or <<"erase", key>>

vars == <<map, pending>>

Init == map = [k \in Keys |-> None] /\ pending = <<>>

\* set takes effect at once; it may need some time to return...
Put(k, v) ==
    /\ pending = <<>> /\ pending' \in {<<>>, <<"set">>}
    /\ map' = [map EXCEPT ![k] = v]

\* ...in which it changes nothing.
Return == pending = <<"set">> /\ pending' = <<>> /\ UNCHANGED map

\* erase of a key that is there, and its effect.
Erase(k) ==
    /\ pending = <<>> /\ pending' = <<"erase", k>>
    /\ map[k] # None
    /\ UNCHANGED map

Remove(k) ==
    /\ pending = <<"erase", k>> /\ pending' = <<>>
    /\ map' = [map EXCEPT ![k] = None]

Next ==
    \/ \E k \in Keys : Erase(k) \/ Remove(k) \/ \E v \in Values : Put(k, v)
    \/ Return

Spec == Init /\ [][Next]_vars
=============================================================================
