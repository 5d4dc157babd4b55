------------------------------ MODULE LruOrder ------------------------------
(* What LRU promises: the keys it tracks in the order of their last use,   *)
(* of which it drops the first when there are more than MaxSize.           *)
EXTENDS Integers, Sequences, Functions

CONSTANTS Keys, MaxSize

VARIABLE order

\* A sequence without its i-th element.
Erase(s, i) == SubSeq(s, 1, i - 1) \o SubSeq(s, i + 1, Len(s))

Forget(s, k) == Erase(s, CHOOSE i \in DOMAIN s : s[i] = k)

Init == order = <<>>

\* A tracked key is used.
Use(k) ==
    /\ k \in Range(order)
    /\ order' = Append(Forget(order, k), k)

\* A new key is tracked; the least recently used one may have to go.
Track(k) ==
    /\ k \notin Range(order)
    /\ LET s == Append(order, k) IN
         order' = IF Len(s) > MaxSize THEN Tail(s) ELSE s

Drop(k) ==
    /\ k \in Range(order)
    /\ order' = Forget(order, k)

Next == \E k \in Keys : Use(k) \/ Track(k) \/ Drop(k)

Spec == Init /\ [][Next]_order
=============================================================================
