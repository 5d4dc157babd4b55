------------------------------ MODULE HashTable ------------------------------
(***************************************************************************)
(* HashTable<T>: open addressing with linear probing, tombstones for       *)
(* erased keys and a table that doubles.  KVStore keeps one behind each    *)
(* shard's lock, so that operations do not interleave; but the snapshot's  *)
(* fork takes no lock, and its child sees the table between any two of the *)
(* steps below.                                                            *)
(*                                                                         *)
(* An operation that finds nothing to do is no step.                       *)
(***************************************************************************)
EXTENDS Integers, FiniteSetsExt

CONSTANTS
    Keys, Values,
    None,       \* no value
    Hash,       \* gethash of each key
    Initial     \* number of buckets of a new table (16)

ASSUME HashAssumption == Hash \in [Keys -> Nat]
ASSUME InitialAssumption == Initial \in Nat \ {0}
ASSUME NoneAssumption == None \notin Values

VARIABLES
    buckets, bucketsz, sz,
    pc,         \* the step the thread that holds the lock is about to take
    at,         \* the bucket that erase found
    old, from   \* rehash: oldbuckets, and the next one to move

vars == <<buckets, bucketsz, sz, pc, at, old, from>>

\* A node.  Nothing reads the key and the value an erased node keeps.
Empty == [status |-> "EMPTY", key |-> None, val |-> None]
Deleted == [status |-> "DELETED", key |-> None, val |-> None]
Occupied(k, v) == [status |-> "OCCUPIED", key |-> k, val |-> v]

Node == {Empty, Deleted} \cup {Occupied(k, v) : k \in Keys, v \in Values}

EmptyTable(n) == [i \in 0 .. n - 1 |-> Empty]

-----------------------------------------------------------------------------
(* find, on a table b of n buckets.                                        *)

Probe(n, k, d) == (Hash[k] + d) % n

Holds(x, k) == x.status = "OCCUPIED" /\ x.key = k

\* The probes at which the loop returns; it throws if there is none.
Stops(b, n, k) ==
    {d \in 0 .. n - 1 : LET x == b[Probe(n, k, d)] IN
                            x.status = "EMPTY" \/ Holds(x, k)}

Throws(b, n, k) == Stops(b, n, k) = {}

\* The bucket of the key or, when the loop meets an empty bucket, the first
\* erased one on the way to it.
Find(b, n, k) ==
    LET stop == Min(Stops(b, n, k))
        dels == {d \in 0 .. stop : b[Probe(n, k, d)].status = "DELETED"}
    IN  Probe(n, k, IF Holds(b[Probe(n, k, stop)], k) \/ dels = {}
                    THEN stop ELSE Min(dels))

\* get and checkexist.
Lookup(b, n, k) ==
    LET x == b[Find(b, n, k)] IN IF x.status = "OCCUPIED" THEN x.val ELSE None

-----------------------------------------------------------------------------
Init ==
    /\ buckets = EmptyTable(Initial) /\ bucketsz = Initial /\ sz = 0
    /\ pc = "free" /\ at = 0
    /\ old = EmptyTable(0) /\ from = 0

Step(begin, end) == pc = begin /\ pc' = end

\* set of a key that is there.
SetValue(k, v) ==
    /\ Step("free", "free")
    /\ ~ Throws(buckets, bucketsz, k)
    /\ Lookup(buckets, bucketsz, k) # None
    /\ buckets' = [buckets EXCEPT ![Find(buckets, bucketsz, k)].val = v]
    /\ UNCHANGED <<bucketsz, sz, at, old, from>>

\* set of a new key: the node...
SetNode(k, v) ==
    /\ Step("free", "count")
    /\ ~ Throws(buckets, bucketsz, k)
    /\ Lookup(buckets, bucketsz, k) = None
    /\ buckets' = [buckets EXCEPT ![Find(buckets, bucketsz, k)] = Occupied(k, v)]
    /\ UNCHANGED <<bucketsz, sz, at, old, from>>

\* Faulty: the load factor before the new node.
SetCountLate ==
    /\ Step("count", IF 4 * sz > 3 * bucketsz THEN "double" ELSE "free")
    /\ sz' = sz + 1
    /\ UNCHANGED <<buckets, bucketsz, at, old, from>>

\* ...the count, and the load factor it gives.
SetCount ==
    /\ Step("count", IF 4 * (sz + 1) > 3 * bucketsz THEN "double" ELSE "free")
    /\ sz' = sz + 1
    /\ UNCHANGED <<buckets, bucketsz, at, old, from>>

\* rehash: the size...
RehashDouble ==
    /\ Step("double", "swap")
    /\ bucketsz' = 2 * bucketsz
    /\ UNCHANGED <<buckets, sz, at, old, from>>

\* Faulty: a new vector of erased nodes.
RehashSwapErased ==
    /\ Step("swap", "move")
    /\ buckets' = [i \in 0 .. bucketsz - 1 |-> Deleted]
    /\ old' = buckets /\ from' = 0
    /\ UNCHANGED <<bucketsz, sz, at>>

\* Faulty: a copy of the old nodes in the new vector.
RehashSwapCopies ==
    /\ Step("swap", "move")
    /\ buckets' = [i \in 0 .. bucketsz - 1 |->
                      IF i \in DOMAIN buckets THEN buckets[i] ELSE Empty]
    /\ old' = buckets /\ from' = 0
    /\ UNCHANGED <<bucketsz, sz, at>>

\* ...the new vector...
RehashSwap ==
    /\ Step("swap", "move")
    /\ buckets' = EmptyTable(bucketsz)
    /\ old' = buckets /\ from' = 0
    /\ UNCHANGED <<bucketsz, sz, at>>

\* ...and one node after the other.
RehashMove ==
    LET x == old[from]
        last == from + 1 = bucketsz \div 2
    IN
    /\ Step("move", IF last THEN "free" ELSE "move")
    /\ IF x.status = "OCCUPIED"
       THEN /\ ~ Throws(buckets, bucketsz, x.key)
            /\ buckets' = [buckets EXCEPT ![Find(buckets, bucketsz, x.key)] = x]
       ELSE UNCHANGED buckets
    /\ from' = IF last THEN 0 ELSE from + 1
    /\ old' = IF last THEN EmptyTable(0) ELSE old
    /\ UNCHANGED <<bucketsz, sz, at>>

\* Faulty: the first bucket of the probe sequence is taken for the key's.
EraseCountFirst(k) ==
    /\ Step("free", "mark")
    /\ ~ Throws(buckets, bucketsz, k)
    /\ Lookup(buckets, bucketsz, k) # None
    /\ sz' = sz - 1
    /\ at' = Probe(bucketsz, k, 0)
    /\ UNCHANGED <<buckets, bucketsz, old, from>>

\* erase of a key that is there: the count...
EraseCount(k) ==
    /\ Step("free", "mark")
    /\ ~ Throws(buckets, bucketsz, k)
    /\ Lookup(buckets, bucketsz, k) # None
    /\ sz' = sz - 1
    /\ at' = Find(buckets, bucketsz, k)
    /\ UNCHANGED <<buckets, bucketsz, old, from>>

\* Faulty: an empty bucket in place of the tombstone.
EraseMarkEmpty ==
    /\ Step("mark", "free")
    /\ buckets' = [buckets EXCEPT ![at] = Empty]
    /\ at' = 0
    /\ UNCHANGED <<bucketsz, sz, old, from>>

\* ...and the tombstone.
EraseMark ==
    /\ Step("mark", "free")
    /\ buckets' = [buckets EXCEPT ![at] = Deleted]
    /\ at' = 0
    /\ UNCHANGED <<bucketsz, sz, old, from>>

\* The exception of find leaves get, set, erase and checkexist before they
\* change anything.
FindThrows(k) ==
    /\ pc = "free"
    /\ Throws(buckets, bucketsz, k)
    /\ UNCHANGED vars

Next ==
    \/ \E k \in Keys :
           \/ EraseCount(k) \/ FindThrows(k)
           \/ \E v \in Values : SetValue(k, v) \/ SetNode(k, v)
    \/ SetCount \/ RehashDouble \/ RehashSwap \/ RehashMove \/ EraseMark

Spec == Init /\ [][Next]_vars

-----------------------------------------------------------------------------
(* Snapshot files.                                                         *)

Nodes(b) == {i \in DOMAIN b : b[i].status = "OCCUPIED"}

\* writetofile: a header with both sizes, then every occupied node with its
\* index.  Between RehashDouble and RehashSwap its loop would leave the vector.
Written ==
    [bucketsz |-> bucketsz, validsz |-> sz,
     nodes |-> [i \in Nodes(buckets) |-> buckets[i]]]

\* Faulty: the nodes one after the other, in the order of the file.
LoadedDense(f) ==
    [i \in 0 .. f.bucketsz - 1 |->
        IF i < f.validsz
        THEN f.nodes[CHOOSE j \in DOMAIN f.nodes :
                         Cardinality({e \in DOMAIN f.nodes : e < j}) = i]
        ELSE Empty]

\* readfromfile: as many nodes as the header says, at the indices they had.
Loaded(f) ==
    [i \in 0 .. f.bucketsz - 1 |->
        IF i \in DOMAIN f.nodes
             /\ Cardinality({j \in DOMAIN f.nodes : j < i}) < f.validsz
        THEN f.nodes[i] ELSE Empty]

-----------------------------------------------------------------------------
(* Properties.                                                             *)

\* Where a key is: in the table or, during a rehash, still in the old one.
Places(k) ==
    {<<"new", i>> : i \in {j \in DOMAIN buckets : Holds(buckets[j], k)}}
      \cup {<<"old", i>> : i \in {j \in DOMAIN old : j >= from /\ Holds(old[j], k)}}

Content(k) ==
    IF Places(k) = {} THEN None
    ELSE LET p == CHOOSE x \in Places(k) : TRUE
         IN  IF p[1] = "new" THEN buckets[p[2]].val ELSE old[p[2]].val

Pending ==
    CASE pc = "free" -> <<>>
      [] pc = "mark" -> <<"erase", buckets[at].key>>
      [] OTHER -> <<"set">>

Map == INSTANCE KeyMap WITH map <- [k \in Keys |-> Content(k)], pending <- Pending

TableTypes ==
    /\ bucketsz \in Nat \ {0}
    /\ pc \in {"free", "count", "double", "swap", "move", "mark"}
    /\ pc = "swap" => bucketsz % 2 = 0
    /\ buckets \in
           [0 .. (IF pc = "swap" THEN bucketsz \div 2 ELSE bucketsz) - 1 -> Node]
    /\ at \in DOMAIN buckets
    /\ pc = "move" => bucketsz % 2 = 0 /\ from \in 0 .. bucketsz \div 2 - 1
    /\ pc # "move" => from = 0
    /\ old \in
           [0 .. (IF pc = "move" THEN bucketsz \div 2 ELSE 0) - 1 -> Node]

\* The table keeps its shape: it has bucketsz buckets, but for the step of
\* rehash at which only the size has doubled, and sz, which erase decrements
\* first, never wraps below 0.
TypeOK == TableTypes /\ sz \in Nat

\* Whenever the shard's lock is free, find reaches every key the table holds:
\* neither reused tombstones nor a rehash cut a probe sequence short.
FindsEveryKey ==
    pc = "free" =>
        \A k \in Keys :
            Places(k) # {} =>
                /\ ~ Throws(buckets, bucketsz, k)
                /\ Lookup(buckets, bucketsz, k) = Content(k)

\* No key is ever in two buckets, though set puts a new key into the first
\* tombstone and not where its probe sequence ends, and rehash moves nodes.
OnePlacePerKey == \A k \in Keys : Cardinality(Places(k)) <= 1

\* sz counts the occupied nodes, and the load factor bounds them.
CountsNodes ==
    pc = "free" => /\ sz = Cardinality(Nodes(buckets))
                   /\ 4 * sz <= 3 * bucketsz

\* find never throws out of a rehash, which would lose the nodes not moved yet.
RehashHasRoom ==
    (pc = "move" /\ old[from].status = "OCCUPIED")
        => ~ Throws(buckets, bucketsz, old[from].key)

\* The tombstones a key's probe sequence crosses on the way to the key.
Crossed(k) ==
    LET stop == Min({d \in 0 .. bucketsz - 1 : Holds(buckets[Probe(bucketsz, k, d)], k)})
    IN  {d \in 0 .. stop : buckets[Probe(bucketsz, k, d)].status = "DELETED"}

\* Of a snapshot written between two operations, exactly the keys are found
\* again whose probe sequences cross no tombstone: writetofile leaves the
\* tombstones out, readfromfile puts the nodes where they were, and find stops
\* at the first empty bucket.
ReadBackExact ==
    pc = "free" =>
        \A i \in Nodes(buckets) :
            LET k == buckets[i].key
            IN  Lookup(Loaded(Written), bucketsz, k) = buckets[i].val <=> Crossed(k) = {}

\* The table implements a map: only set and erase change what is under a key,
\* each under its own key only and in one step, and rehash changes nothing.
ImplementsMap == Map!Spec
=============================================================================
