-------------------------------- MODULE Shard --------------------------------
(***************************************************************************)
(* One shard of KVStore: the table of values, as the map that HashTable    *)
(* implements, and LRU, a linked list of keys with a table of iterators    *)
(* into it.  Every operation holds the shard's lock to its end.            *)
(*                                                                         *)
(* A list node is a place in memory: erase gives it back and push_back may *)
(* take it again, so that an iterator left behind would point to another   *)
(* key's node.                                                             *)
(***************************************************************************)
EXTENDS Integers, Sequences, Functions

CONSTANTS
    Keys, Values,
    Places,     \* memory for list nodes
    None,       \* no value, no iterator, no key
    MaxSize     \* LRU::maxsz (Config::LRU_MAX_SIZE)

ASSUME NoneAssumption == None \notin Values /\ None \notin Places /\ None \notin Keys
ASSUME MaxSizeAssumption == MaxSize \in Nat \ {0}

VARIABLES
    data,       \* Shard::data
    lst,        \* LRU::lst: its nodes from front to back
    text,       \* the key in each node
    hash        \* LRU::hash: the iterator of each tracked key

vars == <<data, lst, text, hash>>
lru == <<lst, text, hash>>

Tracked(k) == hash[k] # None

\* readfromfile has filled the table and cleared the LRU.
Init ==
    /\ data \in [Keys -> Values \cup {None}]
    /\ lst = <<>>
    /\ text = [p \in Places |-> None]
    /\ hash = [k \in Keys |-> None]

-----------------------------------------------------------------------------
(* LRU.                                                                    *)

\* A list without its i-th node.
Erase(s, i) == SubSeq(s, 1, i - 1) \o SubSeq(s, i + 1, Len(s))

\* lst.erase of the node an iterator points to.
Without(p) == Erase(lst, CHOOSE i \in DOMAIN lst : lst[i] = p)

\* Faulty: the iterator is not replaced.
MoveToBackKeepsIterator(k) ==
    \E p \in Places \ Range(Without(hash[k])) :
        /\ lst' = Append(Without(hash[k]), p)
        /\ text' = [text EXCEPT ![hash[k]] = None, ![p] = k]
        /\ UNCHANGED hash

\* lst.erase, push_back and hash.set of a tracked key.
MoveToBack(k) ==
    \E p \in Places \ Range(Without(hash[k])) :
        /\ lst' = Append(Without(hash[k]), p)
        /\ text' = [text EXCEPT ![hash[k]] = None, ![p] = k]
        /\ hash' = [hash EXCEPT ![k] = p]

\* LRU::access.
Access(k) == IF Tracked(k) THEN MoveToBack(k) ELSE UNCHANGED lru

\* Faulty: a list that is too long loses the key used last.
TrackNewDropsLast(k) ==
    \E p \in Places \ Range(lst) :
        LET back == lst[Len(lst)] IN
        IF Len(lst) + 1 > MaxSize
        THEN /\ lst' = Append(Erase(lst, Len(lst)), p)
             /\ text' = [text EXCEPT ![back] = None, ![p] = k]
             /\ hash' = [hash EXCEPT ![text[back]] = None, ![k] = p]
        ELSE /\ lst' = Append(lst, p)
             /\ text' = [text EXCEPT ![p] = k]
             /\ hash' = [hash EXCEPT ![k] = p]

\* LRU::set of a key that is not tracked: push_back, then pop the front of a
\* list that is too long.
TrackNew(k) ==
    \E p \in Places \ Range(lst) :
        LET front == Head(lst) IN
        IF Len(lst) + 1 > MaxSize
        THEN /\ lst' = Append(Tail(lst), p)
             /\ text' = [text EXCEPT ![front] = None, ![p] = k]
             /\ hash' = [hash EXCEPT ![text[front]] = None, ![k] = p]
        ELSE /\ lst' = Append(lst, p)
             /\ text' = [text EXCEPT ![p] = k]
             /\ hash' = [hash EXCEPT ![k] = p]

LruSet(k) == IF Tracked(k) THEN MoveToBack(k) ELSE TrackNew(k)

\* LRU::del.
LruDel(k) ==
    IF Tracked(k)
    THEN /\ lst' = Without(hash[k])
         /\ text' = [text EXCEPT ![hash[k]] = None]
         /\ hash' = [hash EXCEPT ![k] = None]
    ELSE UNCHANGED lru

-----------------------------------------------------------------------------
(* KVStore.                                                                *)

Set(k, v) ==
    /\ data' = [data EXCEPT ![k] = v]
    /\ LruSet(k)

\* find throws out of the table of iterators when the key is not there and no
\* bucket is empty: the value is set and the key is not tracked.
SetThrows(k, v) ==
    /\ ~ Tracked(k)
    /\ data' = [data EXCEPT ![k] = v]
    /\ UNCHANGED lru

\* get and getValue.
Get(k) ==
    /\ data[k] # None
    /\ Access(k)
    /\ UNCHANGED data

\* As in SetThrows, the exception of LRU::del comes after data.erase, of a key
\* that is not tracked: nothing is left undone.
Del(k) ==
    /\ data[k] # None
    /\ data' = [data EXCEPT ![k] = None]
    /\ LruDel(k)

Next ==
    \E k \in Keys :
        \/ Get(k) \/ Del(k)
        \/ \E v \in Values : Set(k, v) \/ SetThrows(k, v)

Spec == Init /\ [][Next]_vars

-----------------------------------------------------------------------------
(* Properties.                                                             *)

\* The list never holds a node twice and never grows past maxsz.
TypeOK ==
    /\ data \in [Keys -> Values \cup {None}]
    /\ lst \in Seq(Places) /\ IsInjective(lst) /\ Len(lst) <= MaxSize
    /\ text \in [Places -> Keys \cup {None}]
    /\ hash \in [Keys -> Places \cup {None}]

\* Every iterator of the table points to a node of the list that holds its
\* key, and every node is reached by one: whatever memory push_back takes
\* again, LRU never erases another key's node or one that is gone.
IteratorsValid ==
    /\ \A k \in Keys : Tracked(k) => hash[k] \in Range(lst) /\ text[hash[k]] = k
    /\ \A p \in Range(lst) : text[p] # None /\ hash[text[p]] = p

\* A key that KVStore::del removed, or that never was set, is not tracked; the
\* converse fails for keys of a snapshot and for keys that LRU dropped.
TrackedIsStored == \A k \in Keys : Tracked(k) => data[k] # None

Order == INSTANCE LruOrder
             WITH order <- [i \in DOMAIN lst |-> text[lst[i]]]

\* The list with its iterators implements the order of last use: set and access
\* move a key to the back, and the key that goes is the least recently used.
ImplementsOrder == Order!Spec
=============================================================================
