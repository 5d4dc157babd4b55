--------------------------- MODULE HashTableProofs ---------------------------
(***************************************************************************)
(* Proofs that a hash table finds every key it holds, and that it          *)
(* implements a map, for every set of keys, every hash function and every  *)
(* initial size.                                                           *)
(*                                                                         *)
(* The inductive invariant says that no empty bucket lies between the      *)
(* bucket where the probe sequence of a key starts and the one that holds  *)
(* it, and that no key is in two buckets.  Tombstones are what keeps the   *)
(* first half true when keys are erased.                                   *)
(***************************************************************************)
EXTENDS HashTable, FiniteSetTheorems, WellFoundedInduction, TLAPS

-----------------------------------------------------------------------------
(* The invariant.                                                          *)

Full(x) == x.status = "OCCUPIED"

\* Every key can be reached: its probe sequence meets no empty bucket before it.
Reachable(b, n) ==
    \A i \in DOMAIN b :
        Full(b[i]) =>
            \E d \in 0 .. n - 1 :
                /\ Probe(n, b[i].key, d) = i
                /\ \A e \in 0 .. d - 1 : b[Probe(n, b[i].key, e)].status # "EMPTY"

\* No key is twice in b.
Unique(b) ==
    \A i, j \in DOMAIN b :
        (Full(b[i]) /\ Full(b[j]) /\ b[i].key = b[j].key) => i = j

\* No key is in the table and among the nodes still to move.
Apart ==
    \A i \in DOMAIN buckets, j \in DOMAIN old :
        (j >= from /\ Full(buckets[i]) /\ Full(old[j]))
            => buckets[i].key # old[j].key

Placed ==
    /\ TableTypes
    /\ pc # "swap" => Reachable(buckets, bucketsz)
    /\ Unique(buckets) /\ Unique(old) /\ Apart
    /\ pc = "mark" => Full(buckets[at])

\* sz counts the nodes of the table and those still to move, but for the node
\* that set has not counted yet, or that erase has not marked yet.
Left == {j \in Nodes(old) : j >= from}

Counted ==
    sz = Cardinality(Nodes(buckets)) + Cardinality(Left)
           - (IF pc \in {"count", "mark"} THEN 1 ELSE 0)

\* The load factor, exceeded by one node until the size has doubled.
Light == 4 * sz <= 3 * bucketsz + (IF pc = "double" THEN 4 ELSE 0)

\* A table that is being filled has no tombstone yet.
Clean == pc = "move" => \A i \in DOMAIN buckets : buckets[i].status # "DELETED"

IInv == Placed /\ sz \in Nat /\ Counted /\ Light /\ Clean

-----------------------------------------------------------------------------
(* Lemmas about find.                                                      *)

\* A set of probes has a first one.
LEMMA MinOfProbes ==
    ASSUME NEW S \in SUBSET Nat, S # {}
    PROVE  Min(S) \in S /\ \A i \in S : Min(S) <= i
<1>1. PICK m \in S : \A e \in S : <<e, m>> \notin OpToRel(<, Nat)
  BY WFMin, NatLessThanWellFounded, ZenonT(30)
<1>2. ASSUME NEW e \in S
      PROVE  m <= e
  <2>1. m \in Nat /\ e \in Nat
    OBVIOUS
  <2>2. ~ (e < m)
    BY <1>1, <2>1, ZenonT(30) DEF OpToRel
  <2>3. QED
    BY <2>1, <2>2
<1>3. QED
  BY <1>2, ZenonT(30) DEF Min

\* A probe stays within the table.
LEMMA ProbeInTable ==
    ASSUME NEW n \in Nat \ {0}, NEW k \in Keys, NEW d \in Nat
    PROVE  Probe(n, k, d) \in 0 .. n - 1
<1>1. Hash[k] + d \in Nat
  BY HashAssumption
<1>2. QED
  BY <1>1 DEF Probe

\* What is in a bucket.
LEMMA NodeShape ==
    ASSUME NEW x \in Node
    PROVE  /\ x.status \in {"EMPTY", "DELETED", "OCCUPIED"}
           /\ Full(x) => /\ x.key \in Keys /\ x.val \in Values
                         /\ x = Occupied(x.key, x.val)
  BY DEF Node, Empty, Deleted, Occupied, Full

\* When find returns, it returns a bucket on the probe sequence of the key that
\* no empty bucket precedes, and which holds the key or can take it.
LEMMA FindReached ==
    ASSUME NEW n \in Nat \ {0}, NEW b \in [0 .. n - 1 -> Node], NEW k \in Keys,
           ~ Throws(b, n, k)
    PROVE  /\ Find(b, n, k) \in 0 .. n - 1
           /\ \E d \in 0 .. n - 1 :
                  /\ Find(b, n, k) = Probe(n, k, d)
                  /\ \A e \in 0 .. d - 1 : b[Probe(n, k, e)].status # "EMPTY"
           /\ Holds(b[Find(b, n, k)], k) \/ ~ Full(b[Find(b, n, k)])
<1> DEFINE stop == Min(Stops(b, n, k))
           dels == {d \in 0 .. stop : b[Probe(n, k, d)].status = "DELETED"}
           here == Probe(n, k, stop)
<1>1. Stops(b, n, k) \in SUBSET Nat /\ Stops(b, n, k) # {}
  BY DEF Stops, Throws
<1>2. stop \in Stops(b, n, k) /\ \A i \in Stops(b, n, k) : stop <= i
  BY <1>1, MinOfProbes
<1>3. stop \in 0 .. n - 1 /\ (b[here].status = "EMPTY" \/ Holds(b[here], k))
  BY <1>2 DEF Stops
<1>4. ASSUME NEW e \in 0 .. stop - 1
      PROVE  b[Probe(n, k, e)].status # "EMPTY"
  <2>1. e \in 0 .. n - 1 /\ ~ (stop <= e)
    BY <1>3
  <2>2. e \notin Stops(b, n, k)
    BY <1>2, <2>1
  <2>3. QED
    BY <2>1, <2>2 DEF Stops
<1>5. CASE Holds(b[here], k) \/ dels = {}
  <2>1. Find(b, n, k) = here
    BY <1>5 DEF Find
  <2>2. here \in 0 .. n - 1
    BY <1>3, ProbeInTable
  <2>3. Holds(b[here], k) \/ ~ Full(b[here])
    BY <1>3 DEF Full
  <2>4. QED
    BY <1>3, <1>4, <2>1, <2>2, <2>3
<1>6. CASE ~ (Holds(b[here], k) \/ dels = {})
  <2> DEFINE d == Min(dels)
  <2>1. Find(b, n, k) = Probe(n, k, d)
    BY <1>6 DEF Find
  <2>2. dels \in SUBSET Nat /\ dels # {}
    BY <1>3, <1>6
  <2>3. d \in dels
    BY <2>2, MinOfProbes, ZenonT(30)
  <2>4. d \in 0 .. n - 1 /\ d <= stop /\ b[Probe(n, k, d)].status = "DELETED"
    BY <1>3, <2>3
  <2>5. \A e \in 0 .. d - 1 : b[Probe(n, k, e)].status # "EMPTY"
    BY <1>3, <1>4, <2>4
  <2>6. Probe(n, k, d) \in 0 .. n - 1
    BY <2>4, ProbeInTable
  <2>7. QED
    BY <2>1, <2>4, <2>5, <2>6, ZenonT(30) DEF Full
<1>7. QED
  BY <1>5, <1>6

\* In a table whose keys can be reached, find returns the bucket of each.
LEMMA FindHeld ==
    ASSUME NEW n \in Nat \ {0}, NEW b \in [0 .. n - 1 -> Node], NEW k \in Keys,
           Reachable(b, n), NEW i \in 0 .. n - 1, Holds(b[i], k)
    PROVE  /\ ~ Throws(b, n, k)
           /\ Holds(b[Find(b, n, k)], k)
<1> DEFINE stop == Min(Stops(b, n, k))
           here == Probe(n, k, stop)
<1>1. PICK d \in 0 .. n - 1 :
          /\ Probe(n, k, d) = i
          /\ \A e \in 0 .. d - 1 : b[Probe(n, k, e)].status # "EMPTY"
  <2>1. i \in DOMAIN b /\ Full(b[i]) /\ b[i].key = k
    BY DEF Holds, Full
  <2>2. QED
    BY <2>1 DEF Reachable
<1>2. d \in Stops(b, n, k)
  BY <1>1 DEF Stops
<1>3. Stops(b, n, k) \in SUBSET Nat /\ Stops(b, n, k) # {}
  BY <1>2 DEF Stops
<1>4. stop \in Stops(b, n, k) /\ stop <= d
  BY <1>2, <1>3, MinOfProbes
<1>5. stop \in 0 .. n - 1 /\ (b[here].status = "EMPTY" \/ Holds(b[here], k))
  BY <1>4 DEF Stops
<1>6. Holds(b[here], k)
  <2>1. CASE stop = d
    BY <1>1, <2>1
  <2>2. CASE stop # d
    <3>1. stop \in 0 .. d - 1
      BY <1>4, <1>5, <2>2
    <3>2. QED
      BY <1>1, <1>5, <3>1
  <2>3. QED
    BY <2>1, <2>2
<1>7. Find(b, n, k) = here
  BY <1>6 DEF Find
<1>8. QED
  BY <1>3, <1>6, <1>7 DEF Throws

-----------------------------------------------------------------------------
(* Each operation keeps the invariant.                                     *)

\* A node that takes a bucket find returned for a key which is not in the table
\* leaves every key where its probe sequence reaches it, and each key once.
LEMMA NewNode ==
    ASSUME NEW n \in Nat \ {0}, NEW b \in [0 .. n - 1 -> Node], NEW k \in Keys,
           NEW v \in Values, Reachable(b, n), Unique(b), ~ Throws(b, n, k),
           \A i \in 0 .. n - 1 : ~ Holds(b[i], k)
    PROVE  LET c == [b EXCEPT ![Find(b, n, k)] = Occupied(k, v)]
           IN  /\ c \in [0 .. n - 1 -> Node]
               /\ Reachable(c, n) /\ Unique(c)
<1> DEFINE p == Find(b, n, k)
           c == [b EXCEPT ![p] = Occupied(k, v)]
<1>1. p \in 0 .. n - 1 /\ ~ Full(b[p])
  BY FindReached
<1>2. PICK d \in 0 .. n - 1 :
          /\ p = Probe(n, k, d)
          /\ \A e \in 0 .. d - 1 : b[Probe(n, k, e)].status # "EMPTY"
  BY FindReached
<1>3. c \in [0 .. n - 1 -> Node]
  <2>1. Occupied(k, v) \in Node
    BY DEF Node
  <2>2. QED
    BY <2>1, ZenonT(30)
<1>4. /\ c[p] = Occupied(k, v)
      /\ \A i \in 0 .. n - 1 : i # p => c[i] = b[i]
      /\ \A i \in 0 .. n - 1 : b[i].status # "EMPTY" => c[i].status # "EMPTY"
  BY <1>1 DEF Occupied
<1> HIDE DEF c
<1>5. Reachable(c, n)
  <2> SUFFICES ASSUME NEW i \in 0 .. n - 1, Full(c[i])
               PROVE  \E f \in 0 .. n - 1 :
                          /\ Probe(n, c[i].key, f) = i
                          /\ \A e \in 0 .. f - 1 :
                                 c[Probe(n, c[i].key, e)].status # "EMPTY"
    BY <1>3 DEF Reachable
  <2>1. CASE i = p
    <3>1. c[i].key = k
      BY <1>4, <2>1 DEF Occupied
    <3>2. \A e \in Nat : Probe(n, k, e) \in 0 .. n - 1
      BY ProbeInTable
    <3>3. ASSUME NEW e \in 0 .. d - 1
          PROVE  c[Probe(n, k, e)].status # "EMPTY"
      <4>0. e \in Nat
        OBVIOUS
      <4>1. Probe(n, k, e) \in 0 .. n - 1
        BY <3>2, <4>0, SMTT(30)
      <4>2. QED
        BY <1>2, <1>4, <4>1
    <3>4. QED
      BY <1>2, <2>1, <3>1, <3>3
  <2>2. CASE i # p
    <3>1. c[i] = b[i] /\ Full(b[i]) /\ b[i].key \in Keys
      BY <1>4, <2>2, NodeShape
    <3>2. PICK f \in 0 .. n - 1 :
              /\ Probe(n, b[i].key, f) = i
              /\ \A e \in 0 .. f - 1 : b[Probe(n, b[i].key, e)].status # "EMPTY"
      BY <3>1, SMTT(30) DEF Reachable
    <3>3. \A e \in Nat : Probe(n, b[i].key, e) \in 0 .. n - 1
      BY <3>1, ProbeInTable, ZenonT(30)
    <3>4. ASSUME NEW e \in 0 .. f - 1
          PROVE  c[Probe(n, b[i].key, e)].status # "EMPTY"
      <4>0. e \in Nat
        OBVIOUS
      <4>1. Probe(n, b[i].key, e) \in 0 .. n - 1
        BY <3>3, <4>0, SMTT(30)
      <4>2. QED
        BY <1>4, <3>2, <4>1
    <3>5. QED
      BY <3>1, <3>2, <3>4
  <2>3. QED
    BY <2>1, <2>2
<1>6. Unique(c)
  <2> SUFFICES ASSUME NEW i \in 0 .. n - 1, NEW j \in 0 .. n - 1,
                      Full(c[i]), Full(c[j]), c[i].key = c[j].key
               PROVE  i = j
    BY <1>3 DEF Unique
  <2>1. c[p].key = k
    BY <1>4 DEF Occupied
  <2>2. \A m \in 0 .. n - 1 : m # p /\ Full(c[m]) => c[m].key # k
    BY <1>4 DEF Holds, Full
  <2>3. CASE i # p /\ j # p
    BY <1>4, <2>3 DEF Unique
  <2>4. QED
    BY <2>1, <2>2, <2>3
<1>7. QED
  BY <1>3, <1>5, <1>6 DEF c

\* A node that keeps its key, or becomes a tombstone, cuts no probe sequence.
LEMMA KeptNode ==
    ASSUME NEW n \in Nat \ {0}, NEW b \in [0 .. n - 1 -> Node],
           Reachable(b, n), Unique(b),
           NEW p \in 0 .. n - 1, Full(b[p]), NEW x \in Node,
           x = Deleted \/ (Full(x) /\ x.key = b[p].key)
    PROVE  LET c == [b EXCEPT ![p] = x]
           IN  /\ c \in [0 .. n - 1 -> Node]
               /\ Reachable(c, n) /\ Unique(c)
<1> DEFINE c == [b EXCEPT ![p] = x]
<1>1. c \in [0 .. n - 1 -> Node]
  OBVIOUS
<1>2. /\ \A i \in 0 .. n - 1 : Full(c[i]) => Full(b[i]) /\ c[i].key = b[i].key
      /\ \A i \in 0 .. n - 1 : b[i].status # "EMPTY" => c[i].status # "EMPTY"
  BY DEF Deleted, Full
<1> HIDE DEF c
<1>3. Reachable(c, n)
  <2> SUFFICES ASSUME NEW i \in 0 .. n - 1, Full(c[i])
               PROVE  \E f \in 0 .. n - 1 :
                          /\ Probe(n, c[i].key, f) = i
                          /\ \A e \in 0 .. f - 1 :
                                 c[Probe(n, c[i].key, e)].status # "EMPTY"
    BY <1>1 DEF Reachable
  <2>1. Full(b[i]) /\ c[i].key = b[i].key /\ b[i].key \in Keys
    BY <1>2, NodeShape
  <2>2. PICK f \in 0 .. n - 1 :
            /\ Probe(n, b[i].key, f) = i
            /\ \A e \in 0 .. f - 1 : b[Probe(n, b[i].key, e)].status # "EMPTY"
    BY <2>1 DEF Reachable
  <2>3. \A e \in 0 .. f - 1 : Probe(n, b[i].key, e) \in 0 .. n - 1
    BY <2>1, ProbeInTable
  <2>4. QED
    BY <1>2, <2>1, <2>2, <2>3
<1>4. Unique(c)
  BY <1>1, <1>2 DEF Unique
<1>5. QED
  BY <1>1, <1>3, <1>4 DEF c

\* A new table is empty.
LEMMA InitPlaced == Init => Placed
<1> SUFFICES ASSUME Init
             PROVE  Placed
  OBVIOUS
<1>1. buckets \in [0 .. Initial - 1 -> Node] /\ old \in [0 .. -1 -> Node]
  BY DEF Init, EmptyTable, Node
<1>2. TableTypes
  BY <1>1, InitialAssumption DEF Init, TableTypes
<1>3. \A i \in DOMAIN buckets : ~ Full(buckets[i])
  BY DEF Init, EmptyTable, Empty, Full
<1>4. DOMAIN old = {}
  BY DEF Init, EmptyTable
<1>5. QED
  BY <1>2, <1>3, <1>4 DEF Init, Placed, Reachable, Unique, Apart

\* A key that Lookup does not see is not in a table whose keys can be reached.
LEMMA NotThere ==
    ASSUME Placed, pc \in {"free", "move"}, NEW k \in Keys,
           Lookup(buckets, bucketsz, k) = None
    PROVE  \A i \in 0 .. bucketsz - 1 : ~ Holds(buckets[i], k)
<1> SUFFICES ASSUME NEW i \in 0 .. bucketsz - 1, Holds(buckets[i], k)
             PROVE  FALSE
  OBVIOUS
<1> DEFINE p == Find(buckets, bucketsz, k)
<1>1. /\ bucketsz \in Nat \ {0} /\ buckets \in [0 .. bucketsz - 1 -> Node]
      /\ Reachable(buckets, bucketsz)
  BY DEF Placed, TableTypes
<1>2. ~ Throws(buckets, bucketsz, k) /\ Holds(buckets[p], k)
  BY <1>1, FindHeld
<1>3. p \in 0 .. bucketsz - 1
  BY <1>1, <1>2, FindReached
<1>4. buckets[p].val \in Values
  BY <1>1, <1>2, <1>3, NodeShape DEF Holds, Full
<1>5. QED
  BY <1>2, <1>4, NoneAssumption DEF Lookup, Holds

\* Every operation, and every step of one, keeps the invariant.
LEMMA PlacedStep == Placed /\ [Next]_vars => Placed'
<1> SUFFICES ASSUME Placed, [Next]_vars
             PROVE  Placed'
  OBVIOUS
<1> USE DEF Step
<1>1. bucketsz \in Nat \ {0}
  BY DEF Placed, TableTypes
<1>2. ASSUME NEW k \in Keys, NEW v \in Values, SetValue(k, v)
      PROVE  Placed'
  <2> DEFINE p == Find(buckets, bucketsz, k)
             x == Occupied(k, v)
  <2>1. /\ buckets \in [0 .. bucketsz - 1 -> Node]
        /\ Reachable(buckets, bucketsz) /\ Unique(buckets)
    BY <1>2 DEF SetValue, Placed, TableTypes
  <2>2. p \in 0 .. bucketsz - 1 /\ Holds(buckets[p], k)
    <3>1. p \in 0 .. bucketsz - 1 /\ (Holds(buckets[p], k) \/ ~ Full(buckets[p]))
      BY <1>1, <1>2, <2>1, FindReached DEF SetValue
    <3>2. Full(buckets[p])
      BY <1>2 DEF SetValue, Lookup, Full
    <3>3. QED
      BY <3>1, <3>2
  <2>3. buckets' = [buckets EXCEPT ![p] = x]
    <3>1. buckets[p] = Occupied(k, buckets[p].val)
      BY <2>1, <2>2, NodeShape DEF Holds, Full
    <3>2. [buckets[p] EXCEPT !.val = v] = x
      BY <3>1 DEF Occupied
    <3>3. buckets' = [buckets EXCEPT ![p] = [buckets[p] EXCEPT !.val = v]]
      BY <1>2, <2>1, <2>2 DEF SetValue
    <3>4. QED
      BY <3>2, <3>3, ZenonT(30)
  <2>4. x \in Node /\ Full(x) /\ x.key = buckets[p].key /\ Full(buckets[p])
    BY <2>2 DEF Node, Occupied, Full, Holds
  <2>5. /\ buckets' \in [0 .. bucketsz - 1 -> Node]
        /\ Reachable(buckets', bucketsz) /\ Unique(buckets')
    BY <1>1, <2>1, <2>2, <2>3, <2>4, KeptNode, ZenonT(30)
  <2>6. UNCHANGED <<bucketsz, sz, at, old, from>> /\ pc = "free" /\ pc' = "free"
    BY <1>2 DEF SetValue
  <2>7. DOMAIN old = {}
    BY <2>6 DEF Placed, TableTypes
  <2>8. TableTypes'
    BY <2>5, <2>6 DEF Placed, TableTypes
  <2>9. QED
    BY <2>5, <2>6, <2>7, <2>8 DEF Placed, Apart, Unique
<1>3. ASSUME NEW k \in Keys, NEW v \in Values, SetNode(k, v)
      PROVE  Placed'
  <2>1. /\ buckets \in [0 .. bucketsz - 1 -> Node]
        /\ Reachable(buckets, bucketsz) /\ Unique(buckets)
    BY <1>3 DEF SetNode, Placed, TableTypes
  <2>2. \A i \in 0 .. bucketsz - 1 : ~ Holds(buckets[i], k)
    BY <1>3, NotThere DEF SetNode
  <2>3. ~ Throws(buckets, bucketsz, k)
    BY <1>3 DEF SetNode
  <2>4. buckets' = [buckets EXCEPT ![Find(buckets, bucketsz, k)] = Occupied(k, v)]
    BY <1>3 DEF SetNode
  <2>5. /\ buckets' \in [0 .. bucketsz - 1 -> Node]
        /\ Reachable(buckets', bucketsz) /\ Unique(buckets')
    BY <1>1, <2>1, <2>2, <2>3, <2>4, NewNode, ZenonT(30)
  <2>6. UNCHANGED <<bucketsz, sz, at, old, from>> /\ pc = "free" /\ pc' = "count"
    BY <1>3 DEF SetNode
  <2>7. DOMAIN old = {}
    BY <2>6 DEF Placed, TableTypes
  <2>8. TableTypes'
    BY <2>5, <2>6 DEF Placed, TableTypes
  <2>9. QED
    BY <2>5, <2>6, <2>7, <2>8 DEF Placed, Apart, Unique
<1>4. ASSUME SetCount
      PROVE  Placed'
  <2>1. /\ UNCHANGED <<buckets, bucketsz, at, old, from>>
        /\ pc = "count" /\ pc' \in {"double", "free"}
    BY <1>1, <1>4 DEF SetCount
  <2>2. TableTypes'
    BY <2>1 DEF Placed, TableTypes
  <2>3. QED
    BY <2>1, <2>2 DEF Placed, Apart, Unique, Reachable
<1>5. ASSUME RehashDouble
      PROVE  Placed'
  <2>1. /\ UNCHANGED <<buckets, sz, at, old, from>> /\ bucketsz' = 2 * bucketsz
        /\ pc = "double" /\ pc' = "swap"
    BY <1>5 DEF RehashDouble
  <2>2. bucketsz' \in Nat \ {0} /\ bucketsz' % 2 = 0 /\ bucketsz' \div 2 = bucketsz
    BY <1>1, <2>1
  <2>3. TableTypes'
    BY <2>1, <2>2 DEF Placed, TableTypes
  <2>4. QED
    BY <2>1, <2>3 DEF Placed, Apart, Unique
<1>6. ASSUME RehashSwap
      PROVE  Placed'
  <2>1. /\ UNCHANGED <<bucketsz, sz, at>> /\ buckets' = EmptyTable(bucketsz)
        /\ old' = buckets /\ from' = 0 /\ pc = "swap" /\ pc' = "move"
    BY <1>6 DEF RehashSwap
  <2>2. /\ buckets' \in [0 .. bucketsz - 1 -> Node]
        /\ \A i \in 0 .. bucketsz - 1 : ~ Full(buckets'[i])
    BY <2>1 DEF EmptyTable, Empty, Node, Full
  <2>3. /\ bucketsz % 2 = 0 /\ bucketsz \div 2 \in Nat
        /\ bucketsz \div 2 <= bucketsz /\ 0 < bucketsz \div 2
        /\ old' \in [0 .. bucketsz \div 2 - 1 -> Node]
        /\ at \in 0 .. bucketsz \div 2 - 1
    <3>1. bucketsz % 2 = 0 /\ buckets \in [0 .. bucketsz \div 2 - 1 -> Node]
          /\ at \in DOMAIN buckets
      BY <2>1 DEF Placed, TableTypes
    <3>2. QED
      BY <1>1, <2>1, <3>1
  <2>4. TableTypes'
    BY <1>1, <2>1, <2>2, <2>3 DEF TableTypes
  <2>5. Unique(old') /\ Unique(buckets') /\ Reachable(buckets', bucketsz')
    BY <2>1, <2>2 DEF Placed, Unique, Reachable
  <2>6. Apart'
    BY <2>2 DEF Apart
  <2>7. QED
    BY <2>1, <2>4, <2>5, <2>6 DEF Placed
<1>7. ASSUME RehashMove
      PROVE  Placed'
  <2> DEFINE x == old[from]
             half == bucketsz \div 2
             last == from + 1 = half
  <2>1. /\ pc = "move" /\ pc' = IF last THEN "free" ELSE "move"
        /\ from' = IF last THEN 0 ELSE from + 1
        /\ old' = IF last THEN EmptyTable(0) ELSE old
        /\ UNCHANGED <<bucketsz, sz, at>>
    BY <1>7 DEF RehashMove
  <2>2. /\ buckets \in [0 .. bucketsz - 1 -> Node] /\ old \in [0 .. half - 1 -> Node]
        /\ from \in 0 .. half - 1 /\ bucketsz % 2 = 0 /\ half \in Nat
        /\ at \in 0 .. bucketsz - 1
        /\ Reachable(buckets, bucketsz) /\ Unique(buckets) /\ Unique(old)
    BY <1>1, <2>1 DEF Placed, TableTypes
  <2>3. /\ buckets' \in [0 .. bucketsz - 1 -> Node]
        /\ Reachable(buckets', bucketsz) /\ Unique(buckets')
        /\ \A i \in 0 .. bucketsz - 1 :
               Full(buckets'[i]) => \/ Full(buckets[i]) /\ buckets'[i] = buckets[i]
                                    \/ Full(x) /\ buckets'[i].key = x.key
    <3>1. CASE Full(x)
      <4>1. PICK k \in Keys, v \in Values : x = Occupied(k, v)
        BY <2>2, <3>1, NodeShape
      <4>2. x.key = k
        BY <4>1 DEF Occupied
      <4> DEFINE p == Find(buckets, bucketsz, k)
      <4>3. \A i \in 0 .. bucketsz - 1 : ~ Holds(buckets[i], k)
        BY <2>2, <3>1, <4>2 DEF Placed, Apart, Holds, Full
      <4>4. ~ Throws(buckets, bucketsz, k) /\ buckets' = [buckets EXCEPT ![p] = x]
        BY <1>7, <3>1, <4>2 DEF RehashMove, Full
      <4>5. buckets' = [buckets EXCEPT ![p] = Occupied(k, v)]
        BY <4>1, <4>4
      <4>6. /\ buckets' \in [0 .. bucketsz - 1 -> Node]
            /\ Reachable(buckets', bucketsz) /\ Unique(buckets')
        <5>1. ~ Throws(buckets, bucketsz, k)
          BY <4>4
        <5>2. /\ buckets \in [0 .. bucketsz - 1 -> Node]
              /\ Reachable(buckets, bucketsz) /\ Unique(buckets)
          BY <2>2
        <5>3. LET c == [buckets EXCEPT ![Find(buckets, bucketsz, k)] = Occupied(k, v)]
              IN  /\ c \in [0 .. bucketsz - 1 -> Node]
                  /\ Reachable(c, bucketsz) /\ Unique(c)
          BY <1>1, <4>3, <5>1, <5>2, NewNode, ZenonT(30)
        <5>4. QED
          BY <4>5, <5>3
      <4>7. QED
        BY <2>2, <3>1, <4>4, <4>6
    <3>2. CASE ~ Full(x)
      <4>1. buckets' = buckets
        BY <1>7, <3>2 DEF RehashMove, Full
      <4>2. QED
        BY <2>2, <4>1
    <3>3. QED
      BY <3>1, <3>2
  <2>4. CASE last
    <3>1. DOMAIN old' = {} /\ old' \in [0 .. -1 -> Node]
      BY <2>1, <2>4 DEF EmptyTable
    <3>2. TableTypes'
      BY <1>1, <2>1, <2>2, <2>3, <2>4, <3>1 DEF TableTypes
    <3>3. Unique(old') /\ Apart'
      BY <3>1 DEF Unique, Apart
    <3>4. QED
      BY <2>1, <2>3, <2>4, <3>2, <3>3 DEF Placed, Unique
  <2>5. CASE ~ last
    <3>1. /\ old' = old /\ from' = from + 1 /\ pc' = "move"
          /\ from' \in 0 .. half - 1
      BY <2>1, <2>2, <2>5
    <3>2. TableTypes'
      BY <1>1, <2>1, <2>2, <2>3, <3>1 DEF TableTypes
    <3>3. Apart'
      <4> SUFFICES ASSUME NEW i \in 0 .. bucketsz - 1, NEW j \in 0 .. half - 1,
                          j >= from + 1, Full(buckets'[i]), Full(old[j])
                   PROVE  buckets'[i].key # old[j].key
        BY <2>2, <2>3, <3>1 DEF Apart
      <4>1. j \in DOMAIN old /\ j >= from /\ j # from /\ from \in DOMAIN old
        BY <2>2
      <4>2. CASE Full(buckets[i]) /\ buckets'[i] = buckets[i]
        BY <2>2, <4>1, <4>2 DEF Placed, Apart
      <4>3. CASE Full(x) /\ buckets'[i].key = x.key
        BY <2>2, <4>1, <4>3 DEF Unique
      <4>4. QED
        BY <2>3, <4>2, <4>3
    <3>4. QED
      BY <2>1, <2>2, <2>3, <3>1, <3>2, <3>3 DEF Placed, Unique
  <2>6. QED
    BY <2>4, <2>5
<1>8. ASSUME NEW k \in Keys, EraseCount(k)
      PROVE  Placed'
  <2> DEFINE p == Find(buckets, bucketsz, k)
  <2>1. /\ UNCHANGED <<buckets, bucketsz, old, from>>
        /\ at' = p /\ pc = "free" /\ pc' = "mark"
    BY <1>8 DEF EraseCount
  <2>2. buckets \in [0 .. bucketsz - 1 -> Node]
    BY <2>1 DEF Placed, TableTypes
  <2>3. p \in 0 .. bucketsz - 1 /\ Full(buckets[p])
    <3>1. p \in 0 .. bucketsz - 1
      BY <1>1, <1>8, <2>2, FindReached DEF EraseCount
    <3>2. QED
      BY <1>8, <3>1 DEF EraseCount, Lookup, Full
  <2>4. TableTypes'
    BY <2>1, <2>2, <2>3 DEF Placed, TableTypes
  <2>5. QED
    BY <2>1, <2>3, <2>4 DEF Placed, Unique, Apart, Reachable
<1>9. ASSUME EraseMark
      PROVE  Placed'
  <2>1. /\ UNCHANGED <<bucketsz, old, from>> /\ pc = "mark" /\ pc' = "free"
        /\ buckets' = [buckets EXCEPT ![at] = Deleted] /\ at' = 0
    BY <1>9 DEF EraseMark
  <2>2. /\ buckets \in [0 .. bucketsz - 1 -> Node] /\ at \in 0 .. bucketsz - 1
        /\ Full(buckets[at]) /\ Reachable(buckets, bucketsz) /\ Unique(buckets)
    BY <2>1 DEF Placed, TableTypes
  <2>3. Deleted \in Node
    BY DEF Node
  <2>4. /\ buckets' \in [0 .. bucketsz - 1 -> Node]
        /\ Reachable(buckets', bucketsz) /\ Unique(buckets')
    <3> DEFINE x == Deleted
    <3>1. x \in Node /\ (x = Deleted \/ (Full(x) /\ x.key = buckets[at].key))
      BY <2>3
    <3>2. buckets' = [buckets EXCEPT ![at] = x]
      BY <2>1
    <3> HIDE DEF x
    <3>3. LET c == [buckets EXCEPT ![at] = x]
          IN  /\ c \in [0 .. bucketsz - 1 -> Node]
              /\ Reachable(c, bucketsz) /\ Unique(c)
      BY <1>1, <2>2, <3>1, KeptNode, ZenonT(30)
    <3>4. QED
      BY <3>2, <3>3
  <2>5. DOMAIN old = {} /\ 0 \in 0 .. bucketsz - 1
    BY <1>1, <2>1 DEF Placed, TableTypes
  <2>6. TableTypes'
    BY <2>1, <2>4, <2>5 DEF Placed, TableTypes
  <2>7. QED
    BY <2>1, <2>4, <2>5, <2>6 DEF Placed, Apart, Unique
<1>10. CASE UNCHANGED vars
  BY <1>10 DEF vars, Placed, TableTypes, Unique, Apart, Reachable
<1>11. QED
  BY <1>2, <1>3, <1>4, <1>5, <1>6, <1>7, <1>8, <1>9, <1>10 DEF Next, FindThrows

-----------------------------------------------------------------------------
(* Counting.                                                               *)

\* The nodes of a table can be counted.
LEMMA NodesFinite ==
    ASSUME NEW n \in Nat, NEW b \in [0 .. n - 1 -> Node]
    PROVE  /\ Nodes(b) \subseteq 0 .. n - 1
           /\ IsFiniteSet(Nodes(b)) /\ Cardinality(Nodes(b)) \in Nat
<1>1. Nodes(b) \in SUBSET (0 .. n - 1)
  BY DEF Nodes
<1>2. IsFiniteSet(0 .. n - 1)
  BY FS_Interval
<1>3. IsFiniteSet(Nodes(b))
  BY <1>1, <1>2, FS_Subset
<1>4. QED
  BY <1>1, <1>3, FS_CardinalityType

\* A bucket that becomes occupied adds one node.
LEMMA OneMore ==
    ASSUME NEW n \in Nat, NEW b \in [0 .. n - 1 -> Node], NEW p \in 0 .. n - 1,
           NEW x \in Node, Full(x), ~ Full(b[p])
    PROVE  Cardinality(Nodes([b EXCEPT ![p] = x])) = Cardinality(Nodes(b)) + 1
<1>1. p \notin Nodes(b) /\ Nodes([b EXCEPT ![p] = x]) = Nodes(b) \cup {p}
  BY DEF Nodes, Full
<1>2. QED
  BY <1>1, NodesFinite, FS_AddElement, ZenonT(30)

\* A bucket that becomes a tombstone takes one away.
LEMMA OneLess ==
    ASSUME NEW n \in Nat, NEW b \in [0 .. n - 1 -> Node], NEW p \in 0 .. n - 1,
           Full(b[p])
    PROVE  Cardinality(Nodes([b EXCEPT ![p] = Deleted])) = Cardinality(Nodes(b)) - 1
<1>1. p \in Nodes(b) /\ Nodes([b EXCEPT ![p] = Deleted]) = Nodes(b) \ {p}
  BY DEF Nodes, Full, Deleted
<1>2. QED
  BY <1>1, NodesFinite, FS_RemoveElement, ZenonT(30)

\* Unless a rehash is under way, no node is left to move.
LEMMA NothingLeft ==
    ASSUME Placed, pc # "move"
    PROVE  Cardinality(Left) = 0
<1>1. Left = {}
  BY DEF Placed, TableTypes, Left, Nodes
<1>2. QED
  BY <1>1, FS_EmptySet

\* A new table holds nothing.
LEMMA InitCounted == Init => sz \in Nat /\ Counted /\ Light /\ Clean
<1> SUFFICES ASSUME Init
             PROVE  sz \in Nat /\ Counted /\ Light /\ Clean
  OBVIOUS
<1>1. Nodes(buckets) = {} /\ Left = {}
  BY DEF Init, EmptyTable, Empty, Nodes, Left
<1>2. Counted
  BY <1>1, FS_EmptySet DEF Init, Counted
<1>3. QED
  BY <1>2, InitialAssumption DEF Init, Light, Clean

\* Every step keeps the count.
LEMMA CountedStep == IInv /\ [Next]_vars => sz' \in Nat /\ Counted'
<1> SUFFICES ASSUME IInv, [Next]_vars
             PROVE  sz' \in Nat /\ Counted'
  OBVIOUS
<1> USE DEF Step
<1>1. bucketsz \in Nat \ {0} /\ sz \in Nat /\ Placed /\ Counted
  BY DEF IInv, Placed, TableTypes
<1>2. Placed'
  BY PlacedStep DEF IInv
<1>3. CASE \E k \in Keys, v \in Values : SetValue(k, v)
  <2>1. PICK k \in Keys, v \in Values : SetValue(k, v)
    BY <1>3
  <2> DEFINE p == Find(buckets, bucketsz, k)
  <2>2. /\ buckets \in [0 .. bucketsz - 1 -> Node]
        /\ UNCHANGED <<bucketsz, sz, old, from>> /\ pc = "free" /\ pc' = "free"
        /\ buckets' = [buckets EXCEPT ![p].val = v]
    BY <1>1, <2>1 DEF SetValue, Placed, TableTypes
  <2>3. p \in 0 .. bucketsz - 1 /\ Full(buckets[p])
    <3>1. p \in 0 .. bucketsz - 1
      BY <1>1, <2>1, <2>2, FindReached DEF SetValue
    <3>2. QED
      BY <2>1, <3>1 DEF SetValue, Lookup, Full
  <2>4. Nodes(buckets') = Nodes(buckets)
    <3>1. buckets'[p].status = "OCCUPIED"
      <4>1. buckets[p] = Occupied(buckets[p].key, buckets[p].val)
        BY <2>2, <2>3, NodeShape
      <4>2. buckets'[p] = [buckets[p] EXCEPT !.val = v]
        BY <2>2, <2>3
      <4>3. QED
        BY <4>1, <4>2 DEF Occupied
    <3>2. \A i \in 0 .. bucketsz - 1 : i # p => buckets'[i] = buckets[i]
      BY <2>2, <2>3
    <3>3. DOMAIN buckets' = 0 .. bucketsz - 1 /\ DOMAIN buckets = 0 .. bucketsz - 1
      BY <2>2
    <3>4. QED
      BY <2>3, <3>1, <3>2, <3>3 DEF Nodes, Full
  <2>5. QED
    BY <1>1, <2>2, <2>4 DEF Counted, Left
<1>4. CASE \E k \in Keys, v \in Values : SetNode(k, v)
  <2>1. PICK k \in Keys, v \in Values : SetNode(k, v)
    BY <1>4
  <2> DEFINE p == Find(buckets, bucketsz, k)
             x == Occupied(k, v)
  <2>2. /\ buckets \in [0 .. bucketsz - 1 -> Node]
        /\ UNCHANGED <<bucketsz, sz, old, from>> /\ pc = "free" /\ pc' = "count"
        /\ buckets' = [buckets EXCEPT ![p] = x]
    BY <1>1, <2>1 DEF SetNode, Placed, TableTypes
  <2>3. p \in 0 .. bucketsz - 1 /\ ~ Full(buckets[p])
    <3>1. p \in 0 .. bucketsz - 1 /\ (Holds(buckets[p], k) \/ ~ Full(buckets[p]))
      BY <1>1, <2>1, <2>2, FindReached DEF SetNode
    <3>2. ~ Holds(buckets[p], k)
      BY <1>1, <2>1, <2>2, <3>1, NotThere DEF SetNode
    <3>3. QED
      BY <3>1, <3>2
  <2>4. x \in Node /\ Full(x)
    BY DEF Node, Occupied, Full
  <2>5. Cardinality(Nodes(buckets')) = Cardinality(Nodes(buckets)) + 1
    BY <1>1, <2>2, <2>3, <2>4, OneMore, ZenonT(30)
  <2>6. Cardinality(Nodes(buckets)) \in Nat /\ Cardinality(Left) = 0 /\ Left' = Left
    BY <1>1, <2>2, NodesFinite, NothingLeft DEF Left
  <2>7. QED
    BY <1>1, <2>2, <2>5, <2>6 DEF Counted
<1>5. CASE SetCount \/ RehashDouble
  <2>1. /\ UNCHANGED <<buckets, old, from>>
        /\ \/ pc = "count" /\ pc' \in {"double", "free"} /\ sz' = sz + 1
           \/ pc = "double" /\ pc' = "swap" /\ sz' = sz
    BY <1>5 DEF SetCount, RehashDouble
  <2>2. Cardinality(Nodes(buckets)) \in Nat /\ Cardinality(Left) = 0
    BY <1>1, <2>1, NodesFinite, NothingLeft DEF Placed, TableTypes
  <2>3. QED
    BY <1>1, <2>1, <2>2 DEF Counted, Left
<1>6. CASE RehashSwap
  <2>1. /\ buckets' = EmptyTable(bucketsz) /\ old' = buckets /\ from' = 0
        /\ pc = "swap" /\ pc' = "move" /\ sz' = sz
    BY <1>6 DEF RehashSwap
  <2>2. Nodes(buckets') = {} /\ Left' = Nodes(buckets)
    BY <1>1, <2>1 DEF EmptyTable, Empty, Nodes, Left, Placed, TableTypes
  <2>3. Cardinality(Left) = 0 /\ Cardinality(Nodes(buckets')) = 0
    BY <1>1, <2>1, <2>2, NothingLeft, FS_EmptySet
  <2>4. Cardinality(Nodes(buckets)) \in Nat
    <3>1. bucketsz \div 2 \in Nat /\ buckets \in [0 .. bucketsz \div 2 - 1 -> Node]
      BY <1>1, <2>1 DEF Placed, TableTypes
    <3>2. QED
      BY <3>1, NodesFinite
  <2>5. QED
    BY <1>1, <2>1, <2>2, <2>3, <2>4 DEF Counted
<1>7. CASE RehashMove
  <2> DEFINE x == old[from]
             half == bucketsz \div 2
             last == from + 1 = half
  <2>1. /\ pc = "move" /\ pc' \in {"free", "move"} /\ sz' = sz
        /\ from' = IF last THEN 0 ELSE from + 1
        /\ old' = IF last THEN EmptyTable(0) ELSE old
    BY <1>7 DEF RehashMove
  <2>2. /\ buckets \in [0 .. bucketsz - 1 -> Node] /\ old \in [0 .. half - 1 -> Node]
        /\ from \in 0 .. half - 1 /\ half \in Nat
    BY <1>1, <2>1 DEF Placed, TableTypes
  <2>3. IsFiniteSet(Left) /\ Cardinality(Left) \in Nat
    <3>1. IsFiniteSet(Nodes(old)) /\ Left \in SUBSET Nodes(old)
      BY <2>2, NodesFinite DEF Left
    <3>2. IsFiniteSet(Left)
      BY <3>1, FS_Subset
    <3>3. QED
      BY <3>2, FS_CardinalityType
  <2>4. Left' = Left \ {from}
    <3>1. CASE last
      <4>1. Left' = {}
        BY <2>1, <3>1 DEF Left, Nodes, EmptyTable
      <4>2. Left \subseteq {from}
        BY <2>2, <3>1 DEF Left, Nodes
      <4>3. QED
        BY <4>1, <4>2
    <3>2. CASE ~ last
      <4>1. old' = old /\ from' = from + 1
        BY <2>1, <3>2
      <4>2. \A j \in 0 .. half - 1 : j >= from + 1 <=> (j >= from /\ j # from)
        BY <2>2
      <4>3. QED
        BY <2>2, <4>1, <4>2 DEF Left, Nodes
    <3>3. QED
      BY <3>1, <3>2
  <2>5. Cardinality(Nodes(buckets)) \in Nat
    BY <1>1, <2>2, NodesFinite
  <2>6. CASE Full(x)
    <3>1. PICK k \in Keys, v \in Values : x = Occupied(k, v)
      BY <2>2, <2>6, NodeShape
    <3>2. x.key = k /\ x \in Node
      BY <2>2, <3>1 DEF Occupied
    <3> DEFINE p == Find(buckets, bucketsz, k)
    <3>3. ~ Throws(buckets, bucketsz, k) /\ buckets' = [buckets EXCEPT ![p] = x]
      BY <1>7, <2>6, <3>2 DEF RehashMove, Full
    <3>4. \A i \in 0 .. bucketsz - 1 : ~ Holds(buckets[i], k)
      BY <1>1, <2>2, <2>6, <3>2 DEF Placed, Apart, Holds, Full
    <3>5. p \in 0 .. bucketsz - 1 /\ ~ Full(buckets[p])
      <4>1. p \in 0 .. bucketsz - 1 /\ (Holds(buckets[p], k) \/ ~ Full(buckets[p]))
        BY <1>1, <2>2, <3>3, FindReached, ZenonT(30)
      <4>2. QED
        BY <3>4, <4>1
    <3> HIDE DEF x, p
    <3>6. Cardinality(Nodes(buckets')) = Cardinality(Nodes(buckets)) + 1
      <4>1. bucketsz \in Nat
        BY <1>1
      <4>2. Cardinality(Nodes([buckets EXCEPT ![p] = x])) = Cardinality(Nodes(buckets)) + 1
        BY <2>2, <2>6, <3>2, <3>5, <4>1, OneMore, ZenonT(30)
      <4>3. QED
        BY <3>3, <4>2
    <3>7. from \in Left
      BY <2>2, <2>6 DEF Left, Nodes, Full, x
    <3>8. Cardinality(Left') = Cardinality(Left) - 1
      BY <2>3, <2>4, <3>7, FS_RemoveElement, ZenonT(30)
    <3>9. QED
      BY <1>1, <2>1, <2>3, <2>5, <3>6, <3>8 DEF Counted
  <2>7. CASE ~ Full(x)
    <3>1. buckets' = buckets
      BY <1>7, <2>7 DEF RehashMove, Full
    <3>2. Left' = Left
      BY <2>4, <2>7 DEF Left, Nodes, Full
    <3>3. QED
      BY <1>1, <2>1, <3>1, <3>2 DEF Counted
  <2>8. QED
    BY <2>6, <2>7
<1>8. CASE \E k \in Keys : EraseCount(k)
  <2>1. PICK k \in Keys : EraseCount(k)
    BY <1>8
  <2>2. /\ UNCHANGED <<buckets, bucketsz, old, from>> /\ pc = "free" /\ pc' = "mark"
        /\ sz' = sz - 1
    BY <2>1 DEF EraseCount
  <2>3. buckets \in [0 .. bucketsz - 1 -> Node]
    BY <1>1, <2>2 DEF Placed, TableTypes
  <2>4. at' \in 0 .. bucketsz - 1 /\ Full(buckets[at'])
    BY <1>2, <2>2, <2>3 DEF Placed, TableTypes
  <2>5. /\ Cardinality(Nodes([buckets EXCEPT ![at'] = Deleted]))
             = Cardinality(Nodes(buckets)) - 1
        /\ Cardinality(Nodes(buckets)) \in Nat
    BY <1>1, <2>3, <2>4, NodesFinite, OneLess, ZenonT(30)
  <2>6. Cardinality(Nodes([buckets EXCEPT ![at'] = Deleted])) \in Nat
    <3>1. [buckets EXCEPT ![at'] = Deleted] \in [0 .. bucketsz - 1 -> Node]
      BY <2>3, <2>4 DEF Node
    <3>2. QED
      BY <1>1, <3>1, NodesFinite, ZenonT(30)
  <2>7. Cardinality(Left) = 0 /\ Left' = Left
    BY <1>1, <2>2, NothingLeft DEF Left
  <2>8. QED
    BY <1>1, <2>2, <2>5, <2>6, <2>7 DEF Counted
<1>9. CASE EraseMark
  <2>1. /\ UNCHANGED <<bucketsz, sz, old, from>> /\ pc = "mark" /\ pc' = "free"
        /\ buckets' = [buckets EXCEPT ![at] = Deleted]
    BY <1>9 DEF EraseMark
  <2>2. /\ buckets \in [0 .. bucketsz - 1 -> Node] /\ at \in 0 .. bucketsz - 1
        /\ Full(buckets[at])
    BY <1>1, <2>1 DEF Placed, TableTypes
  <2>3. Cardinality(Nodes(buckets')) = Cardinality(Nodes(buckets)) - 1
    BY <1>1, <2>1, <2>2, OneLess, ZenonT(30)
  <2>4. Cardinality(Nodes(buckets)) \in Nat /\ Cardinality(Left) = 0 /\ Left' = Left
    BY <1>1, <2>1, <2>2, NodesFinite, NothingLeft DEF Left
  <2>5. QED
    BY <1>1, <2>1, <2>3, <2>4 DEF Counted
<1>10. CASE UNCHANGED vars
  BY <1>1, <1>10 DEF vars, Counted, Left
<1>11. QED
  BY <1>3, <1>4, <1>5, <1>6, <1>7, <1>8, <1>9, <1>10 DEF Next, FindThrows

\* A rehash leaves the table at most half as loaded as it found it, and fills
\* only buckets that had no tombstone.
LEMMA LightStep == IInv /\ [Next]_vars => Light' /\ Clean'
<1> SUFFICES ASSUME IInv, [Next]_vars
             PROVE  Light' /\ Clean'
  OBVIOUS
<1> USE DEF Step
<1>1. bucketsz \in Nat \ {0} /\ sz \in Nat /\ Light /\ Clean /\ TableTypes
  BY DEF IInv, Placed, TableTypes
<1>2. Light'
  <2>1. CASE \E k \in Keys, v \in Values : SetValue(k, v) \/ SetNode(k, v)
    BY <1>1, <2>1 DEF SetValue, SetNode, Light
  <2>2. CASE SetCount
    BY <1>1, <2>2 DEF SetCount, Light
  <2>3. CASE RehashDouble
    BY <1>1, <2>3 DEF RehashDouble, Light
  <2>4. CASE RehashSwap
    BY <1>1, <2>4 DEF RehashSwap, Light
  <2>5. CASE RehashMove
    BY <1>1, <2>5 DEF RehashMove, Light
  <2>6. CASE \E k \in Keys : EraseCount(k)
    BY <1>1, <2>6 DEF EraseCount, Light
  <2>7. CASE EraseMark
    BY <1>1, <2>7 DEF EraseMark, Light
  <2>8. CASE UNCHANGED vars
    BY <1>1, <2>8 DEF vars, Light
  <2>9. QED
    BY <2>1, <2>2, <2>3, <2>4, <2>5, <2>6, <2>7, <2>8 DEF Next, FindThrows
<1>3. Clean'
  <2>1. CASE RehashSwap
    BY <1>1, <2>1 DEF RehashSwap, Clean, EmptyTable, Empty
  <2>2. CASE RehashMove
    <3> DEFINE x == old[from]
    <3>1. pc = "move"
      BY <2>2 DEF RehashMove
    <3>2. CASE Full(x)
      <4>1. buckets' = [buckets EXCEPT ![Find(buckets, bucketsz, x.key)] = x]
        BY <2>2, <3>2 DEF RehashMove, Full
      <4>2. x.status # "DELETED"
        BY <3>2 DEF Full
      <4> HIDE DEF x
      <4>3. buckets \in [0 .. bucketsz - 1 -> Node]
        BY <1>1, <3>1 DEF TableTypes
      <4>4. QED
        BY <1>1, <3>1, <4>1, <4>2, <4>3, SMTT(30) DEF Clean
    <3>3. CASE ~ Full(x)
      BY <1>1, <2>2, <3>1, <3>3 DEF RehashMove, Full, Clean
    <3>4. QED
      BY <3>2, <3>3
  <2>3. CASE UNCHANGED vars
    BY <1>1, <2>3 DEF vars, Clean
  <2>4. CASE ~ RehashSwap /\ ~ RehashMove /\ ~ UNCHANGED vars
    <3>1. pc' # "move"
      BY <2>4 DEF Next, SetValue, SetNode, SetCount, RehashDouble, EraseCount,
                  EraseMark, FindThrows
    <3>2. QED
      BY <3>1 DEF Clean
  <2>5. QED
    BY <2>1, <2>2, <2>3, <2>4
<1>4. QED
  BY <1>2, <1>3

\* The invariant is inductive.
LEMMA Invariance == Spec => []IInv
<1>1. Init => IInv
  BY InitPlaced, InitCounted DEF IInv
<1>2. IInv /\ [Next]_vars => IInv'
  BY PlacedStep, CountedStep, LightStep DEF IInv
<1>3. QED
  BY <1>1, <1>2, PTL DEF Spec

-----------------------------------------------------------------------------
(* Room.                                                                   *)

\* A positive multiple of n is at least n.
LEMMA MulBound ==
    ASSUME NEW n \in Nat \ {0}, NEW z \in Int, z >= 1
    PROVE  n * z >= n
<1>1. z - 1 \in Nat
  OBVIOUS
<1>2. n * (z - 1) >= 0
  BY <1>1
<1>3. n * z = n * (z - 1) + n
  OBVIOUS
<1>4. QED
  BY <1>2, <1>3

\* A remainder is unique.
LEMMA ModUnique ==
    ASSUME NEW n \in Nat \ {0}, NEW q \in Int, NEW i \in 0 .. n - 1
    PROVE  (n * q + i) % n = i
<1> DEFINE x == n * q + i
           r == x % n
           p == x \div n
<1>1. x \in Int /\ r \in 0 .. n - 1 /\ p \in Int
  OBVIOUS
<1>2. x = n * p + r
  OBVIOUS
<1>3. n * (q - p) = r - i
  BY <1>1, <1>2
<1> HIDE DEF r, p
<1>4. q = p
  <2>1. CASE q - p >= 1
    BY <1>1, <1>3, <2>1, MulBound
  <2>2. CASE p - q >= 1
    BY <1>1, <1>3, <2>2, MulBound
  <2>3. QED
    BY <1>1, <2>1, <2>2
<1>5. QED
  BY <1>1, <1>2, <1>4 DEF r

\* The probe sequence of a key visits every bucket.
LEMMA ProbeOnto ==
    ASSUME NEW n \in Nat \ {0}, NEW k \in Keys, NEW i \in 0 .. n - 1
    PROVE  \E d \in 0 .. n - 1 : Probe(n, k, d) = i
<1> DEFINE h == Hash[k]
           r == h % n
           q == h \div n
<1>1. h \in Nat
  BY HashAssumption
<1> HIDE DEF h
<1>2. r \in 0 .. n - 1 /\ q \in Int /\ h = n * q + r
  BY <1>1
<1> HIDE DEF r, q
<1>3. CASE i >= r
  <2>1. i - r \in 0 .. n - 1 /\ h + (i - r) = n * q + i
    BY <1>1, <1>2, <1>3
  <2>2. (n * q + i) % n = i
    BY <1>2, ModUnique
  <2>3. QED
    BY <2>1, <2>2 DEF Probe, h
<1>4. CASE i < r
  <2>1. i - r + n \in 0 .. n - 1 /\ h + (i - r + n) = n * (q + 1) + i /\ q + 1 \in Int
    BY <1>1, <1>2, <1>4
  <2>2. (n * (q + 1) + i) % n = i
    BY <2>1, ModUnique, ZenonT(30)
  <2>3. QED
    BY <2>1, <2>2 DEF Probe, h
<1>5. QED
  BY <1>2, <1>3, <1>4

\* A rehash always finds a bucket for the next node: with what is left to move
\* counted, the load factor leaves one, and there are no tombstones.
LEMMA Room == IInv => RehashHasRoom
<1> SUFFICES ASSUME IInv, pc = "move", Full(old[from]),
                    Throws(buckets, bucketsz, old[from].key)
             PROVE  FALSE
  BY DEF RehashHasRoom, Full
<1> DEFINE half == bucketsz \div 2
<1>1. /\ bucketsz \in Nat \ {0} /\ sz \in Nat /\ half \in Nat
      /\ buckets \in [0 .. bucketsz - 1 -> Node]
      /\ old \in [0 .. half - 1 -> Node] /\ from \in 0 .. half - 1
  BY DEF IInv, Placed, TableTypes
<1>2. PICK k \in Keys : old[from].key = k
  BY <1>1, NodeShape
<1>3. Cardinality(Left) \in Nat /\ Cardinality(Left) # 0
  <2>1. from \in Left
    BY <1>1 DEF Left, Nodes, Full
  <2>2. IsFiniteSet(Nodes(old)) /\ Left \in SUBSET Nodes(old)
    BY <1>1, NodesFinite DEF Left
  <2>3. IsFiniteSet(Left)
    BY <2>2, FS_Subset
  <2>4. QED
    BY <2>1, <2>3, FS_CardinalityType, FS_EmptySet
<1>4. Cardinality(Nodes(buckets)) \in Nat /\ Cardinality(Nodes(buckets)) < bucketsz
  <2>1. Cardinality(Nodes(buckets)) \in Nat
    BY <1>1, NodesFinite
  <2>2. sz = Cardinality(Nodes(buckets)) + Cardinality(Left) /\ 4 * sz <= 3 * bucketsz
    BY <1>1, <1>3, <2>1 DEF IInv, Counted, Light
  <2>3. QED
    BY <1>1, <1>3, <2>1, <2>2
<1>5. PICK i \in 0 .. bucketsz - 1 : ~ Full(buckets[i])
  <2>1. CASE Nodes(buckets) = 0 .. bucketsz - 1
    <3>1. Cardinality(0 .. bucketsz - 1) = bucketsz
      BY <1>1, FS_Interval
    <3>2. QED
      BY <1>1, <1>4, <2>1, <3>1
  <2>2. CASE Nodes(buckets) # 0 .. bucketsz - 1
    BY <1>1, <2>2 DEF Nodes, Full
  <2>3. QED
    BY <2>1, <2>2
<1>6. buckets[i].status = "EMPTY"
  <2>1. buckets[i].status # "DELETED"
    BY <1>1 DEF IInv, Clean
  <2>2. QED
    BY <1>1, <1>5, <2>1, NodeShape DEF Full
<1>7. PICK d \in 0 .. bucketsz - 1 : Probe(bucketsz, k, d) = i
  BY <1>1, ProbeOnto, ZenonT(30)
<1>8. d \in Stops(buckets, bucketsz, k)
  BY <1>6, <1>7 DEF Stops
<1>9. QED
  BY <1>2, <1>8 DEF Throws

-----------------------------------------------------------------------------
(* What is under a key.                                                    *)

\* A key in the table is there only.
LEMMA PlaceNew ==
    ASSUME Placed, NEW k \in Keys, NEW i \in DOMAIN buckets, Holds(buckets[i], k)
    PROVE  Places(k) = {<<"new", i>>} /\ Content(k) = buckets[i].val
<1>1. Places(k) = {<<"new", i>>}
  <2>1. \A j \in DOMAIN buckets : Holds(buckets[j], k) => j = i
    BY DEF Placed, Unique, Holds, Full
  <2>2. \A j \in DOMAIN old : ~ (j >= from /\ Holds(old[j], k))
    BY DEF Placed, Apart, Holds, Full
  <2>3. QED
    BY <2>1, <2>2 DEF Places
<1>2. (CHOOSE x \in Places(k) : TRUE) = <<"new", i>>
  BY <1>1
<1>3. QED
  BY <1>1, <1>2 DEF Content

\* A key still to move is there only.
LEMMA PlaceOld ==
    ASSUME Placed, NEW k \in Keys, NEW i \in DOMAIN old, i >= from, Holds(old[i], k)
    PROVE  Places(k) = {<<"old", i>>} /\ Content(k) = old[i].val
<1>1. Places(k) = {<<"old", i>>}
  <2>1. \A j \in DOMAIN old : Holds(old[j], k) => j = i
    BY DEF Placed, Unique, Holds, Full
  <2>2. \A j \in DOMAIN buckets : ~ Holds(buckets[j], k)
    BY DEF Placed, Apart, Holds, Full
  <2>3. QED
    BY <2>1, <2>2 DEF Places
<1>2. (CHOOSE x \in Places(k) : TRUE) = <<"old", i>>
  BY <1>1, SMTT(30)
<1>3. QED
  BY <1>1, <1>2 DEF Content

\* The three cases.
LEMMA PlaceCases ==
    ASSUME NEW k \in Keys
    PROVE  \/ \E i \in DOMAIN buckets : Holds(buckets[i], k)
           \/ \E i \in DOMAIN old : i >= from /\ Holds(old[i], k)
           \/ Places(k) = {} /\ Content(k) = None
  BY DEF Places, Content

\* v is under k, in the table or among the nodes still to move.
Has(k, v) ==
    \/ \E i \in DOMAIN buckets : buckets[i] = Occupied(k, v)
    \/ \E i \in DOMAIN old : i >= from /\ old[i] = Occupied(k, v)

\* Content is what the nodes say.
Faithful ==
    \A k \in Keys :
        /\ \A v \in Values : Has(k, v) => Content(k) = v
        /\ (\A v \in Values : ~ Has(k, v)) => Content(k) = None

\* This holds since no key is in two places.
LEMMA ContentFaithful == Placed => Faithful
<1> SUFFICES ASSUME Placed, NEW k \in Keys
             PROVE  /\ \A v \in Values : Has(k, v) => Content(k) = v
                    /\ (\A v \in Values : ~ Has(k, v)) => Content(k) = None
  BY DEF Faithful
<1>1. ASSUME NEW v \in Values, Has(k, v)
      PROVE  Content(k) = v
  <2>1. CASE \E i \in DOMAIN buckets : buckets[i] = Occupied(k, v)
    <3>1. PICK i \in DOMAIN buckets : buckets[i] = Occupied(k, v)
      BY <2>1
    <3>2. Holds(buckets[i], k) /\ buckets[i].val = v
      BY <3>1 DEF Holds, Occupied
    <3>3. QED
      BY <3>2, PlaceNew
  <2>2. CASE \E i \in DOMAIN old : i >= from /\ old[i] = Occupied(k, v)
    <3>1. PICK i \in DOMAIN old : i >= from /\ old[i] = Occupied(k, v)
      BY <2>2
    <3>2. Holds(old[i], k) /\ old[i].val = v
      BY <3>1 DEF Holds, Occupied
    <3>3. QED
      BY <3>1, <3>2, PlaceOld
  <2>3. QED
    BY <1>1, <2>1, <2>2 DEF Has
<1>2. ASSUME \A v \in Values : ~ Has(k, v)
      PROVE  Content(k) = None
  <2>1. \A i \in DOMAIN buckets : ~ Holds(buckets[i], k)
    <3> SUFFICES ASSUME NEW i \in DOMAIN buckets, Holds(buckets[i], k)
                 PROVE  FALSE
      OBVIOUS
    <3>1. buckets[i] \in Node
      BY DEF Placed, TableTypes
    <3>2. buckets[i].val \in Values /\ buckets[i] = Occupied(k, buckets[i].val)
      BY <3>1, NodeShape DEF Holds, Full
    <3>3. QED
      BY <1>2, <3>2 DEF Has
  <2>2. \A i \in DOMAIN old : ~ (i >= from /\ Holds(old[i], k))
    <3> SUFFICES ASSUME NEW i \in DOMAIN old, i >= from, Holds(old[i], k)
                 PROVE  FALSE
      OBVIOUS
    <3>1. old[i] \in Node
      BY DEF Placed, TableTypes
    <3>2. old[i].val \in Values /\ old[i] = Occupied(k, old[i].val)
      BY <3>1, NodeShape DEF Holds, Full
    <3>3. QED
      BY <1>2, <3>2 DEF Has
  <2>3. QED
    BY <2>1, <2>2, PlaceCases
<1>3. QED
  BY <1>1, <1>2

\* After a step that leaves what is under each key, the map is what it was.
LEMMA SameMap ==
    ASSUME Placed, Placed',
           \A k \in Keys, v \in Values : Has(k, v)' <=> Has(k, v)
    PROVE  [k \in Keys |-> Content(k)]' = [k \in Keys |-> Content(k)]
<1>1. Faithful
  BY ContentFaithful
<1>2. Placed' => Faithful'
  BY ContentFaithful, PTL
<1>3. \A k \in Keys : Content(k)' = Content(k)
  BY <1>1, <1>2 DEF Faithful
<1>4. QED
  BY <1>3

\* After a step that changes what is under one key only, so has the map.
LEMMA OneKey ==
    ASSUME Placed, Placed', NEW c \in Keys, NEW w,
           \/ w \in Values /\ Has(c, w)'
           \/ w = None /\ \A v \in Values : ~ Has(c, v)',
           \A k \in Keys \ {c}, v \in Values : Has(k, v)' <=> Has(k, v)
    PROVE  [k \in Keys |-> Content(k)]' = [[k \in Keys |-> Content(k)] EXCEPT ![c] = w]
<1>1. Faithful
  BY ContentFaithful
<1>2. Placed' => Faithful'
  BY ContentFaithful, PTL
<1>3. Content(c)' = w
  BY <1>2 DEF Faithful
<1>4. \A k \in Keys \ {c} : Content(k)' = Content(k)
  BY <1>1, <1>2 DEF Faithful
<1>5. QED
  BY <1>3, <1>4, ZenonT(30)

\* A node that takes a bucket its key held, or that nobody held, changes what is
\* under its key only.
LEMMA PutNode ==
    ASSUME NEW n \in Nat, buckets \in [0 .. n - 1 -> Node],
           NEW p \in 0 .. n - 1, NEW c \in Keys, NEW w \in Values,
           Full(buckets[p]) => buckets[p].key = c,
           buckets' = [buckets EXCEPT ![p] = Occupied(c, w)],
           UNCHANGED <<old, from>>
    PROVE  /\ Has(c, w)'
           /\ \A k \in Keys \ {c}, v \in Values : Has(k, v)' <=> Has(k, v)
<1>1. DOMAIN buckets' = 0 .. n - 1 /\ DOMAIN buckets = 0 .. n - 1
  OBVIOUS
<1>2. \A i \in 0 .. n - 1 : i # p => buckets'[i] = buckets[i]
  OBVIOUS
<1>3. buckets'[p] = Occupied(c, w)
  OBVIOUS
<1>4. Has(c, w)'
  BY <1>1, <1>3 DEF Has
<1>5. ASSUME NEW k \in Keys \ {c}, NEW v \in Values
      PROVE  /\ buckets'[p] # Occupied(k, v)
             /\ buckets[p] # Occupied(k, v)
  BY <1>3 DEF Occupied, Full
<1>6. \A k \in Keys \ {c}, v \in Values : Has(k, v)' <=> Has(k, v)
  BY <1>1, <1>2, <1>5 DEF Has
<1>7. QED
  BY <1>4, <1>6

\* Every step of the table is a step of the map, or changes nothing in it.
LEMMA MapStep == IInv /\ [Next]_vars => [Map!Next]_(Map!vars)
<1> SUFFICES ASSUME IInv, [Next]_vars
             PROVE  Map!Next \/ UNCHANGED Map!vars
  OBVIOUS
<1> USE DEF Step
<1> DEFINE map == [k \in Keys |-> Content(k)]
           Same == \A k \in Keys, v \in Values : Has(k, v)' <=> Has(k, v)
<1>1. Placed /\ Placed' /\ bucketsz \in Nat \ {0}
  BY PlacedStep, SMTT(30) DEF IInv, Placed, TableTypes
<1>2. Same => map' = map
  BY <1>1, SameMap
<1>3. ASSUME NEW c \in Keys, NEW w \in Values, SetValue(c, w) \/ SetNode(c, w)
      PROVE  Map!Next
  <2> DEFINE p == Find(buckets, bucketsz, c)
  <2>1. /\ buckets \in [0 .. bucketsz - 1 -> Node] /\ UNCHANGED <<old, from>>
        /\ ~ Throws(buckets, bucketsz, c)
    BY <1>1, <1>3 DEF SetValue, SetNode, Placed, TableTypes
  <2>2. p \in 0 .. bucketsz - 1 /\ (Holds(buckets[p], c) \/ ~ Full(buckets[p]))
    BY <1>1, <2>1, FindReached
  <2>3. buckets' = [buckets EXCEPT ![p] = Occupied(c, w)]
    <3>1. CASE SetNode(c, w)
      BY <3>1 DEF SetNode
    <3>2. CASE SetValue(c, w)
      <4>1. Holds(buckets[p], c)
        BY <2>2, <3>2 DEF SetValue, Lookup, Full
      <4>2. buckets[p] = Occupied(c, buckets[p].val)
        BY <2>1, <2>2, <4>1, NodeShape DEF Holds, Full
      <4>3. [buckets[p] EXCEPT !.val = w] = Occupied(c, w)
        BY <4>2 DEF Occupied
      <4>4. buckets' = [buckets EXCEPT ![p] = [buckets[p] EXCEPT !.val = w]]
        BY <2>1, <2>2, <3>2 DEF SetValue
      <4>5. QED
        BY <4>3, <4>4, ZenonT(30)
    <3>3. QED
      BY <1>3, <3>1, <3>2
  <2>4. Full(buckets[p]) => buckets[p].key = c
    BY <2>2 DEF Holds
  <2> HIDE DEF p
  <2>5. /\ Has(c, w)'
        /\ \A k \in Keys \ {c}, v \in Values : Has(k, v)' <=> Has(k, v)
    <3>1. p \in 0 .. bucketsz - 1 /\ bucketsz \in Nat
      BY <1>1, <2>2
    <3>2. QED
      BY <2>1, <2>3, <2>4, <3>1, PutNode, ZenonT(30)
  <2>6. map' = [map EXCEPT ![c] = w]
    BY <1>1, <2>5, OneKey
  <2>7. Map!Put(c, w)
    <3>1. pc = "free" /\ pc' \in {"free", "count"}
      BY <1>3 DEF SetValue, SetNode
    <3>2. Pending = <<>> /\ Pending' \in {<<>>, <<"set">>}
      BY <3>1 DEF Pending
    <3>3. QED
      BY <2>6, <3>2 DEF Map!Put
  <2>8. QED
    BY <2>7 DEF Map!Next
<1>4. CASE EraseMark
  <2>1. /\ UNCHANGED <<bucketsz, old, from>> /\ pc = "mark"
        /\ buckets' = [buckets EXCEPT ![at] = Deleted]
    BY <1>4 DEF EraseMark
  <2>2. /\ buckets \in [0 .. bucketsz - 1 -> Node] /\ at \in 0 .. bucketsz - 1
        /\ Full(buckets[at]) /\ DOMAIN old = {}
    BY <1>1, <2>1 DEF Placed, TableTypes
  <2>3. PICK c \in Keys, w \in Values : buckets[at] = Occupied(c, w)
    BY <2>2, NodeShape, SMTT(30)
  <2>4. \A i \in 0 .. bucketsz - 1, v \in Values : i # at => buckets[i] # Occupied(c, v)
    BY <1>1, <2>2, <2>3, SMTT(30) DEF Placed, Unique, Occupied, Full
  <2>5. /\ DOMAIN buckets' = 0 .. bucketsz - 1 /\ DOMAIN buckets = 0 .. bucketsz - 1
        /\ DOMAIN old' = {}
        /\ \A i \in 0 .. bucketsz - 1 : i # at => buckets'[i] = buckets[i]
    BY <2>1, <2>2
  <2>6. \A k \in Keys, v \in Values : buckets'[at] # Occupied(k, v)
    BY <2>1, <2>2 DEF Deleted, Occupied
  <2>7. \A v \in Values : ~ Has(c, v)'
    BY <2>4, <2>5, <2>6 DEF Has
  <2>8. \A k \in Keys \ {c}, v \in Values : buckets[at] # Occupied(k, v)
    BY <2>3, SMTT(30) DEF Occupied
  <2>9. \A k \in Keys \ {c}, v \in Values : Has(k, v)' <=> Has(k, v)
    BY <2>2, <2>5, <2>6, <2>8 DEF Has
  <2>10. map' = [map EXCEPT ![c] = None]
    BY <1>1, <2>7, <2>9, OneKey
  <2>11. Map!Remove(c)
    <3>1. pc' = "free" /\ buckets[at].key = c
      BY <1>4, <2>3 DEF EraseMark, Occupied
    <3>2. Pending = <<"erase", c>> /\ Pending' = <<>>
      BY <2>1, <3>1 DEF Pending
    <3>3. QED
      BY <2>10, <3>2 DEF Map!Remove
  <2>12. QED
    BY <2>11 DEF Map!Next
<1>5. CASE RehashSwap
  <2>1. /\ buckets' = EmptyTable(bucketsz) /\ old' = buckets /\ from' = 0
        /\ DOMAIN old = {} /\ \A i \in DOMAIN buckets : i >= 0
    BY <1>1, <1>5 DEF RehashSwap, Placed, TableTypes
  <2>2. \A i \in DOMAIN buckets', k \in Keys, v \in Values :
            buckets'[i] # Occupied(k, v)
    BY <2>1 DEF EmptyTable, Empty, Occupied
  <2>3. Same
    BY <2>1, <2>2 DEF Has
  <2>4. Pending' = Pending
    BY <1>5 DEF RehashSwap, Pending
  <2>5. QED
    BY <1>2, <2>3, <2>4 DEF Map!vars
<1>6. CASE RehashMove
  <2> DEFINE x == old[from]
             half == bucketsz \div 2
             last == from + 1 = half
  <2>1. /\ pc = "move"
        /\ from' = IF last THEN 0 ELSE from + 1
        /\ old' = IF last THEN EmptyTable(0) ELSE old
    BY <1>6 DEF RehashMove
  <2>2. /\ buckets \in [0 .. bucketsz - 1 -> Node] /\ old \in [0 .. half - 1 -> Node]
        /\ from \in 0 .. half - 1 /\ half \in Nat
    BY <1>1, <2>1, SMTT(30) DEF Placed, TableTypes
  <2>3. ASSUME NEW k \in Keys, NEW v \in Values
        PROVE  (\E i \in DOMAIN old : i >= from /\ old[i] = Occupied(k, v)) <=>
                   \/ x = Occupied(k, v)
                   \/ \E i \in DOMAIN old' : i >= from' /\ old'[i] = Occupied(k, v)
    <3>1. CASE last
      <4>1. DOMAIN old' = {}
        BY <2>1, <3>1 DEF EmptyTable
      <4>2. \A i \in DOMAIN old : i >= from => i = from
        BY <2>2, <3>1
      <4>3. QED
        BY <2>2, <4>1, <4>2
    <3>2. CASE ~ last
      <4>1. old' = old /\ from' = from + 1
        BY <2>1, <3>2
      <4>2. \A i \in DOMAIN old : i >= from <=> (i = from \/ i >= from + 1)
        BY <2>2
      <4>3. QED
        BY <2>2, <4>1, <4>2
    <3>3. QED
      BY <3>1, <3>2
  <2>4. ASSUME NEW k \in Keys, NEW v \in Values
        PROVE  (\E i \in DOMAIN buckets' : buckets'[i] = Occupied(k, v)) <=>
                   \/ x = Occupied(k, v)
                   \/ \E i \in DOMAIN buckets : buckets[i] = Occupied(k, v)
    <3>1. CASE Full(x)
      <4>1. PICK c \in Keys, w \in Values : x = Occupied(c, w)
        BY <2>2, <3>1, NodeShape
      <4>2. x.key = c
        BY <4>1 DEF Occupied
      <4> DEFINE p == Find(buckets, bucketsz, c)
      <4>3. ~ Throws(buckets, bucketsz, c) /\ buckets' = [buckets EXCEPT ![p] = x]
        BY <1>6, <3>1, <4>2 DEF RehashMove, Full
      <4>4. \A i \in 0 .. bucketsz - 1 : ~ Holds(buckets[i], c)
        BY <1>1, <2>2, <3>1, <4>2 DEF Placed, Apart, Holds, Full
      <4>5. p \in 0 .. bucketsz - 1 /\ ~ Full(buckets[p])
        <5>1. p \in 0 .. bucketsz - 1 /\ (Holds(buckets[p], c) \/ ~ Full(buckets[p]))
          BY <1>1, <2>2, <4>3, FindReached, ZenonT(30)
        <5>2. QED
          BY <4>4, <5>1
      <4> HIDE DEF x, p
      <4>6. buckets[p] # Occupied(k, v)
        <5>1. Full(Occupied(k, v))
          BY DEF Full, Occupied
        <5>2. QED
          BY <4>5, <5>1
      <4>7. /\ DOMAIN buckets' = 0 .. bucketsz - 1 /\ DOMAIN buckets = 0 .. bucketsz - 1
            /\ buckets'[p] = x
            /\ \A i \in 0 .. bucketsz - 1 : i # p => buckets'[i] = buckets[i]
        BY <2>2, <4>3, <4>5
      <4>8. QED
        BY <4>5, <4>6, <4>7
    <3>2. CASE ~ Full(x)
      <4>1. buckets' = buckets
        BY <1>6, <3>2 DEF RehashMove, Full
      <4>2. x # Occupied(k, v)
        BY <3>2, SMTT(30) DEF Full, Occupied
      <4>3. QED
        BY <4>1, <4>2
    <3>3. QED
      BY <3>1, <3>2
  <2>5. Same
    BY <2>3, <2>4 DEF Has
  <2>6. Pending = <<"set">> /\ Pending' \in {<<>>, <<"set">>}
    BY <1>6 DEF RehashMove, Pending
  <2>7. QED
    BY <1>2, <2>5, <2>6, SMTT(30) DEF Map!vars, Map!Next, Map!Return
<1>7. CASE SetCount \/ RehashDouble
  <2>1. UNCHANGED <<buckets, old, from>>
    BY <1>7 DEF SetCount, RehashDouble
  <2>2. Same
    BY <2>1 DEF Has
  <2>3. pc \in {"count", "double"} /\ pc' \in {"free", "double", "swap"}
    BY <1>7 DEF SetCount, RehashDouble
  <2>4. Pending = <<"set">> /\ Pending' \in {<<>>, <<"set">>}
    BY <2>3 DEF Pending
  <2>5. QED
    BY <1>2, <2>2, <2>4 DEF Map!vars, Map!Next, Map!Return
<1>8. ASSUME NEW c \in Keys, EraseCount(c)
      PROVE  Map!Next
  <2> DEFINE p == Find(buckets, bucketsz, c)
  <2>1. /\ UNCHANGED <<buckets, old, from>> /\ pc = "free" /\ pc' = "mark"
        /\ ~ Throws(buckets, bucketsz, c) /\ at' = p
        /\ Lookup(buckets, bucketsz, c) # None
    BY <1>8 DEF EraseCount
  <2>2. buckets \in [0 .. bucketsz - 1 -> Node]
    BY <1>1, <2>1, SMTT(30) DEF Placed, TableTypes
  <2>3. p \in 0 .. bucketsz - 1 /\ Holds(buckets[p], c)
    <3>1. p \in 0 .. bucketsz - 1 /\ (Holds(buckets[p], c) \/ ~ Full(buckets[p]))
      BY <1>1, <2>1, <2>2, FindReached
    <3>2. QED
      BY <2>1, <3>1 DEF Lookup, Full
  <2>4. Pending = <<>> /\ Pending' = <<"erase", c>>
    BY <2>1, <2>3, SMTT(30) DEF Pending, Holds
  <2>5. Content(c) # None
    <3>1. Content(c) = buckets[p].val
      BY <1>1, <2>2, <2>3, PlaceNew, SMTT(30)
    <3>2. QED
      BY <2>1, <2>3, <3>1 DEF Lookup, Holds
  <2>6. Same
    BY <2>1 DEF Has
  <2>7. Map!Erase(c)
    BY <1>2, <2>4, <2>5, <2>6 DEF Map!Erase
  <2>8. QED
    BY <2>7 DEF Map!Next
<1>9. CASE UNCHANGED vars
  <2>1. Same /\ Pending' = Pending
    BY <1>9 DEF Has, vars, Pending
  <2>2. QED
    BY <1>2, <2>1 DEF Map!vars
<1>10. QED
  BY <1>3, <1>4, <1>5, <1>6, <1>7, <1>8, <1>9 DEF Next, FindThrows

-----------------------------------------------------------------------------
(* Snapshots.                                                              *)

\* A table read back from a snapshot holds the nodes where they were, and an
\* empty bucket for every other.
LEMMA ReadBack ==
    ASSUME IInv, pc = "free"
    PROVE  Loaded(Written) = [i \in 0 .. bucketsz - 1 |->
                                 IF Full(buckets[i]) THEN buckets[i] ELSE Empty]
<1> DEFINE N == Nodes(buckets)
           before(i) == {j \in N : j < i}
<1>1. bucketsz \in Nat \ {0} /\ buckets \in [0 .. bucketsz - 1 -> Node]
  BY DEF IInv, Placed, TableTypes
<1>2. IsFiniteSet(N) /\ Cardinality(N) \in Nat /\ N \subseteq 0 .. bucketsz - 1
  BY <1>1, NodesFinite
<1>3. sz = Cardinality(N)
  <2>1. Cardinality(Left) = 0
    BY NothingLeft DEF IInv
  <2>2. QED
    BY <1>2, <2>1 DEF IInv, Counted
<1>4. ASSUME NEW i \in N
      PROVE  Cardinality(before(i)) < sz
  <2>1. before(i) \in SUBSET (N \ {i})
    BY <1>2
  <2>2. IsFiniteSet(N \ {i}) /\ Cardinality(N \ {i}) = Cardinality(N) - 1
    BY <1>2, FS_RemoveElement
  <2>3. Cardinality(before(i)) <= Cardinality(N \ {i}) /\ IsFiniteSet(before(i))
    BY <2>1, <2>2, FS_Subset
  <2>4. Cardinality(before(i)) \in Nat
    BY <2>3, FS_CardinalityType
  <2>5. QED
    BY <1>2, <1>3, <2>2, <2>3, <2>4
<1>5. /\ Written.bucketsz = bucketsz /\ Written.validsz = sz
      /\ Written.nodes = [i \in N |-> buckets[i]]
  BY DEF Written
<1> DEFINE f == Written
<1> HIDE DEF f, N
<1>6. /\ f.bucketsz = bucketsz /\ f.validsz = sz /\ DOMAIN f.nodes = N
      /\ \A i \in N : f.nodes[i] = buckets[i]
  BY <1>5 DEF f
<1>7. Loaded(f) = [i \in 0 .. bucketsz - 1 |->
                      IF i \in N /\ Cardinality(before(i)) < sz
                      THEN f.nodes[i] ELSE Empty]
  BY <1>6, ZenonT(30) DEF Loaded
<1>8. \A i \in 0 .. bucketsz - 1 : i \in N <=> Full(buckets[i])
  BY <1>1 DEF N, Nodes, Full
<1>9. \A i \in 0 .. bucketsz - 1 :
          (IF i \in N /\ Cardinality(before(i)) < sz THEN f.nodes[i] ELSE Empty)
            = IF Full(buckets[i]) THEN buckets[i] ELSE Empty
  BY <1>4, <1>6, <1>8, ZenonT(30)
<1>10. QED
  BY <1>7, <1>9, ZenonT(30) DEF f

\* In the table read back, find meets the key unless a tombstone was on its way.
LEMMA ReadBackFinds ==
    ASSUME IInv, pc = "free", NEW i \in Nodes(buckets)
    PROVE  Lookup(Loaded(Written), bucketsz, buckets[i].key) = buckets[i].val
             <=> Crossed(buckets[i].key) = {}
<1> DEFINE n == bucketsz
           k == buckets[i].key
           b == Loaded(Written)
           here(d) == Probe(n, k, d)
           held == {d \in 0 .. n - 1 : Holds(buckets[here(d)], k)}
           stop == Min(held)
           end == Min(Stops(b, n, k))
<1>1. /\ n \in Nat \ {0} /\ buckets \in [0 .. n - 1 -> Node]
      /\ Reachable(buckets, n) /\ Unique(buckets)
  BY DEF IInv, Placed, TableTypes
<1>2. i \in 0 .. n - 1 /\ Full(buckets[i]) /\ k \in Keys /\ buckets[i].val \in Values
  BY <1>1, NodeShape DEF Nodes, Full
<1>3. \A d \in 0 .. n - 1 : here(d) \in 0 .. n - 1
  BY <1>1, <1>2, ProbeInTable
<1>4. \A j \in 0 .. n - 1 : b[j] = IF Full(buckets[j]) THEN buckets[j] ELSE Empty
  BY ReadBack
<1>5. PICK d0 \in 0 .. n - 1 :
          /\ here(d0) = i
          /\ \A e \in 0 .. d0 - 1 : buckets[here(e)].status # "EMPTY"
  BY <1>1, <1>2 DEF Reachable
<1> HIDE DEF k, b
<1>6. d0 \in held /\ held \in SUBSET Nat
  BY <1>2, <1>5 DEF Holds, Full, k
<1>7. stop \in held /\ \A d \in held : stop <= d
  BY <1>6, MinOfProbes, ZenonT(30)
<1> HIDE DEF stop
<1>8. stop \in 0 .. n - 1 /\ Holds(buckets[here(stop)], k) /\ stop <= d0
  BY <1>6, <1>7
<1>9. here(stop) = i
  BY <1>1, <1>2, <1>3, <1>8 DEF Unique, Holds, Full, k
<1>10. ASSUME NEW d \in 0 .. stop - 1
       PROVE  /\ d \in 0 .. n - 1 /\ buckets[here(d)].status # "EMPTY"
              /\ ~ Holds(buckets[here(d)], k)
  <2>1. d \in 0 .. n - 1 /\ d \in 0 .. d0 - 1 /\ ~ (stop <= d)
    BY <1>1, <1>8
  <2>2. d \notin held
    BY <1>7, <2>1
  <2>3. QED
    BY <1>5, <2>1, <2>2
<1>11. Crossed(k) = {d \in 0 .. stop : buckets[here(d)].status = "DELETED"}
  BY DEF Crossed, stop
<1>12. /\ Holds(b[here(stop)], k) /\ stop \in Stops(b, n, k)
       /\ Stops(b, n, k) \in SUBSET Nat
  BY <1>3, <1>4, <1>8 DEF Stops, Holds, Full
<1>13. end \in Stops(b, n, k) /\ \A d \in Stops(b, n, k) : end <= d
  BY <1>12, MinOfProbes, ZenonT(30)
<1> HIDE DEF end
<1>14. /\ end \in 0 .. n - 1 /\ end <= stop
       /\ b[here(end)].status = "EMPTY" \/ Holds(b[here(end)], k)
  BY <1>12, <1>13 DEF Stops
<1>15. CASE Crossed(k) = {}
  <2>1. end = stop
    <3>1. SUFFICES ASSUME end # stop
                   PROVE  FALSE
      OBVIOUS
    <3>2. end \in 0 .. stop - 1 /\ end \in 0 .. stop
      BY <1>8, <1>14, <3>1
    <3>3. /\ buckets[here(end)].status # "EMPTY" /\ ~ Holds(buckets[here(end)], k)
          /\ buckets[here(end)].status # "DELETED"
      BY <1>10, <1>11, <1>15, <3>2
    <3>4. buckets[here(end)] \in Node
      BY <1>1, <1>3, <1>14
    <3>5. Full(buckets[here(end)])
      BY <3>3, <3>4, NodeShape DEF Full
    <3>6. b[here(end)] = buckets[here(end)]
      BY <1>3, <1>4, <1>14, <3>5
    <3>7. QED
      BY <1>14, <3>3, <3>6
  <2>2. Find(b, n, k) = here(stop)
    BY <1>12, <2>1, ZenonT(30) DEF Find, end
  <2>3. b[here(stop)] = buckets[i] /\ b[here(stop)].status = "OCCUPIED"
    BY <1>2, <1>4, <1>9 DEF Full
  <2>4. Lookup(b, n, k) = buckets[i].val
    BY <2>2, <2>3 DEF Lookup
  <2>5. QED
    BY <1>15, <2>4 DEF b, k
<1>16. CASE Crossed(k) # {}
  <2>1. PICK d \in 0 .. stop : buckets[here(d)].status = "DELETED"
    BY <1>11, <1>16
  <2>2. d # stop
    BY <1>8, <2>1 DEF Holds
  <2>3. d \in 0 .. n - 1 /\ d < stop
    BY <1>1, <1>8, <2>1, <2>2
  <2>4. b[here(d)].status = "EMPTY"
    BY <1>3, <1>4, <2>1, <2>3 DEF Full, Empty
  <2>5. end <= d
    BY <1>13, <2>3, <2>4 DEF Stops
  <2>6. end \in 0 .. stop - 1
    BY <1>8, <1>14, <2>3, <2>5
  <2>7. ~ Holds(b[here(end)], k)
    BY <1>3, <1>4, <1>10, <1>14, <2>6 DEF Holds, Full, Empty
  <2>8. {e \in 0 .. end : b[here(e)].status = "DELETED"} = {}
    <3>1. ASSUME NEW e \in 0 .. end
          PROVE  b[here(e)].status # "DELETED"
      <4>1. e \in 0 .. n - 1
        BY <1>1, <1>14
      <4>2. here(e) \in 0 .. n - 1
        BY <1>3, <4>1
      <4>3. QED
        BY <1>4, <4>2 DEF Full, Empty
    <3>2. QED
      BY <3>1
  <2>9. Find(b, n, k) = here(end)
    BY <2>8, ZenonT(30) DEF Find, end
  <2>10. Lookup(b, n, k) = None
    BY <1>14, <2>7, <2>9 DEF Lookup
  <2>11. QED
    BY <1>2, <1>16, <2>10, NoneAssumption DEF b, k
<1>17. QED
  BY <1>15, <1>16

-----------------------------------------------------------------------------
(* Theorems.                                                               *)

\* The table keeps its shape, and erase, which decrements sz before it marks
\* the node, never takes it below 0.
THEOREM TypeCorrect == Spec => []TypeOK
<1>1. IInv => TypeOK
  BY DEF IInv, Placed, TypeOK
<1>2. QED
  BY <1>1, Invariance, PTL

\* Between two operations find reaches every key in the table, whatever was set
\* and erased before and however often the table was rehashed.
THEOREM EveryKeyIsFound == Spec => []FindsEveryKey
<1>1. IInv => FindsEveryKey
  <2> SUFFICES ASSUME IInv, pc = "free", NEW k \in Keys, Places(k) # {}
               PROVE  /\ ~ Throws(buckets, bucketsz, k)
                      /\ Lookup(buckets, bucketsz, k) = Content(k)
    BY DEF FindsEveryKey
  <2> DEFINE p == Find(buckets, bucketsz, k)
  <2>1. /\ bucketsz \in Nat \ {0} /\ buckets \in [0 .. bucketsz - 1 -> Node]
        /\ Reachable(buckets, bucketsz) /\ DOMAIN old = {} /\ Placed
    BY SMTT(30) DEF IInv, Placed, TableTypes
  <2>2. PICK i \in 0 .. bucketsz - 1 : Holds(buckets[i], k)
    BY <2>1, PlaceCases
  <2>3. ~ Throws(buckets, bucketsz, k) /\ Holds(buckets[p], k)
    BY <2>1, <2>2, FindHeld
  <2>4. p \in DOMAIN buckets
    BY <2>1, <2>3, FindReached
  <2>5. Content(k) = buckets[p].val
    BY <2>1, <2>3, <2>4, PlaceNew
  <2>6. QED
    BY <2>3, <2>5 DEF Lookup, Holds
<1>2. QED
  BY <1>1, Invariance, PTL

\* set, which takes the first tombstone, and rehash never leave a key in two
\* buckets.
THEOREM NoKeyIsTwice == Spec => []OnePlacePerKey
<1>1. IInv => OnePlacePerKey
  <2> SUFFICES ASSUME IInv, NEW k \in Keys
               PROVE  Cardinality(Places(k)) <= 1
    BY DEF OnePlacePerKey
  <2>1. Placed
    BY SMTT(30) DEF IInv
  <2>2. Places(k) = {} \/ \E q : Places(k) = {q}
    BY <2>1, PlaceCases, PlaceNew, PlaceOld
  <2>3. CASE Places(k) = {}
    <3>1. Cardinality(Places(k)) = 0
      BY <2>3, FS_EmptySet
    <3>2. QED
      BY <3>1
  <2>4. CASE \E q : Places(k) = {q}
    <3>1. Cardinality(Places(k)) = 1
      BY <2>4, FS_Singleton, ZenonT(30)
    <3>2. QED
      BY <3>1
  <2>5. QED
    BY <2>2, <2>3, <2>4, ZenonT(30)
<1>2. QED
  BY <1>1, Invariance, PTL

\* Between two operations sz is the number of nodes, and the load factor holds.
THEOREM CountIsExact == Spec => []CountsNodes
<1>1. IInv => CountsNodes
  <2> SUFFICES ASSUME IInv, pc = "free"
               PROVE  sz = Cardinality(Nodes(buckets)) /\ 4 * sz <= 3 * bucketsz
    BY DEF CountsNodes
  <2>1. Cardinality(Left) = 0
    BY NothingLeft DEF IInv
  <2>2. Cardinality(Nodes(buckets)) \in Nat /\ bucketsz \in Nat
    BY NodesFinite DEF IInv, Placed, TableTypes
  <2>3. QED
    BY <2>1, <2>2 DEF IInv, Counted, Light
<1>2. QED
  BY <1>1, Invariance, PTL

\* find never throws out of a rehash.
THEOREM RehashNeverThrows == Spec => []RehashHasRoom
  BY Room, Invariance, PTL

\* The table implements a map: every step of set, erase and rehash puts one
\* value, removes one key, or changes nothing.
THEOREM TableImplementsMap == Spec => ImplementsMap
<1>1. Init => Map!Init
  <2> SUFFICES ASSUME Init
               PROVE  \A k \in Keys : Content(k) = None
    BY DEF Map!Init, Init, Pending
  <2>1. \A k \in Keys, v \in Values : ~ Has(k, v)
    BY DEF Init, EmptyTable, Empty, Occupied, Has
  <2>2. Faithful
    BY InitPlaced, ContentFaithful
  <2>3. QED
    BY <2>1, <2>2 DEF Faithful
<1>2. QED
  BY <1>1, MapStep, Invariance, PTL DEF Spec, ImplementsMap, Map!Spec

\* Of a table of any size, a snapshot written between two operations gives back
\* exactly the keys whose probe sequences cross no tombstone.
THEOREM SnapshotsHideKeysBehindTombstones == Spec => []ReadBackExact
<1>1. IInv => ReadBackExact
  BY ReadBackFinds DEF ReadBackExact
<1>2. QED
  BY <1>1, Invariance, PTL

=============================================================================
