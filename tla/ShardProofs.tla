----------------------------- MODULE ShardProofs -----------------------------
(***************************************************************************)
(* The iterators of LRU stay valid, and its list is the order of last use, *)
(* for any keys, any memory and any maximum size.                          *)
(***************************************************************************)
EXTENDS Shard, SequenceTheorems, TLAPS

-----------------------------------------------------------------------------
(* Sequences.                                                              *)

\* What erase of a list node leaves.
LEMMA ErasedAt ==
    ASSUME NEW S, NEW s \in Seq(S), NEW i \in 1 .. Len(s)
    PROVE  /\ Erase(s, i) \in Seq(S)
           /\ Len(Erase(s, i)) = Len(s) - 1
           /\ \A j \in 1 .. Len(s) - 1 :
                 Erase(s, i)[j] = IF j < i THEN s[j] ELSE s[j + 1]
<1> DEFINE a == SubSeq(s, 1, i - 1)
           b == SubSeq(s, i + 1, Len(s))
<1>1. Len(s) \in Nat /\ i \in Nat /\ 1 <= i /\ i <= Len(s)
  OBVIOUS
<1>2. /\ a \in Seq(S) /\ Len(a) = i - 1
      /\ \A j \in 1 .. i - 1 : a[j] = s[j]
  BY <1>1, SubSeqProperties
<1>3. /\ b \in Seq(S) /\ Len(b) = Len(s) - i
      /\ \A j \in 1 .. Len(s) - i : b[j] = s[i + j]
  BY <1>1, SubSeqProperties
<1> HIDE DEF a, b
<1>4. /\ a \o b \in Seq(S) /\ Len(a \o b) = Len(s) - 1
      /\ \A j \in 1 .. Len(s) - 1 :
            (a \o b)[j] = IF j <= i - 1 THEN a[j] ELSE b[j - (i - 1)]
  <2>1. /\ a \o b \in Seq(S) /\ Len(a \o b) = Len(a) + Len(b)
        /\ \A j \in 1 .. Len(a) + Len(b) :
              (a \o b)[j] = IF j <= Len(a) THEN a[j] ELSE b[j - Len(a)]
    BY <1>2, <1>3, ConcatProperties
  <2>2. Len(a) + Len(b) = Len(s) - 1
    BY <1>1, <1>2, <1>3
  <2> QED
    BY <1>2, <2>1, <2>2
<1>5. ASSUME NEW j \in 1 .. Len(s) - 1
      PROVE  (a \o b)[j] = IF j < i THEN s[j] ELSE s[j + 1]
  <2>1. CASE j < i
    BY <1>1, <1>2, <1>4, <2>1
  <2>2. CASE ~ (j < i)
    <3>1. j - (i - 1) \in 1 .. Len(s) - i /\ i + (j - (i - 1)) = j + 1
      BY <1>1, <2>2
    <3>2. ~ (j <= i - 1)
      BY <1>1, <2>2
    <3>3. (a \o b)[j] = b[j - (i - 1)]
      BY <1>4, <3>2
    <3> QED
      BY <1>3, <2>2, <3>1, <3>3
  <2> QED
    BY <2>1, <2>2
<1> QED
  BY <1>4, <1>5 DEF Erase, a, b

\* An erase takes one node from a list without repetitions.
LEMMA ErasedOne ==
    ASSUME NEW S, NEW s \in Seq(S), IsInjective(s), NEW i \in 1 .. Len(s)
    PROVE  /\ IsInjective(Erase(s, i))
           /\ Range(Erase(s, i)) = Range(s) \ {s[i]}
<1> DEFINE r == Erase(s, i)
<1>1. /\ r \in Seq(S) /\ Len(r) = Len(s) - 1
      /\ \A j \in 1 .. Len(s) - 1 : r[j] = IF j < i THEN s[j] ELSE s[j + 1]
  BY ErasedAt
<1>2. DOMAIN s = 1 .. Len(s) /\ Len(s) \in Nat /\ DOMAIN r = 1 .. Len(s) - 1
  BY <1>1
<1> HIDE DEF r
<1>3. \A m, n \in 1 .. Len(s) : s[m] = s[n] => m = n
  BY <1>2 DEF IsInjective
<1>4. \A m, n \in 1 .. Len(s) - 1 : r[m] = r[n] => m = n
  BY <1>1, <1>2, <1>3
<1>5. \A m \in 1 .. Len(s) - 1 : r[m] \in Range(s) /\ r[m] # s[i]
  BY <1>1, <1>2, <1>3 DEF Range
<1>6. ASSUME NEW n \in 1 .. Len(s), s[n] # s[i]
      PROVE  s[n] \in Range(r)
  <2>1. n # i
    BY <1>6
  <2>2. CASE n < i
    <3>1. n \in 1 .. Len(s) - 1 /\ r[n] = s[n]
      BY <1>1, <1>2, <2>2
    <3> QED
      BY <1>2, <3>1 DEF Range
  <2>3. CASE n > i
    <3>1. n - 1 \in 1 .. Len(s) - 1 /\ ~ (n - 1 < i) /\ (n - 1) + 1 = n
      BY <1>2, <2>3
    <3>2. r[n - 1] = s[n]
      BY <1>1, <3>1
    <3> QED
      BY <1>2, <3>1, <3>2 DEF Range
  <2> QED
    BY <2>1, <2>2, <2>3
<1>7. Range(r) = Range(s) \ {s[i]}
  BY <1>2, <1>5, <1>6 DEF Range
<1>8. IsInjective(r)
  BY <1>2, <1>4 DEF IsInjective
<1> QED
  BY <1>7, <1>8 DEF r

\* push_back of a new node.
LEMMA PushedBack ==
    \A s \in Seq(Places), p \in Places :
        IsInjective(s) /\ p \notin Range(s) =>
            /\ Append(s, p) \in Seq(Places) /\ Len(Append(s, p)) = Len(s) + 1
            /\ IsInjective(Append(s, p))
            /\ Range(Append(s, p)) = Range(s) \cup {p}
<1> SUFFICES ASSUME NEW s \in Seq(Places), NEW p \in Places,
                    IsInjective(s), p \notin Range(s)
             PROVE  /\ Append(s, p) \in Seq(Places) /\ Len(Append(s, p)) = Len(s) + 1
                    /\ IsInjective(Append(s, p))
                    /\ Range(Append(s, p)) = Range(s) \cup {p}
  OBVIOUS
<1> DEFINE r == Append(s, p)
<1>1. /\ r \in Seq(Places) /\ Len(r) = Len(s) + 1 /\ Len(s) \in Nat
      /\ \A j \in 1 .. Len(s) : r[j] = s[j]
      /\ r[Len(s) + 1] = p
  OBVIOUS
<1>2. DOMAIN s = 1 .. Len(s) /\ DOMAIN r = 1 .. Len(s) + 1
  BY <1>1
<1> HIDE DEF r
<1>3. \A m \in 1 .. Len(s) : s[m] # p
  BY <1>2 DEF Range
<1>4. \A m, n \in 1 .. Len(s) : s[m] = s[n] => m = n
  BY <1>2 DEF IsInjective
<1>5. \A m, n \in 1 .. Len(s) + 1 : r[m] = r[n] => m = n
  BY <1>1, <1>3, <1>4
<1>6. \A m \in 1 .. Len(s) + 1 : r[m] \in Range(s) \cup {p}
  BY <1>1, <1>2 DEF Range
<1>7. \A m \in 1 .. Len(s) : s[m] \in Range(r)
  BY <1>1, <1>2 DEF Range
<1>8. p \in Range(r)
  BY <1>1, <1>2 DEF Range
<1>9. Range(r) = Range(s) \cup {p}
  BY <1>2, <1>6, <1>7, <1>8 DEF Range
<1>10. IsInjective(r)
  BY <1>2, <1>5 DEF IsInjective
<1> QED
  BY <1>1, <1>9, <1>10 DEF r

\* pop_front.
LEMMA PoppedFront ==
    ASSUME NEW S, NEW s \in Seq(S), IsInjective(s), s # <<>>
    PROVE  /\ Tail(s) \in Seq(S) /\ Len(Tail(s)) = Len(s) - 1
           /\ IsInjective(Tail(s)) /\ Head(s) \in Range(s)
           /\ Range(Tail(s)) = Range(s) \ {Head(s)}
<1>1. Len(s) \in Nat /\ Len(s) > 0 /\ Head(s) = s[1] /\ DOMAIN s = 1 .. Len(s)
  OBVIOUS
<1>2. /\ Tail(s) \in Seq(S) /\ Len(Tail(s)) = Len(s) - 1
      /\ \A j \in 1 .. Len(s) - 1 : Tail(s)[j] = s[j + 1]
  BY <1>1
<1>3. /\ Erase(s, 1) \in Seq(S) /\ Len(Erase(s, 1)) = Len(s) - 1
      /\ \A j \in 1 .. Len(s) - 1 : Erase(s, 1)[j] = s[j + 1]
  <2>1. 1 \in 1 .. Len(s) /\ \A j \in 1 .. Len(s) - 1 : ~ (j < 1)
    BY <1>1
  <2> QED
    BY <2>1, ErasedAt
<1>4. Tail(s) = Erase(s, 1)
  BY <1>2, <1>3, SeqEqual
<1>5. 1 \in 1 .. Len(s)
  BY <1>1
<1>6. Head(s) \in Range(s)
  BY <1>1 DEF Range
<1>7. /\ IsInjective(Erase(s, 1))
      /\ Range(Erase(s, 1)) = Range(s) \ {s[1]}
  BY <1>5, ErasedOne
<1> QED
  BY <1>1, <1>2, <1>4, <1>6, <1>7

-----------------------------------------------------------------------------
(* The invariant, for each change of the list.                             *)

LruOK ==
    /\ lst \in Seq(Places) /\ IsInjective(lst) /\ Len(lst) <= MaxSize
    /\ text \in [Places -> Keys \cup {None}]
    /\ hash \in [Keys -> Places \cup {None}]
    /\ IteratorsValid

\* Where the erase of a tracked key's node finds it, and what is left.
LEMMA WithoutIs ==
    ASSUME LruOK, NEW k \in Keys, Tracked(k)
    PROVE  /\ hash[k] \in Places /\ hash[k] \in Range(lst)
           /\ Without(hash[k]) \in Seq(Places)
           /\ IsInjective(Without(hash[k]))
           /\ Len(Without(hash[k])) + 1 = Len(lst)
           /\ Range(Without(hash[k])) = Range(lst) \ {hash[k]}
<1> DEFINE j == CHOOSE i \in DOMAIN lst : lst[i] = hash[k]
<1>1. hash[k] \in Places /\ hash[k] \in Range(lst)
  BY DEF LruOK, Tracked, IteratorsValid
<1>2. j \in DOMAIN lst /\ lst[j] = hash[k]
  BY <1>1 DEF Range
<1>3. lst \in Seq(Places) /\ IsInjective(lst) /\ Len(lst) \in Nat
      /\ DOMAIN lst = 1 .. Len(lst)
  BY DEF LruOK
<1> HIDE DEF j
<1>4. j \in 1 .. Len(lst)
  BY <1>2, <1>3
<1>5. Erase(lst, j) \in Seq(Places) /\ Len(Erase(lst, j)) = Len(lst) - 1
  BY <1>3, <1>4, ErasedAt
<1>6. IsInjective(Erase(lst, j)) /\ Range(Erase(lst, j)) = Range(lst) \ {lst[j]}
  BY <1>3, <1>4, ErasedOne
<1>7. Len(Erase(lst, j)) + 1 = Len(lst)
  BY <1>3, <1>5
<1>8. Without(hash[k]) = Erase(lst, j)
  BY DEF Without, j
<1> QED
  BY <1>1, <1>2, <1>5, <1>6, <1>7, <1>8

\* What the invariant says of the memory, element by element.
LEMMA NodesAndIterators ==
    ASSUME LruOK
    PROVE  /\ Range(lst) \subseteq Places
           /\ \A p \in Range(lst) : text[p] \in Keys /\ hash[text[p]] = p
           /\ \A q \in Keys : hash[q] # None =>
                 /\ hash[q] \in Places /\ hash[q] \in Range(lst)
                 /\ text[hash[q]] = q
<1>1. Range(lst) \subseteq Places
  BY DEF LruOK, Range
<1> QED
  BY <1>1 DEF LruOK, IteratorsValid, Tracked

\* access, and set of a tracked key.
LEMMA MoveToBackKeeps ==
    ASSUME LruOK, NEW k \in Keys, Tracked(k), MoveToBack(k)
    PROVE  LruOK' /\ \A q \in Keys : Tracked(q)' => Tracked(q)
<1> DEFINE old == hash[k]
           w == Without(hash[k])
<1>1. PICK p \in Places \ Range(w) :
         /\ lst' = Append(w, p)
         /\ text' = [text EXCEPT ![old] = None, ![p] = k]
         /\ hash' = [hash EXCEPT ![k] = p]
  BY DEF MoveToBack
<1>2. /\ old \in Places /\ old \in Range(lst) /\ w \in Seq(Places)
      /\ IsInjective(w) /\ Len(w) + 1 = Len(lst) /\ Range(w) = Range(lst) \ {old}
  BY WithoutIs
<1>3. old = hash[k] /\ old # None
  BY DEF Tracked
<1> HIDE DEF w, old
<1>4. /\ lst' \in Seq(Places) /\ Len(lst') = Len(w) + 1 /\ IsInjective(lst')
      /\ Range(lst') = Range(w) \cup {p}
  <2>1. p \in Places /\ p \notin Range(w)
    OBVIOUS
  <2>2. /\ Append(w, p) \in Seq(Places) /\ Len(Append(w, p)) = Len(w) + 1
        /\ IsInjective(Append(w, p)) /\ Range(Append(w, p)) = Range(w) \cup {p}
    BY <1>2, <2>1, PushedBack
  <2> QED
    BY <1>1, <2>2
<1>5. Len(lst') <= MaxSize
  BY <1>2, <1>4 DEF LruOK
<1>6. p \in Places /\ p # None /\ k # None
  BY NoneAssumption
<1>7. /\ text \in [Places -> Keys \cup {None}] /\ hash \in [Keys -> Places \cup {None}]
  BY DEF LruOK
<1>8. /\ text' \in [Places -> Keys \cup {None}] /\ hash' \in [Keys -> Places \cup {None}]
  BY <1>1, <1>2, <1>6, <1>7
<1>9. /\ text'[p] = k
      /\ \A x \in Places : x # p /\ x # old => text'[x] = text[x]
      /\ hash'[k] = p
      /\ \A q \in Keys : q # k => hash'[q] = hash[q]
  BY <1>1, <1>2, <1>6, <1>7
<1>10. ASSUME NEW q \in Keys, hash'[q] # None
       PROVE  hash'[q] \in Range(lst') /\ text'[hash'[q]] = q /\ hash[q] # None
  <2>1. CASE q = k
    BY <1>3, <1>4, <1>9, <2>1
  <2>2. CASE q # k
    <3>1. hash'[q] = hash[q] /\ hash[q] \in Places /\ hash[q] \in Range(lst)
          /\ text[hash[q]] = q
      BY <1>9, <1>10, <2>2, NodesAndIterators
    <3>2. hash[q] # old
      BY <1>2, <1>3, <2>2, <3>1, NodesAndIterators
    <3>3. hash[q] \in Range(w) /\ hash[q] # p
      BY <1>1, <1>2, <3>1, <3>2
    <3> QED
      BY <1>4, <1>9, <1>10, <3>1, <3>2, <3>3
  <2> QED
    BY <2>1, <2>2
<1>11. ASSUME NEW x \in Range(lst')
       PROVE  text'[x] # None /\ hash'[text'[x]] = x
  <2>1. CASE x = p
    BY <1>6, <1>9, <2>1
  <2>2. CASE x # p
    <3>1. x \in Range(lst) /\ x # old
      BY <1>2, <1>4, <1>11, <2>2
    <3>2. x \in Places /\ text[x] \in Keys /\ hash[text[x]] = x
      BY <3>1, NodesAndIterators
    <3>3. text'[x] = text[x] /\ text[x] # k
      BY <1>3, <1>9, <2>2, <3>1, <3>2
    <3> QED
      BY <1>9, <3>2, <3>3, NoneAssumption
  <2> QED
    BY <2>1, <2>2
<1>12. IteratorsValid'
  BY <1>10, <1>11 DEF IteratorsValid, Tracked
<1> QED
  BY <1>4, <1>5, <1>8, <1>10, <1>12 DEF LruOK, Tracked

\* set of a key that is not tracked, with room in the list.
LEMMA PushBackKeeps ==
    ASSUME LruOK, NEW k \in Keys, ~ Tracked(k), Len(lst) + 1 <= MaxSize,
           NEW p \in Places \ Range(lst),
           lst' = Append(lst, p),
           text' = [text EXCEPT ![p] = k],
           hash' = [hash EXCEPT ![k] = p]
    PROVE  LruOK' /\ \A q \in Keys : Tracked(q)' => q = k \/ Tracked(q)
<1>1. /\ lst \in Seq(Places) /\ IsInjective(lst) /\ Len(lst) \in Nat
      /\ text \in [Places -> Keys \cup {None}] /\ hash \in [Keys -> Places \cup {None}]
  BY DEF LruOK
<1>2. p \in Places /\ p \notin Range(lst) /\ p # None /\ k # None
  BY NoneAssumption
<1>3. /\ Append(lst, p) \in Seq(Places) /\ Len(Append(lst, p)) = Len(lst) + 1
      /\ IsInjective(Append(lst, p)) /\ Range(Append(lst, p)) = Range(lst) \cup {p}
  BY <1>1, <1>2, PushedBack
<1>4. /\ lst' \in Seq(Places) /\ IsInjective(lst') /\ Len(lst') <= MaxSize
      /\ Range(lst') = Range(lst) \cup {p}
  BY <1>3
<1>5. /\ text' \in [Places -> Keys \cup {None}] /\ hash' \in [Keys -> Places \cup {None}]
  BY <1>1, <1>2
<1>6. /\ text'[p] = k /\ \A x \in Places : x # p => text'[x] = text[x]
      /\ hash'[k] = p /\ \A q \in Keys : q # k => hash'[q] = hash[q]
  BY <1>1, <1>2
<1>7. ASSUME NEW q \in Keys, hash'[q] # None
      PROVE  hash'[q] \in Range(lst') /\ text'[hash'[q]] = q
  <2>1. CASE q = k
    BY <1>4, <1>6, <2>1
  <2>2. CASE q # k
    <3>1. hash'[q] = hash[q] /\ hash[q] \in Places /\ hash[q] \in Range(lst)
          /\ text[hash[q]] = q
      BY <1>6, <1>7, <2>2, NodesAndIterators
    <3> QED
      BY <1>2, <1>4, <1>6, <3>1
  <2> QED
    BY <2>1, <2>2
<1>8. ASSUME NEW x \in Range(lst')
      PROVE  text'[x] # None /\ hash'[text'[x]] = x
  <2>1. CASE x = p
    BY <1>2, <1>6, <2>1
  <2>2. CASE x # p
    <3>1. x \in Places /\ text[x] \in Keys /\ hash[text[x]] = x
      BY <1>4, <2>2, NodesAndIterators
    <3>2. x # None /\ hash[k] = None
      BY <3>1, NoneAssumption DEF Tracked
    <3> QED
      BY <1>6, <2>2, <3>1, <3>2, NoneAssumption
  <2> QED
    BY <2>1, <2>2
<1>9. IteratorsValid'
  BY <1>7, <1>8 DEF IteratorsValid, Tracked
<1> QED
  BY <1>4, <1>5, <1>6, <1>9 DEF LruOK, Tracked

\* set of a key that is not tracked, with a list that is full.
LEMMA PopFrontKeeps ==
    ASSUME LruOK, NEW k \in Keys, ~ Tracked(k), Len(lst) + 1 > MaxSize,
           NEW p \in Places \ Range(lst),
           lst' = Append(Tail(lst), p),
           text' = [text EXCEPT ![Head(lst)] = None, ![p] = k],
           hash' = [hash EXCEPT ![text[Head(lst)]] = None, ![k] = p]
    PROVE  LruOK' /\ \A q \in Keys : Tracked(q)' => q = k \/ Tracked(q)
<1> DEFINE front == Head(lst)
           gone == text[Head(lst)]
           t == Tail(lst)
<1>1. /\ lst \in Seq(Places) /\ IsInjective(lst) /\ Len(lst) \in Nat
      /\ text \in [Places -> Keys \cup {None}] /\ hash \in [Keys -> Places \cup {None}]
      /\ Len(lst) <= MaxSize
  BY DEF LruOK
<1>2. p \in Places /\ p \notin Range(lst) /\ p # None /\ k # None
  BY NoneAssumption
<1>3. lst # <<>>
  BY <1>1, MaxSizeAssumption
<1>4. /\ t \in Seq(Places) /\ Len(t) = Len(lst) - 1 /\ IsInjective(t)
      /\ front \in Range(lst) /\ Range(t) = Range(lst) \ {front}
  BY <1>1, <1>3, PoppedFront
<1>5. /\ front \in Places /\ front # None /\ gone \in Keys /\ hash[gone] = front
  BY <1>4, NodesAndIterators, NoneAssumption
<1>6. gone # k /\ front # p
  BY <1>2, <1>4, <1>5 DEF Tracked
<1>7. /\ lst' = Append(t, p)
      /\ text' = [text EXCEPT ![front] = None, ![p] = k]
      /\ hash' = [hash EXCEPT ![gone] = None, ![k] = p]
  OBVIOUS
<1> HIDE DEF front, gone, t
<1>8. /\ Append(t, p) \in Seq(Places) /\ Len(Append(t, p)) = Len(t) + 1
      /\ IsInjective(Append(t, p)) /\ Range(Append(t, p)) = Range(t) \cup {p}
  <2>1. p \notin Range(t)
    BY <1>2, <1>4
  <2> QED
    BY <1>2, <1>4, <2>1, PushedBack
<1>9. /\ lst' \in Seq(Places) /\ IsInjective(lst')
      /\ Range(lst') = (Range(lst) \ {front}) \cup {p}
  BY <1>4, <1>7, <1>8
<1>10. Len(lst') <= MaxSize
  BY <1>1, <1>4, <1>7, <1>8
<1>11. /\ text' \in [Places -> Keys \cup {None}] /\ hash' \in [Keys -> Places \cup {None}]
  BY <1>1, <1>2, <1>5, <1>7
<1>12. /\ text'[p] = k
       /\ \A x \in Places : x # p /\ x # front => text'[x] = text[x]
       /\ hash'[k] = p /\ hash'[gone] = None
       /\ \A q \in Keys : q # k /\ q # gone => hash'[q] = hash[q]
  BY <1>1, <1>2, <1>5, <1>6, <1>7
<1>13. ASSUME NEW q \in Keys, hash'[q] # None
       PROVE  hash'[q] \in Range(lst') /\ text'[hash'[q]] = q /\ (q = k \/ hash[q] # None)
  <2>1. CASE q = k
    BY <1>9, <1>12, <2>1
  <2>2. CASE q # k
    <3>1. q # gone
      BY <1>12, <1>13
    <3>2. hash'[q] = hash[q] /\ hash[q] \in Places /\ hash[q] \in Range(lst)
          /\ text[hash[q]] = q
      BY <1>12, <1>13, <2>2, <3>1, NodesAndIterators
    <3>3. hash[q] # front /\ hash[q] # p
      BY <1>2, <3>1, <3>2 DEF gone, front
    <3> QED
      BY <1>9, <1>12, <1>13, <3>2, <3>3
  <2> QED
    BY <2>1, <2>2
<1>14. ASSUME NEW x \in Range(lst')
       PROVE  text'[x] # None /\ hash'[text'[x]] = x
  <2>1. CASE x = p
    BY <1>2, <1>12, <2>1
  <2>2. CASE x # p
    <3>1. x \in Range(lst) /\ x # front
      BY <1>9, <1>14, <2>2
    <3>2. x \in Places /\ x # None /\ text[x] \in Keys /\ hash[text[x]] = x
      BY <3>1, NodesAndIterators, NoneAssumption
    <3>3. text'[x] = text[x] /\ text[x] # k /\ text[x] # gone
      BY <1>5, <1>12, <2>2, <3>1, <3>2 DEF Tracked
    <3> QED
      BY <1>12, <3>2, <3>3, NoneAssumption
  <2> QED
    BY <2>1, <2>2
<1>15. IteratorsValid'
  BY <1>13, <1>14 DEF IteratorsValid, Tracked
<1> QED
  BY <1>9, <1>10, <1>11, <1>13, <1>15 DEF LruOK, Tracked

\* del of a tracked key.
LEMMA EraseKeeps ==
    ASSUME LruOK, NEW k \in Keys, Tracked(k), LruDel(k)
    PROVE  LruOK' /\ \A q \in Keys : Tracked(q)' => q # k /\ Tracked(q)
<1> DEFINE old == hash[k]
           w == Without(hash[k])
<1>1. /\ lst' = w /\ text' = [text EXCEPT ![old] = None]
      /\ hash' = [hash EXCEPT ![k] = None]
  BY DEF LruDel
<1>2. /\ old \in Places /\ old \in Range(lst) /\ w \in Seq(Places)
      /\ IsInjective(w) /\ Len(w) + 1 = Len(lst) /\ Range(w) = Range(lst) \ {old}
  BY WithoutIs
<1>3. /\ text \in [Places -> Keys \cup {None}] /\ hash \in [Keys -> Places \cup {None}]
      /\ Len(lst) <= MaxSize /\ old = hash[k]
  BY DEF LruOK
<1> HIDE DEF w, old
<1>4. Len(w) \in Nat /\ Len(w) <= MaxSize
  BY <1>2, <1>3, MaxSizeAssumption
<1>5. /\ text' \in [Places -> Keys \cup {None}] /\ hash' \in [Keys -> Places \cup {None}]
  BY <1>1, <1>2, <1>3
<1>6. /\ \A x \in Places : x # old => text'[x] = text[x]
      /\ hash'[k] = None
      /\ \A q \in Keys : q # k => hash'[q] = hash[q]
  BY <1>1, <1>2, <1>3
<1>7. ASSUME NEW q \in Keys, hash'[q] # None
      PROVE  /\ hash'[q] \in Range(lst') /\ text'[hash'[q]] = q
             /\ q # k /\ hash[q] # None
  <2>1. q # k
    BY <1>6, <1>7
  <2>2. hash'[q] = hash[q] /\ hash[q] \in Places /\ hash[q] \in Range(lst)
        /\ text[hash[q]] = q
    BY <1>6, <1>7, <2>1, NodesAndIterators
  <2>3. hash[q] # old
    BY <1>3, <2>1, <2>2, NodesAndIterators DEF Tracked
  <2> QED
    BY <1>1, <1>2, <1>6, <1>7, <2>1, <2>2, <2>3
<1>8. ASSUME NEW x \in Range(lst')
      PROVE  text'[x] # None /\ hash'[text'[x]] = x
  <2>1. x \in Range(lst) /\ x # old
    BY <1>1, <1>2, <1>8
  <2>2. x \in Places /\ text[x] \in Keys /\ hash[text[x]] = x
    BY <2>1, NodesAndIterators
  <2>3. text'[x] = text[x] /\ text[x] # k
    BY <1>3, <1>6, <2>1, <2>2
  <2> QED
    BY <1>6, <2>2, <2>3, NoneAssumption
<1>9. IteratorsValid'
  BY <1>7, <1>8 DEF IteratorsValid, Tracked
<1> QED
  BY <1>1, <1>2, <1>4, <1>5, <1>7, <1>9 DEF LruOK, Tracked

-----------------------------------------------------------------------------
(* The operations of KVStore.                                              *)

Inv ==
    /\ data \in [Keys -> Values \cup {None}]
    /\ LruOK
    /\ TrackedIsStored

\* LRU::set tracks the key it is given and no other.
LEMMA LruSetKeeps ==
    ASSUME LruOK, NEW k \in Keys, LruSet(k)
    PROVE  LruOK' /\ \A q \in Keys : Tracked(q)' => q = k \/ Tracked(q)
<1>1. CASE Tracked(k)
  <2>1. MoveToBack(k)
    BY <1>1 DEF LruSet
  <2> QED
    BY <1>1, <2>1, MoveToBackKeeps
<1>2. CASE ~ Tracked(k)
  <2>1. TrackNew(k)
    BY <1>2 DEF LruSet
  <2>2. PICK p \in Places \ Range(lst) :
          IF Len(lst) + 1 > MaxSize
          THEN /\ lst' = Append(Tail(lst), p)
               /\ text' = [text EXCEPT ![Head(lst)] = None, ![p] = k]
               /\ hash' = [hash EXCEPT ![text[Head(lst)]] = None, ![k] = p]
          ELSE /\ lst' = Append(lst, p)
               /\ text' = [text EXCEPT ![p] = k]
               /\ hash' = [hash EXCEPT ![k] = p]
    BY <2>1 DEF TrackNew
  <2>3. CASE Len(lst) + 1 > MaxSize
    BY <1>2, <2>2, <2>3, PopFrontKeeps
  <2>4. CASE ~ (Len(lst) + 1 > MaxSize)
    <3>1. Len(lst) + 1 <= MaxSize
      BY <2>4, MaxSizeAssumption DEF LruOK
    <3> QED
      BY <1>2, <2>2, <2>4, <3>1, PushBackKeeps
  <2> QED
    BY <2>3, <2>4
<1> QED
  BY <1>1, <1>2

\* A step that leaves LRU alone.
LEMMA LruUnchanged ==
    ASSUME LruOK, UNCHANGED lru
    PROVE  LruOK' /\ \A q \in Keys : Tracked(q)' <=> Tracked(q)
BY DEF lru, LruOK, IteratorsValid, Tracked

LEMMA InitInv == Init => Inv
<1> SUFFICES ASSUME Init PROVE Inv
  OBVIOUS
<1>1. /\ lst = <<>> /\ Range(lst) = {} /\ IsInjective(lst)
      /\ lst \in Seq(Places) /\ Len(lst) <= MaxSize
  BY MaxSizeAssumption DEF Init, Range, IsInjective
<1>2. /\ text \in [Places -> Keys \cup {None}] /\ hash \in [Keys -> Places \cup {None}]
      /\ \A k \in Keys : ~ Tracked(k)
  BY DEF Init, Tracked
<1> QED
  BY <1>1, <1>2 DEF Init, Inv, LruOK, IteratorsValid, TrackedIsStored

LEMMA NextInv == Inv /\ [Next]_vars => Inv'
<1> SUFFICES ASSUME Inv, [Next]_vars PROVE Inv'
  OBVIOUS
<1>1. /\ LruOK /\ data \in [Keys -> Values \cup {None}]
      /\ \A q \in Keys : Tracked(q) => data[q] # None
  BY DEF Inv, TrackedIsStored
<1>2. ASSUME NEW k \in Keys, Get(k) PROVE Inv'
  <2>1. data' = data
    BY <1>2 DEF Get
  <2>2. LruOK' /\ \A q \in Keys : Tracked(q)' => Tracked(q)
    <3>1. CASE Tracked(k)
      <4>1. MoveToBack(k)
        BY <1>2, <3>1 DEF Get, Access
      <4> QED
        BY <1>1, <3>1, <4>1, MoveToBackKeeps
    <3>2. CASE ~ Tracked(k)
      <4>1. UNCHANGED lru
        BY <1>2, <3>2 DEF Get, Access
      <4> QED
        BY <1>1, <4>1, LruUnchanged
    <3> QED
      BY <3>1, <3>2
  <2> QED
    BY <1>1, <2>1, <2>2 DEF Inv, TrackedIsStored
<1>3. ASSUME NEW k \in Keys, Del(k) PROVE Inv'
  <2>1. data' = [data EXCEPT ![k] = None]
    BY <1>3 DEF Del
  <2>2. LruOK' /\ \A q \in Keys : Tracked(q)' => q # k /\ Tracked(q)
    <3>1. CASE Tracked(k)
      BY <1>1, <1>3, <3>1, EraseKeeps DEF Del
    <3>2. CASE ~ Tracked(k)
      <4>1. UNCHANGED lru
        BY <1>3, <3>2 DEF Del, LruDel
      <4> QED
        BY <1>1, <3>2, <4>1, LruUnchanged
    <3> QED
      BY <3>1, <3>2
  <2> QED
    BY <1>1, <2>1, <2>2 DEF Inv, TrackedIsStored
<1>4. ASSUME NEW k \in Keys, NEW v \in Values, Set(k, v) \/ SetThrows(k, v)
      PROVE  Inv'
  <2>1. data' = [data EXCEPT ![k] = v] /\ v # None
    BY <1>4, NoneAssumption DEF Set, SetThrows
  <2>2. LruOK' /\ \A q \in Keys : Tracked(q)' => q = k \/ Tracked(q)
    BY <1>1, <1>4, LruSetKeeps, LruUnchanged DEF Set, SetThrows
  <2> QED
    BY <1>1, <2>1, <2>2 DEF Inv, TrackedIsStored
<1>5. CASE UNCHANGED vars
  <2>1. data' = data /\ UNCHANGED lru
    BY <1>5 DEF vars, lru
  <2> QED
    BY <1>1, <2>1, LruUnchanged DEF Inv, TrackedIsStored
<1> QED
  BY <1>2, <1>3, <1>4, <1>5 DEF Next

THEOREM Invariant == Spec => []Inv
BY InitInv, NextInv, PTL DEF Spec

\* The list never holds a node twice and never more than maxsz of them.
THEOREM TypeCorrect == Spec => []TypeOK
<1>1. Inv => TypeOK
  BY DEF Inv, LruOK, TypeOK
<1> QED
  BY <1>1, Invariant, PTL

\* However memory is taken again, no iterator of LRU points to a node that is
\* gone or that holds another key.
THEOREM IteratorsAlwaysValid == Spec => []IteratorsValid
<1>1. Inv => IteratorsValid
  BY DEF Inv, LruOK
<1> QED
  BY <1>1, Invariant, PTL

\* LRU tracks no key that the table does not hold.
THEOREM TrackedAlwaysStored == Spec => []TrackedIsStored
<1>1. Inv => TrackedIsStored
  BY DEF Inv
<1> QED
  BY <1>1, Invariant, PTL

-----------------------------------------------------------------------------
(* The list with its iterators implements the order of last use: a step of *)
(* the list, read through the keys of its nodes, is a step of the order.   *)

\* The keys of a list of nodes, in the memory t.
Texts(l, t) == [i \in DOMAIN l |-> t[l[i]]]

Memory == [Places -> Keys \cup {None}]

LEMMA TextsIs ==
    ASSUME NEW l \in Seq(Places), NEW t \in Memory
    PROVE  /\ Texts(l, t) \in Seq(Keys \cup {None})
           /\ Len(Texts(l, t)) = Len(l)
           /\ \A i \in 1 .. Len(l) : Texts(l, t)[i] = t[l[i]]
<1>1. DOMAIN l = 1 .. Len(l) /\ Len(l) \in Nat
      /\ \A i \in 1 .. Len(l) : l[i] \in Places
  OBVIOUS
<1>2. \A i \in 1 .. Len(l) : t[l[i]] \in Keys \cup {None}
  BY <1>1 DEF Memory
<1>3. Texts(l, t) = [i \in 1 .. Len(l) |-> t[l[i]]]
  BY <1>1 DEF Texts
<1> QED
  BY <1>1, <1>2, <1>3

\* Nodes that a step leaves alone keep their keys.
LEMMA TextsSame ==
    ASSUME NEW l \in Seq(Places), NEW t, NEW u, \A x \in Range(l) : t[x] = u[x]
    PROVE  Texts(l, t) = Texts(l, u)
BY DEF Texts, Range

LEMMA TextsAppend ==
    ASSUME NEW l \in Seq(Places), NEW p \in Places, NEW t \in Memory
    PROVE  Texts(Append(l, p), t) = Append(Texts(l, t), t[p])
<1> DEFINE a == Append(l, p)
           b == Texts(l, t)
<1>1. /\ a \in Seq(Places) /\ Len(a) = Len(l) + 1 /\ Len(l) \in Nat
      /\ \A i \in 1 .. Len(l) : a[i] = l[i]
      /\ a[Len(l) + 1] = p
  OBVIOUS
<1>2. /\ b \in Seq(Keys \cup {None}) /\ Len(b) = Len(l)
      /\ \A i \in 1 .. Len(l) : b[i] = t[l[i]]
  BY TextsIs
<1> HIDE DEF a, b
<1>3. /\ Texts(a, t) \in Seq(Keys \cup {None}) /\ Len(Texts(a, t)) = Len(a)
      /\ \A i \in 1 .. Len(a) : Texts(a, t)[i] = t[a[i]]
  BY <1>1, TextsIs
<1>4. t[p] \in Keys \cup {None}
  BY DEF Memory
<1>5. /\ Append(b, t[p]) \in Seq(Keys \cup {None})
      /\ Len(Append(b, t[p])) = Len(l) + 1
      /\ \A i \in 1 .. Len(l) : Append(b, t[p])[i] = b[i]
      /\ Append(b, t[p])[Len(l) + 1] = t[p]
  BY <1>2, <1>4
<1>6. \A i \in 1 .. Len(l) + 1 : Texts(a, t)[i] = Append(b, t[p])[i]
  BY <1>1, <1>2, <1>3, <1>5
<1>7. Texts(a, t) = Append(b, t[p])
  BY <1>1, <1>3, <1>5, <1>6, SeqEqual
<1> QED
  BY <1>7 DEF a, b

LEMMA TextsRemove ==
    ASSUME NEW l \in Seq(Places), NEW j \in 1 .. Len(l), NEW t \in Memory
    PROVE  Texts(Erase(l, j), t) = Erase(Texts(l, t), j)
<1> DEFINE a == Erase(l, j)
           b == Texts(l, t)
           c == Erase(b, j)
<1>1. /\ a \in Seq(Places) /\ Len(a) = Len(l) - 1
      /\ \A i \in 1 .. Len(l) - 1 : a[i] = IF i < j THEN l[i] ELSE l[i + 1]
  BY ErasedAt
<1>2. /\ b \in Seq(Keys \cup {None}) /\ Len(b) = Len(l)
      /\ \A i \in 1 .. Len(l) : b[i] = t[l[i]]
  BY TextsIs
<1> HIDE DEF a, b
<1>3. /\ Texts(a, t) \in Seq(Keys \cup {None}) /\ Len(Texts(a, t)) = Len(a)
      /\ \A i \in 1 .. Len(a) : Texts(a, t)[i] = t[a[i]]
  BY <1>1, TextsIs
<1>4. /\ c \in Seq(Keys \cup {None}) /\ Len(c) = Len(b) - 1
      /\ \A i \in 1 .. Len(b) - 1 : c[i] = IF i < j THEN b[i] ELSE b[i + 1]
  <2>1. j \in 1 .. Len(b)
    BY <1>2
  <2> QED
    BY <1>2, <2>1, ErasedAt
<1> HIDE DEF c
<1>5. ASSUME NEW i \in 1 .. Len(l) - 1
      PROVE  Texts(a, t)[i] = c[i]
  <2>1. i \in 1 .. Len(l) /\ i + 1 \in 1 .. Len(l) /\ i \in 1 .. Len(a)
        /\ i \in 1 .. Len(b) - 1
    BY <1>1, <1>2
  <2>2. Texts(a, t)[i] = t[a[i]] /\ b[i] = t[l[i]] /\ b[i + 1] = t[l[i + 1]]
    BY <1>2, <1>3, <2>1
  <2>3. a[i] = (IF i < j THEN l[i] ELSE l[i + 1])
        /\ c[i] = (IF i < j THEN b[i] ELSE b[i + 1])
    BY <1>1, <1>4, <2>1
  <2> QED
    BY <2>2, <2>3
<1>6. Len(Texts(a, t)) = Len(c) /\ Len(Texts(a, t)) = Len(l) - 1
  BY <1>1, <1>2, <1>3, <1>4
<1>7. \A i \in 1 .. Len(Texts(a, t)) : Texts(a, t)[i] = c[i]
  BY <1>5, <1>6
<1>8. Texts(a, t) = c
  BY <1>3, <1>4, <1>6, <1>7, SeqEqual
<1> QED
  BY <1>8 DEF a, b, c

\* The keys of the list, and which of them there are.
LEMMA OrderIs ==
    ASSUME LruOK
    PROVE  /\ Texts(lst, text) \in Seq(Keys \cup {None})
           /\ Len(Texts(lst, text)) = Len(lst)
           /\ \A i \in 1 .. Len(lst) : Texts(lst, text)[i] = text[lst[i]]
           /\ \A k \in Keys : k \in Range(Texts(lst, text)) <=> Tracked(k)
<1>1. lst \in Seq(Places) /\ text \in Memory /\ DOMAIN lst = 1 .. Len(lst)
  BY DEF LruOK, Memory
<1>2. /\ Texts(lst, text) \in Seq(Keys \cup {None})
      /\ Len(Texts(lst, text)) = Len(lst)
      /\ \A i \in 1 .. Len(lst) : Texts(lst, text)[i] = text[lst[i]]
  BY <1>1, TextsIs
<1>3. ASSUME NEW k \in Keys, Tracked(k) PROVE k \in Range(Texts(lst, text))
  <2>1. hash[k] \in Range(lst) /\ text[hash[k]] = k
    BY <1>3, NodesAndIterators DEF Tracked
  <2>2. PICK i \in 1 .. Len(lst) : lst[i] = hash[k]
    BY <1>1, <2>1 DEF Range
  <2> QED
    BY <1>2, <2>1, <2>2 DEF Range
<1>4. ASSUME NEW k \in Keys, k \in Range(Texts(lst, text)) PROVE Tracked(k)
  <2>1. PICK i \in 1 .. Len(lst) : text[lst[i]] = k
    BY <1>2, <1>4 DEF Range
  <2>2. lst[i] \in Range(lst)
    BY <1>1 DEF Range
  <2>3. hash[k] = lst[i] /\ lst[i] \in Places
    BY <2>1, <2>2, NodesAndIterators
  <2> QED
    BY <2>3, NoneAssumption DEF Tracked
<1> QED
  BY <1>2, <1>3, <1>4

\* To erase the node of a key is to forget the key.
LEMMA ForgetIs ==
    ASSUME LruOK, NEW k \in Keys, Tracked(k)
    PROVE  Texts(Without(hash[k]), text) = Order!Forget(Texts(lst, text), k)
<1> DEFINE j == CHOOSE i \in DOMAIN lst : lst[i] = hash[k]
           o == Texts(lst, text)
           m == CHOOSE i \in DOMAIN o : o[i] = k
<1>1. /\ lst \in Seq(Places) /\ text \in Memory /\ DOMAIN lst = 1 .. Len(lst)
      /\ \A x, y \in DOMAIN lst : lst[x] = lst[y] => x = y
  BY DEF LruOK, Memory, IsInjective
<1>2. hash[k] \in Range(lst) /\ text[hash[k]] = k
  BY NodesAndIterators DEF Tracked
<1>3. j \in DOMAIN lst /\ lst[j] = hash[k]
  BY <1>2 DEF Range
<1>4. DOMAIN o = DOMAIN lst /\ \A i \in DOMAIN lst : o[i] = text[lst[i]]
  BY DEF Texts
<1>5. m \in DOMAIN lst /\ o[m] = k
  BY <1>2, <1>3, <1>4
<1> HIDE DEF j, m, o
<1>6. lst[m] \in Range(lst) /\ text[lst[m]] = k
  BY <1>4, <1>5 DEF Range
<1>7. lst[m] = hash[k]
  BY <1>6, NodesAndIterators
<1>8. m = j
  BY <1>1, <1>3, <1>5, <1>7
<1>9. Without(hash[k]) = Erase(lst, j)
  BY DEF Without, j
<1>10. Order!Forget(o, k) = Erase(o, m)
  BY DEF Order!Forget, Order!Erase, Erase, m
<1>11. Texts(Erase(lst, j), text) = Erase(o, j)
  BY <1>1, <1>3, TextsRemove DEF o
<1> QED
  BY <1>8, <1>9, <1>10, <1>11 DEF o

\* access, and set of a tracked key, use it.
LEMMA MoveIsUse ==
    ASSUME LruOK, NEW k \in Keys, Tracked(k), MoveToBack(k)
    PROVE  Texts(lst, text)' = Append(Order!Forget(Texts(lst, text), k), k)
<1> DEFINE old == hash[k]
           w == Without(hash[k])
<1>1. PICK p \in Places \ Range(w) :
         /\ lst' = Append(w, p)
         /\ text' = [text EXCEPT ![old] = None, ![p] = k]
  BY DEF MoveToBack
<1>2. old \in Places /\ w \in Seq(Places) /\ Range(w) = Range(lst) \ {old}
  BY WithoutIs
<1>3. Texts(w, text) = Order!Forget(Texts(lst, text), k)
  BY ForgetIs
<1>4. text \in Memory /\ Range(lst) \subseteq Places
  BY NodesAndIterators DEF LruOK, Memory
<1> HIDE DEF w, old
<1>5. p \in Places /\ p \notin Range(w)
  OBVIOUS
<1>6. text' \in Memory /\ text'[p] = k
  BY <1>1, <1>2, <1>4, <1>5 DEF Memory
<1>7. \A x \in Range(w) : text'[x] = text[x]
  BY <1>1, <1>2, <1>4, <1>5 DEF Memory
<1>8. Texts(w, text') = Texts(w, text)
  BY <1>2, <1>7, TextsSame
<1>9. Texts(Append(w, p), text') = Append(Texts(w, text'), text'[p])
  BY <1>2, <1>5, <1>6, TextsAppend
<1>10. Texts(lst, text)' = Texts(Append(w, p), text')
  BY <1>1 DEF Texts
<1> QED
  BY <1>3, <1>6, <1>8, <1>9, <1>10

\* del of a tracked key drops it.
LEMMA EraseIsDrop ==
    ASSUME LruOK, NEW k \in Keys, Tracked(k), LruDel(k)
    PROVE  Texts(lst, text)' = Order!Forget(Texts(lst, text), k)
<1> DEFINE old == hash[k]
           w == Without(hash[k])
<1>1. lst' = w /\ text' = [text EXCEPT ![old] = None]
  BY DEF LruDel
<1>2. old \in Places /\ w \in Seq(Places) /\ Range(w) = Range(lst) \ {old}
  BY WithoutIs
<1>3. Texts(w, text) = Order!Forget(Texts(lst, text), k)
  BY ForgetIs
<1>4. text \in Memory /\ Range(lst) \subseteq Places
  BY NodesAndIterators DEF LruOK, Memory
<1> HIDE DEF w, old
<1>5. \A x \in Range(w) : text'[x] = text[x]
  BY <1>1, <1>2, <1>4 DEF Memory
<1>6. Texts(w, text') = Texts(w, text)
  BY <1>2, <1>5, TextsSame
<1>7. Texts(lst, text)' = Texts(w, text')
  BY <1>1 DEF Texts
<1> QED
  BY <1>3, <1>6, <1>7

\* set of a key that is not tracked adds it, and drops the first of too many.
LEMMA TrackNewIsTrack ==
    ASSUME LruOK, NEW k \in Keys, ~ Tracked(k), TrackNew(k)
    PROVE  LET s == Append(Texts(lst, text), k) IN
           Texts(lst, text)' = IF Len(s) > MaxSize THEN Tail(s) ELSE s
<1> DEFINE o == Texts(lst, text)
<1>1. PICK p \in Places \ Range(lst) :
        IF Len(lst) + 1 > MaxSize
        THEN /\ lst' = Append(Tail(lst), p)
             /\ text' = [text EXCEPT ![Head(lst)] = None, ![p] = k]
        ELSE /\ lst' = Append(lst, p)
             /\ text' = [text EXCEPT ![p] = k]
  BY DEF TrackNew
<1>2. /\ lst \in Seq(Places) /\ IsInjective(lst) /\ Len(lst) \in Nat
      /\ text \in Memory /\ Range(lst) \subseteq Places
  BY NodesAndIterators DEF LruOK, Memory
<1>3. p \in Places /\ p \notin Range(lst)
  OBVIOUS
<1>4. /\ o \in Seq(Keys \cup {None}) /\ Len(o) = Len(lst)
  BY OrderIs
<1>5. Len(Append(o, k)) = Len(lst) + 1
  BY <1>4
<1>6. CASE ~ (Len(lst) + 1 > MaxSize)
  <2>1. lst' = Append(lst, p) /\ text' = [text EXCEPT ![p] = k]
    BY <1>1, <1>6
  <2>2. text' \in Memory /\ text'[p] = k /\ \A x \in Range(lst) : text'[x] = text[x]
    BY <1>2, <1>3, <2>1 DEF Memory
  <2>3. Texts(lst, text') = o
    BY <1>2, <2>2, TextsSame
  <2>4. Texts(Append(lst, p), text') = Append(Texts(lst, text'), text'[p])
    BY <1>2, <1>3, <2>2, TextsAppend
  <2>5. Texts(lst, text)' = Texts(Append(lst, p), text')
    BY <2>1 DEF Texts
  <2>6. Texts(lst, text)' = Append(o, k)
    BY <2>2, <2>3, <2>4, <2>5
  <2> QED
    BY <1>5, <1>6, <2>6
<1>7. CASE Len(lst) + 1 > MaxSize
  <2> DEFINE t == Tail(lst)
             front == Head(lst)
  <2>1. lst' = Append(t, p) /\ text' = [text EXCEPT ![front] = None, ![p] = k]
    BY <1>1, <1>7
  <2>2. lst # <<>>
    BY <1>2, <1>7, MaxSizeAssumption
  <2>3. t \in Seq(Places) /\ front \in Range(lst) /\ Range(t) = Range(lst) \ {front}
    BY <1>2, <2>2, PoppedFront
  <2>4. Texts(t, text) = Tail(o)
    <3>1. o # <<>>
      BY <1>2, <1>4, <2>2
    <3>2. /\ Len(t) = Len(lst) - 1 /\ \A i \in 1 .. Len(lst) - 1 : t[i] = lst[i + 1]
          /\ Len(lst) > 0
      BY <1>2, <2>2
    <3>3. /\ Tail(o) \in Seq(Keys \cup {None}) /\ Len(Tail(o)) = Len(lst) - 1
          /\ \A i \in 1 .. Len(lst) - 1 : Tail(o)[i] = o[i + 1]
      BY <1>4, <3>1, HeadTailProperties
    <3>4. /\ Texts(t, text) \in Seq(Keys \cup {None}) /\ Len(Texts(t, text)) = Len(t)
          /\ \A i \in 1 .. Len(t) : Texts(t, text)[i] = text[t[i]]
      BY <1>2, <2>3, TextsIs
    <3>5. \A i \in 1 .. Len(lst) : o[i] = text[lst[i]]
      BY OrderIs
    <3> HIDE DEF t, o
    <3>6. ASSUME NEW i \in 1 .. Len(lst) - 1 PROVE Texts(t, text)[i] = Tail(o)[i]
      <4>1. i + 1 \in 1 .. Len(lst) /\ i \in 1 .. Len(t)
        BY <1>2, <3>2
      <4> QED
        BY <3>2, <3>3, <3>4, <3>5, <4>1
    <3>7. Len(Texts(t, text)) = Len(Tail(o))
          /\ \A i \in 1 .. Len(Texts(t, text)) : Texts(t, text)[i] = Tail(o)[i]
      BY <3>2, <3>3, <3>4, <3>6
    <3> QED
      BY <3>3, <3>4, <3>7, SeqEqual
  <2>5. Tail(Append(o, k)) = Append(Tail(o), k)
    <3>1. o # <<>>
      BY <1>2, <1>4, <2>2
    <3> HIDE DEF o
    <3> QED
      BY <1>4, <3>1
  <2> HIDE DEF t, front, o
  <2>6. text' \in Memory /\ text'[p] = k /\ \A x \in Range(t) : text'[x] = text[x]
    BY <1>2, <1>3, <2>1, <2>3 DEF Memory
  <2>7. Texts(t, text') = Texts(t, text)
    BY <2>3, <2>6, TextsSame
  <2>8. Texts(Append(t, p), text') = Append(Texts(t, text'), text'[p])
    BY <1>3, <2>3, <2>6, TextsAppend
  <2>9. Texts(lst, text)' = Texts(Append(t, p), text')
    BY <2>1 DEF Texts
  <2>10. Texts(lst, text)' = Tail(Append(o, k))
    BY <2>4, <2>5, <2>6, <2>7, <2>8, <2>9
  <2> QED
    BY <1>5, <1>7, <2>10 DEF o
<1> QED
  BY <1>6, <1>7

\* Every operation of the shard is a step of the order, or none.
LEMMA StepIsOrderStep ==
    ASSUME LruOK, [Next]_vars
    PROVE  Order!Next \/ Texts(lst, text)' = Texts(lst, text)
<1> DEFINE o == Texts(lst, text)
           s(k) == Append(o, k)
<1>1. ASSUME NEW k \in Keys, Tracked(k), MoveToBack(k) PROVE Order!Next
  <2>1. k \in Range(o) /\ o' = Append(Order!Forget(o, k), k)
    BY <1>1, OrderIs, MoveIsUse
  <2> QED
    BY <2>1 DEF Order!Next, Order!Use, Order!Range, Range, Texts
<1>2. ASSUME NEW k \in Keys, Tracked(k), LruDel(k) PROVE Order!Next
  <2>1. k \in Range(o) /\ o' = Order!Forget(o, k)
    BY <1>2, OrderIs, EraseIsDrop
  <2> QED
    BY <2>1 DEF Order!Next, Order!Drop, Order!Range, Range, Texts
<1>3. ASSUME NEW k \in Keys, ~ Tracked(k), TrackNew(k) PROVE Order!Next
  <2>1. k \notin Range(o) /\ o' = IF Len(s(k)) > MaxSize THEN Tail(s(k)) ELSE s(k)
    BY <1>3, OrderIs, TrackNewIsTrack
  <2> QED
    BY <2>1 DEF Order!Next, Order!Track, Order!Range, Range, Texts
<1>4. ASSUME UNCHANGED lru PROVE o' = o
  BY <1>4 DEF lru, Texts
<1> HIDE DEF o
<1>5. ASSUME NEW k \in Keys, Get(k) PROVE Order!Next \/ o' = o
  BY <1>1, <1>4, <1>5 DEF Get, Access
<1>6. ASSUME NEW k \in Keys, Del(k) PROVE Order!Next \/ o' = o
  <2>1. CASE Tracked(k)
    BY <1>2, <1>6, <2>1 DEF Del
  <2>2. CASE ~ Tracked(k)
    BY <1>4, <1>6, <2>2 DEF Del, LruDel
  <2> QED
    BY <2>1, <2>2
<1>7. ASSUME NEW k \in Keys, NEW v \in Values, Set(k, v) \/ SetThrows(k, v)
      PROVE  Order!Next \/ o' = o
  BY <1>1, <1>3, <1>4, <1>7 DEF Set, SetThrows, LruSet
<1>8. CASE UNCHANGED vars
  BY <1>4, <1>8 DEF vars, lru
<1> QED
  BY <1>5, <1>6, <1>7, <1>8 DEF Next, o

\* LRU implements the order of last use: set and access move a key to the back,
\* and the key that goes is the least recently used.
THEOREM OrderImplemented == Spec => ImplementsOrder
<1>1. Init => Order!Init
  BY DEF Init, Order!Init
<1>2. Inv /\ [Next]_vars => [Order!Next]_([i \in DOMAIN lst |-> text[lst[i]]])
  <2> SUFFICES ASSUME Inv, [Next]_vars
               PROVE  [Order!Next]_([i \in DOMAIN lst |-> text[lst[i]]])
    OBVIOUS
  <2>1. Order!Next \/ Texts(lst, text)' = Texts(lst, text)
    BY StepIsOrderStep DEF Inv
  <2> QED
    BY <2>1 DEF Texts
<1> QED
  BY <1>1, <1>2, Invariant, PTL DEF Spec, ImplementsOrder, Order!Spec
=============================================================================
