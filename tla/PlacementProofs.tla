--------------------------- MODULE PlacementProofs ---------------------------
(***************************************************************************)
(* Proofs about topology, ring and groups of a server, for every set of    *)
(* UUIDs, every choice of points and any number of workers.                *)
(*                                                                         *)
(* That few keys move rests on TypeOK alone: a server is on the ring with  *)
(* all of its points, so that the point that decides about a key decides   *)
(* about it on every ring that has its server.  That groups and ring       *)
(* follow the topology needs an invariant of its own, which says of every  *)
(* difference between them which thread will mend it, or which removal was *)
(* crossed.  That the groups are windows is a fact about ranks in a finite *)
(* set of UUIDs and steps round the circle they form.                      *)
(***************************************************************************)
EXTENDS Placement, WellFoundedInduction, FiniteSetTheorems, TLAPS

-----------------------------------------------------------------------------
(* Keys and points.                                                        *)

\* Min of points is one of them and the least.
LEMMA LeastPoint ==
  ASSUME NEW P \in SUBSET Nat, P # {}
  PROVE Min(P) \in P /\ \A q \in P : Min(P) <= q
  <1>1. PICK p \in P : \A q \in P : ~ <<q, p>> \in OpToRel(<, Nat)
        BY NatLessThanWellFounded, WFMin, ZenonT(30)
  <1>2. ASSUME NEW q \in P PROVE p <= q
    <2>1. p \in Nat /\ q \in Nat OBVIOUS
    <2>2. ~ (q < p) BY <1>1, <2>1, ZenonT(30) DEF OpToRel
    <2> QED BY <2>1, <2>2
  <1> QED BY <1>2, ZenonT(30) DEF Min

\* A ring that has every point of the servers on it, and no other.
Whole(r) ==
  /\ r \in [DOMAIN r -> Nodes]
  /\ \A p \in DOMAIN r : p \in Points[r[p]]
  /\ \A n \in Range(r) : Points[n] \subseteq DOMAIN r

\* The points of a ring are hash values.
LEMMA RingPointsAreNumbers ==
  ASSUME NEW r, Whole(r) PROVE DOMAIN r \subseteq Nat
  BY PlacementAssumption DEF Whole

\* The point that decides about a key.
Decides(r, k) ==
  LET above == {p \in DOMAIN r : p >= Hash[k]}
  IN Min(IF above = {} THEN DOMAIN r ELSE above)

\* lower_bound finds the first point from the key's on, else the first of all.
LEMMA DecidingPoint ==
  ASSUME NEW r, Whole(r), DOMAIN r # {}, NEW k \in Keys
  PROVE /\ Decides(r, k) \in DOMAIN r
        /\ \A q \in DOMAIN r :
              /\ q >= Hash[k] => Decides(r, k) >= Hash[k] /\ Decides(r, k) <= q
              /\ Decides(r, k) < Hash[k] => Decides(r, k) <= q
  <1> DEFINE above == {p \in DOMAIN r : p >= Hash[k]}
  <1>1. DOMAIN r \in SUBSET Nat /\ above \in SUBSET Nat /\ DOMAIN r # {}
        BY RingPointsAreNumbers DEF Whole
  <1>2. Hash[k] \in Nat
        BY PlacementAssumption
  <1>3. CASE above = {}
    <2>1. Decides(r, k) = Min(DOMAIN r)
          BY <1>3 DEF Decides
    <2>2. Min(DOMAIN r) \in DOMAIN r /\ \A q \in DOMAIN r : Min(DOMAIN r) <= q
          BY <1>1, LeastPoint
    <2> QED BY <1>1, <1>2, <1>3, <2>1, <2>2
  <1>4. CASE above # {}
    <2>1. Decides(r, k) = Min(above)
          BY <1>4 DEF Decides
    <2>2. Min(above) \in above /\ \A q \in above : Min(above) <= q
          BY <1>1, <1>4, LeastPoint
    <2> QED BY <1>1, <1>2, <2>1, <2>2
  <1> QED BY <1>3, <1>4

\* queryNode returns the server of the deciding point.
LEMMA QueryNodeIsDecided == \A r, k : QueryNode(r, k) = r[Decides(r, k)]
  BY DEF QueryNode, Decides

\* Two rings that both have the two servers they give a key to give it to one.
LEMMA SharedServersAgree ==
  ASSUME NEW r, NEW s, Whole(r), Whole(s), NEW k \in Keys,
         DOMAIN r # {}, DOMAIN s # {},
         QueryNode(s, k) \in Range(r), QueryNode(r, k) \in Range(s)
  PROVE QueryNode(r, k) = QueryNode(s, k)
  <1> DEFINE p == Decides(r, k)
             q == Decides(s, k)
  <1>1. p \in DOMAIN r /\ q \in DOMAIN s
        BY DecidingPoint
  <1>2. p \in Points[r[p]] /\ q \in Points[s[q]]
        BY <1>1 DEF Whole
  <1>3. p \in DOMAIN s /\ q \in DOMAIN r
        BY <1>2, QueryNodeIsDecided DEF Whole
  <1>4. p \in Nat /\ q \in Nat /\ Hash[k] \in Nat
        BY <1>1, RingPointsAreNumbers, PlacementAssumption
  <1>5. /\ q >= Hash[k] => p >= Hash[k] /\ p <= q
        /\ p < Hash[k] => p <= q
        BY <1>3, DecidingPoint
  <1>6. /\ p >= Hash[k] => q >= Hash[k] /\ q <= p
        /\ q < Hash[k] => q <= p
        BY <1>3, DecidingPoint
  <1>7. p = q
        BY <1>4, <1>5, <1>6
  <1>8. r[p] \in Nodes /\ s[q] \in Nodes
        BY <1>1 DEF Whole
  <1> QED BY <1>2, <1>7, <1>8, QueryNodeIsDecided, PlacementAssumption, ZenonT(30)

-----------------------------------------------------------------------------
(* Servers on the ring.                                                    *)

\* addNodeToHash adds servers with all of their points and moves no other point.
LEMMA AddedServers ==
  ASSUME NEW r, Whole(r), NEW T \in SUBSET Nodes
  PROVE /\ Whole(AddNodesToHash(r, T))
        /\ Range(AddNodesToHash(r, T)) = Range(r) \cup T
        /\ DOMAIN r \subseteq DOMAIN AddNodesToHash(r, T)
  <1> DEFINE s == AddNodesToHash(r, T)
  <1> USE PlacementAssumption DEF Whole, Range
  <1>1. /\ DOMAIN s = DOMAIN r \cup UNION {Points[n] : n \in T}
        /\ s \in [DOMAIN s -> Nodes]
        BY DEF AddNodesToHash
  <1>2. ASSUME NEW p \in DOMAIN s, NEW n \in T, p \in Points[n]
        PROVE s[p] = n
        BY <1>2 DEF AddNodesToHash
  <1>3. ASSUME NEW p \in DOMAIN s, ~ \E n \in T : p \in Points[n]
        PROVE p \in DOMAIN r /\ s[p] = r[p]
        BY <1>3 DEF AddNodesToHash
  <1>4. \A p \in DOMAIN s : p \in Points[s[p]]
        BY <1>2, <1>3
  <1>5. ASSUME NEW n \in T PROVE n \in Range(s) /\ Points[n] \subseteq DOMAIN s
    <2>1. Points[n] \subseteq DOMAIN s BY <1>1
    <2>2. PICK p \in Points[n] : TRUE OBVIOUS
    <2>3. p \in DOMAIN s /\ s[p] = n BY <1>2, <2>1
    <2> QED BY <2>1, <2>3
  <1>6. \A n \in Range(s) : n \in T \/ n \in Range(r)
        BY <1>2, <1>3
  <1>7. \A n \in Range(r) \ T : n \in Range(s)
    <2> SUFFICES ASSUME NEW p \in DOMAIN r, r[p] \notin T
                 PROVE r[p] \in Range(s)
        OBVIOUS
    <2>1. p \in DOMAIN s /\ p \in Points[r[p]] /\ r[p] \in Nodes
          BY <1>1
    <2>2. s[p] = r[p]
          BY <1>3, <2>1
    <2> QED BY <2>1, <2>2
  <1>8. \A n \in Range(s) : Points[n] \subseteq DOMAIN s
        BY <1>1, <1>5, <1>6, ZenonT(30)
  <1>9. Whole(s) BY <1>1, <1>4, <1>8
  <1>10. Range(s) = Range(r) \cup T BY <1>5, <1>6, <1>7
  <1> HIDE DEF s
  <1> QED BY <1>1, <1>9, <1>10, SMTT(30) DEF s

\* delNodeToHash removes one server with all of its points and no other.
LEMMA DeletedServer ==
  ASSUME NEW r, Whole(r), NEW n
  PROVE /\ Whole(DelNodeToHash(r, n))
        /\ Range(DelNodeToHash(r, n)) = Range(r) \ {n}
  <1> DEFINE s == DelNodeToHash(r, n)
  <1> USE PlacementAssumption DEF Whole, Range
  <1>1. /\ DOMAIN s = {q \in DOMAIN r : r[q] # n}
        /\ \A p \in DOMAIN s : s[p] = r[p]
        /\ s \in [DOMAIN s -> Nodes]
        BY DEF DelNodeToHash
  <1>2. ASSUME NEW m \in Range(s), NEW q \in Points[m]
        PROVE q \in DOMAIN s
    <2>1. m \in Range(r) /\ m # n /\ m \in Nodes
          BY <1>1
    <2>2. q \in DOMAIN r /\ q \in Points[r[q]] /\ r[q] \in Nodes
          BY <2>1
    <2>3. r[q] = m
          BY <2>1, <2>2
    <2> QED BY <1>1, <2>1, <2>2, <2>3
  <1>3. Whole(s) BY <1>1, <1>2
  <1>4. Range(s) = Range(r) \ {n} BY <1>1
  <1> HIDE DEF s
  <1> QED BY <1>3, <1>4, ZenonT(30) DEF s

\* A ring has the points of this server exactly if it has the server.
LEMMA SelfOnRing ==
  ASSUME NEW r, Whole(r)
  PROVE Self \in Range(r) <=> Points[Self] \subseteq DOMAIN r
  <1>1. ASSUME Points[Self] \subseteq DOMAIN r PROVE Self \in Range(r)
    <2>1. PICK p \in Points[Self] : TRUE BY PlacementAssumption
    <2>2. p \in DOMAIN r /\ r[p] \in Nodes /\ p \in Points[r[p]]
          BY <1>1 DEF Whole
    <2>3. r[p] = Self BY <2>2, PlacementAssumption, ZenonT(30)
    <2> QED BY <2>2, <2>3 DEF Range
  <1> QED BY <1>1 DEF Whole

-----------------------------------------------------------------------------
(* Type correctness.                                                       *)

\* What TypeOK says of the ring, and of the rest.
RingOK == Whole(ring) /\ Self \in Range(ring)

RestOK ==
  /\ Self \in topo /\ topo \subseteq Nodes /\ view \subseteq Nodes
  /\ rebuild \in BOOLEAN /\ joins \in 0 .. MaxJoins
  /\ job \in [Threads -> [step : Steps, node : Nodes \cup {None}]]

\* The two halves are TypeOK.
LEMMA TypeHalves == TypeOK <=> RingOK /\ RestOK
  BY SelfOnRing DEF TypeOK, RingOK, RestOK, Whole

\* The ring that joinCluster and the first initRaftGroups leave.
LEMMA InitRing == Init => RingOK /\ Range(ring) = topo
  <1> SUFFICES ASSUME Init PROVE RingOK /\ Range(ring) = topo OBVIOUS
  <1> DEFINE e == [p \in {} |-> Self]
  <1>1. Whole(e) /\ Range(e) = {} BY DEF Whole, Range
  <1>2. topo \in SUBSET Nodes /\ Self \in topo
        BY PlacementAssumption, ZenonT(30) DEF Init
  <1>3. ring = AddNodesToHash(e, topo) BY DEF Init
  <1> HIDE DEF e
  <1>4. Whole(ring) /\ Range(ring) = Range(e) \cup topo
        BY <1>1, <1>2, <1>3, AddedServers, ZenonT(30)
  <1> QED BY <1>1, <1>2, <1>4 DEF RingOK

\* Which servers a step puts on the ring and takes off it.
Servers(S) == Whole(ring') /\ Range(ring') = S

\* NODEIN puts one server on the ring, a timeout takes one off, and NODEOUT none
\* of the cluster's.
LEMMA RingSteps ==
  ASSUME RingOK, RestOK, NEW n \in Nodes \ {Self}
  PROVE /\ \A w \in Workers : NodeIn(w, n) => Servers(Range(ring) \cup {n})
        /\ \A t \in {Main, Beat} : TimedOut(t, n) => Servers(Range(ring) \ {n})
        /\ NodeOut(n) => Servers(Range(ring))
  <1>1. Whole(ring) BY DEF RingOK
  <1>2. Range(ring) \subseteq Nodes BY <1>1 DEF Whole, Range
  <1>3. ToInt(n) \notin Nodes BY TruncationAssumption
  <1>4. Range(ring) \ {ToInt(n)} = Range(ring) BY <1>2, <1>3
  <1>5. /\ Whole(DelNodeToHash(ring, ToInt(n)))
        /\ Range(DelNodeToHash(ring, ToInt(n))) = Range(ring)
        BY <1>1, <1>4, DeletedServer
  <1>6. \A w \in Workers : NodeIn(w, n) => Servers(Range(ring) \cup {n})
    <2>1. {n} \in SUBSET Nodes OBVIOUS
    <2>2. /\ Whole(AddNodesToHash(ring, {n}))
          /\ Range(AddNodesToHash(ring, {n})) = Range(ring) \cup {n}
          BY <1>1, <2>1, AddedServers
    <2> QED BY <2>2, ZenonT(30) DEF NodeIn, Servers
  <1>7. \A t \in {Main, Beat} : TimedOut(t, n) => Servers(Range(ring) \ {n})
        BY <1>1, DeletedServer DEF TimedOut, Servers
  <1>8. NodeOut(n) => Servers(Range(ring))
        BY <1>5 DEF NodeOut, Servers
  <1> QED BY <1>6, <1>7, <1>8

\* initRaftGroups puts the servers it has read on the ring.
LEMMA RebuiltRing ==
  ASSUME RingOK, RestOK, InitRaftGroups
  PROVE Servers(Range(ring) \cup view)
  BY AddedServers DEF InitRaftGroups, Servers, RingOK, RestOK

\* Init establishes TypeOK.
LEMMA InitTypes == Init => TypeOK
  <1> SUFFICES ASSUME Init PROVE RestOK BY InitRing, TypeHalves
  <1>1. job \in [Threads -> [step : Steps, node : Nodes \cup {None}]]
        BY DEF Init, Idle, Steps
  <1>2. joins \in 0 .. MaxJoins BY PlacementAssumption DEF Init
  <1>3. rebuild \in BOOLEAN BY ZenonT(30) DEF Init
  <1>4. Self \in topo /\ topo \subseteq Nodes /\ view \subseteq Nodes
        BY PlacementAssumption, ZenonT(30) DEF Init
  <1> QED BY <1>1, <1>2, <1>3, <1>4 DEF RestOK

\* No step takes this server off the ring, or part of another one.
LEMMA RingKept == RingOK /\ RestOK /\ [Next]_vars => RingOK'
  <1> SUFFICES ASSUME RingOK, RestOK, [Next]_vars PROVE RingOK' OBVIOUS
  <1>1. ASSUME ring' = ring PROVE RingOK'
        BY <1>1 DEF RingOK, Whole, Range
  <1>2. ASSUME NEW S, Servers(S), Self \in S PROVE RingOK'
        BY <1>2 DEF RingOK, Servers, Whole, Range
  <1>3. CASE InitRaftGroups
        BY <1>2, <1>3, RebuiltRing DEF RingOK
  <1>4. ASSUME NEW n \in Nodes \ {Self}, NEW w \in Workers, NodeIn(w, n)
        PROVE RingOK'
        BY <1>2, <1>4, RingSteps, ZenonT(30) DEF RingOK
  <1>5. ASSUME NEW n \in Nodes \ {Self}, NodeOut(n) PROVE RingOK'
        BY <1>2, <1>5, RingSteps, ZenonT(30) DEF RingOK
  <1>6. ASSUME NEW n \in Nodes \ {Self}, NEW t \in {Main, Beat}, TimedOut(t, n)
        PROVE RingOK'
        BY <1>2, <1>6, RingSteps, ZenonT(30) DEF RingOK
  <1>7. CASE UNCHANGED vars
        BY <1>1, <1>7 DEF vars
  <1>8. CASE GetTopo
        BY <1>1, <1>8 DEF GetTopo, views
  <1>9. ASSUME NEW n, \/ Failed(n)
                      \/ \E w \in Workers : AddTopo(w, n) \/ AskRebuild(w, n)
                      \/ \E t \in {Main, Beat} : DelTopo(t, n)
        PROVE RingOK'
    <2>1. ring' = ring
          BY <1>9, ZenonT(30) DEF Failed, AddTopo, AskRebuild, DelTopo, views
    <2> QED BY <1>1, <2>1
  <1> QED BY <1>3, <1>4, <1>5, <1>6, <1>7, <1>8, <1>9 DEF Next

\* Every step keeps the rest of TypeOK.
LEMMA RestKept == RestOK /\ [Next]_vars => RestOK'
  <1> SUFFICES ASSUME RestOK, [Next]_vars PROVE RestOK' OBVIOUS
  <1> DEFINE JobOK(j) ==
               j \in [Threads -> [step : Steps, node : Nodes \cup {None}]]
  <1>1. ASSUME NEW t \in Threads, NEW s \in Steps, NEW n \in Nodes \cup {None},
               Goes(t, s, n)
        PROVE JobOK(job')
        BY <1>1 DEF Goes, RestOK
  <1>2. ASSUME NEW t \in Threads, Stops(t) PROVE JobOK(job')
        BY <1>2, ZenonT(30) DEF Stops, Idle, Steps, RestOK
  <1>3. Main \in Threads /\ Beat \in Threads /\ Workers \subseteq Threads
        BY DEF Threads
  <1>4. CASE GetTopo
    <2>1. JobOK(job') BY <1>1, <1>3, <1>4, ZenonT(30) DEF GetTopo, Steps
    <2> QED BY <1>4, <2>1, ZenonT(30) DEF GetTopo, views, RestOK
  <1>5. CASE InitRaftGroups
    <2>1. JobOK(job') BY <1>2, <1>3, <1>5 DEF InitRaftGroups, Assign
    <2> QED BY <1>5, <2>1 DEF InitRaftGroups, Assign, RestOK
  <1>6. CASE UNCHANGED vars
        BY <1>6 DEF vars, RestOK
  <1>8. ASSUME NEW n \in Nodes \ {Self}, NodeOut(n) PROVE RestOK'
    <2>1. ToInt(n) # Self BY TruncationAssumption, PlacementAssumption
    <2> QED BY <1>8, <2>1 DEF NodeOut, assigned, RestOK
  <1>9. ASSUME NEW n \in Nodes \ {Self}, Failed(n) PROVE RestOK'
    <2>1. JobOK(job') BY <1>2, <1>3, <1>9 DEF Failed
    <2> QED BY <1>9, <2>1 DEF Failed, views, assigned, RestOK
  <1>10. ASSUME NEW n \in Nodes \ {Self}, NEW w \in Workers,
                NodeIn(w, n) \/ AddTopo(w, n) \/ AskRebuild(w, n)
         PROVE RestOK'
    <2>1. JobOK(job')
          BY <1>1, <1>2, <1>3, <1>10, ZenonT(30) DEF NodeIn, AddTopo, AskRebuild, Steps
    <2>2. joins' \in 0 .. MaxJoins
      <3>1. joins' = joins \/ (joins < MaxJoins /\ joins' = joins + 1)
            BY <1>10, ZenonT(30) DEF NodeIn, AddTopo, AskRebuild
      <3> QED BY <3>1, PlacementAssumption DEF RestOK
    <2>3. /\ Self \in topo' /\ topo' \subseteq Nodes /\ view' \subseteq Nodes
          /\ rebuild' \in BOOLEAN
          BY <1>10, ZenonT(30) DEF NodeIn, AddTopo, AskRebuild, views, assigned, RestOK
    <2> QED BY <2>1, <2>2, <2>3 DEF RestOK
  <1>11. ASSUME NEW n \in Nodes \ {Self}, NEW t \in {Main, Beat},
                TimedOut(t, n) \/ DelTopo(t, n)
         PROVE RestOK'
    <2>1. JobOK(job') BY <1>1, <1>3, <1>11, ZenonT(30) DEF TimedOut, DelTopo, Steps
    <2> QED BY <1>11, <2>1 DEF TimedOut, DelTopo, assigned, RestOK
  <1> QED BY <1>4, <1>5, <1>6, <1>8, <1>9, <1>10, <1>11 DEF Next

\* TypeOK holds always: whatever joins and removals do, this server keeps its
\* place in its topology and on its ring, so that queryNode finds a server for
\* every key.
THEOREM TypeCorrect == Spec => []TypeOK
  <1>1. TypeOK /\ [Next]_vars => TypeOK'
    <2>1. TypeOK' <=> RingOK' /\ RestOK' BY TypeHalves, PTL
    <2> QED BY <2>1, TypeHalves, RingKept, RestKept
  <1> QED BY <1>1, InitTypes, PTL DEF Spec

\* OnlyAffectedKeysMove holds of every step: addNodeToHash and delNodeToHash move
\* no key between two servers that are on the ring before and after.
THEOREM FewKeysMove == Spec => OnlyAffectedKeysMove
  <1> DEFINE Step == \A k \in Keys :
               LET from == QueryNode(ring, k) to == QueryNode(ring', k)
               IN \/ from = to
                  \/ to \notin Range(ring) \/ from \notin Range(ring')
  <1>1. RingOK /\ RestOK /\ [Next]_vars => [Step]_vars
    <2> SUFFICES ASSUME RingOK, RestOK, [Next]_vars PROVE Step OBVIOUS
    <2>1. Whole(ring) /\ DOMAIN ring # {}
          BY DEF RingOK, Range
    <2>2. Whole(ring') /\ DOMAIN (ring') # {}
          BY RingKept DEF RingOK, Range, Whole
    <2> QED BY <2>1, <2>2, SharedServersAgree
  <1>2. TypeOK /\ [Next]_vars => [Step]_vars BY <1>1, TypeHalves
  <1> QED BY <1>2, TypeCorrect, PTL DEF Spec, OnlyAffectedKeysMove

-----------------------------------------------------------------------------
(* Groups and ring follow the topology.                                    *)

\* Some thread is about to push REBUILD_RAFTS.
Asking == \E t \in Threads : job[t].step \in {"ask", "failed"}

Building == job[Main].step = "build"

\* The groups are those of the topology, or will be built again.
GroupsDue ==
  \/ rebuild \/ Asking
  \/ Building /\ view = topo
  \/ ~ Building /\ built = topo

\* A server of the topology is on the ring, or is being removed, or will be put
\* on it.
RingDue ==
  \A n \in topo :
     \/ n \in Range(ring) \/ n \in Leaving
     \/ rebuild \/ Asking
     \/ Building /\ n \in view

\* A server on the ring without being in the topology is joining, or its removal
\* was crossed.
Crossed ==
  /\ \A n \in Range(ring) \ topo :
        n \in revived \/ \E w \in Workers : Does(w, "add topo", n)
  /\ \A n \in Leaving : n \in Range(ring) => n \in revived

IInv == RingOK /\ RestOK /\ GroupsDue /\ RingDue /\ Crossed

\* A thread does one thing at a time.
LEMMA OneJob ==
  ASSUME NEW t, NEW s, NEW n, Does(t, s, n)
  PROVE /\ job[t].step = s
        /\ \A s2, m : Does(t, s2, m) => s2 = s /\ m = n
  <1>1. job[t] = [step |-> s, node |-> n] BY DEF Does
  <1>2. job[t].step = s /\ job[t].node = n BY <1>1
  <1>3. ASSUME NEW s2, NEW m, Does(t, s2, m) PROVE s2 = s /\ m = n
    <2>1. job[t] = [step |-> s2, node |-> m] BY <1>3 DEF Does
    <2>2. job[t].step = s2 /\ job[t].node = m BY <2>1
    <2> QED BY <1>2, <2>2
  <1> QED BY <1>2, <1>3

\* What a step of thread t does to the jobs.
LEMMA JobSteps ==
  ASSUME RestOK, NEW t \in Threads, NEW s, NEW n,
         Goes(t, s, n) \/ (Stops(t) /\ s = "idle")
  PROVE /\ job'[t].step = s
        /\ Goes(t, s, n) => Does(t, s, n)'
        /\ \A s2, m : Does(t, s2, m)' => s2 = s /\ (Goes(t, s, n) => m = n)
        /\ \A u \in Threads \ {t} : job'[u] = job[u]
  <1>1. /\ job'[t].step = s
        /\ Goes(t, s, n) => job'[t] = [step |-> s, node |-> n]
        /\ \A u \in Threads \ {t} : job'[u] = job[u]
        BY DEF RestOK, Goes, Stops, Idle
  <1>2. ASSUME NEW s2, NEW m, Does(t, s2, m)'
        PROVE s2 = s /\ (Goes(t, s, n) => m = n)
    <2>1. job'[t] = [step |-> s2, node |-> m] BY <1>2 DEF Does
    <2>2. job'[t].step = s2 /\ job'[t].node = m BY <2>1
    <2>3. Goes(t, s, n) => job'[t].node = n BY <1>1
    <2> QED BY <1>1, <2>2, <2>3
  <1>3. Goes(t, s, n) => Does(t, s, n)' BY <1>1 DEF Does
  <1> QED BY <1>1, <1>2, <1>3

\* The invariant holds when the server starts.
LEMMA InitInv == Init => IInv
  <1> SUFFICES ASSUME Init PROVE IInv OBVIOUS
  <1>1. RingOK /\ RestOK /\ Range(ring) = topo BY InitTypes, InitRing, TypeHalves
  <1>2. ~ Building BY DEF Init, Building, Idle, Threads
  <1>3. Leaving = {} BY DEF Init, Leaving, Does, Idle, Threads
  <1>4. built = topo BY DEF Init
  <1> QED BY <1>1, <1>2, <1>3, <1>4, ZenonT(30) DEF IInv, GroupsDue, RingDue, Crossed

\* A worker changes no removal and no build, and keeps asking until it has asked.
LEMMA WorkerJobs ==
  ASSUME RestOK, NEW w \in Workers, NEW s, NEW n,
         Goes(w, s, n) \/ (Stops(w) /\ s = "idle")
  PROVE /\ Leaving' = Leaving /\ Building' = Building
        /\ job[w].step \notin {"ask", "failed"} /\ Asking => Asking'
        /\ s \in {"ask", "failed"} => Asking'
        /\ \A v \in Workers : \A m : v # w /\ Does(v, "add topo", m)
                                => Does(v, "add topo", m)'
  <1>1. /\ w \in Threads /\ Main \in Threads /\ Beat \in Threads
        /\ w # Main /\ w # Beat /\ Workers \subseteq Threads
        BY PlacementAssumption DEF Threads
  <1>2. job'[w].step = s /\ \A u \in Threads \ {w} : job'[u] = job[u]
        BY <1>1, JobSteps
  <1>3. Leaving' = Leaving BY <1>1, <1>2 DEF Leaving, Does
  <1>4. Building' = Building BY <1>1, <1>2 DEF Building
  <1>5. job[w].step \notin {"ask", "failed"} /\ Asking => Asking'
        BY <1>1, <1>2 DEF Asking
  <1>6. s \in {"ask", "failed"} => Asking'
        BY <1>1, <1>2 DEF Asking
  <1>7. \A v \in Workers : \A m : v # w /\ Does(v, "add topo", m)
                             => Does(v, "add topo", m)'
        BY <1>1, <1>2, ZenonT(30) DEF Does
  <1> QED BY <1>3, <1>4, <1>5, <1>6, <1>7, ZenonT(30)

\* The main thread and the heartbeat thread change no joining.
LEMMA RemoverJobs ==
  ASSUME RestOK, NEW t \in {Main, Beat}, NEW s, NEW n,
         Goes(t, s, n) \/ (Stops(t) /\ s = "idle")
  PROVE /\ job'[t].step = s /\ (Goes(t, s, n) => Does(t, s, n)')
        /\ \A s2, m : Does(t, s2, m)' => s2 = s /\ (Goes(t, s, n) => m = n)
        /\ \A u \in {Main, Beat} \ {t} : job'[u] = job[u]
        /\ job[t].step \notin {"ask", "failed"} /\ Asking => Asking'
        /\ s \in {"ask", "failed"} => Asking'
        /\ \A v \in Workers : \A m : Does(v, "add topo", m) => Does(v, "add topo", m)'
  <1>1. /\ t \in Threads /\ Main \in Threads /\ Beat \in Threads
        /\ t \notin Workers /\ Workers \subseteq Threads
        BY PlacementAssumption DEF Threads
  <1>2. /\ job'[t].step = s /\ (Goes(t, s, n) => Does(t, s, n)')
        /\ \A s2, m : Does(t, s2, m)' => s2 = s /\ (Goes(t, s, n) => m = n)
        /\ \A u \in Threads \ {t} : job'[u] = job[u]
        BY <1>1, JobSteps
  <1>3. job[t].step \notin {"ask", "failed"} /\ Asking => Asking'
        BY <1>1, <1>2 DEF Asking
  <1>4. s \in {"ask", "failed"} => Asking'
        BY <1>1, <1>2 DEF Asking
  <1>5. \A v \in Workers : \A m : Does(v, "add topo", m) => Does(v, "add topo", m)'
        BY <1>1, <1>2, ZenonT(30) DEF Does
  <1> QED BY <1>1, <1>2, <1>3, <1>4, <1>5, ZenonT(30)

Due == GroupsDue /\ RingDue /\ Crossed

\* NODEIN: the server is on the ring first, in the topology next, and only then
\* is the rebuild asked for.
LEMMA WorkerDue ==
  ASSUME IInv, NEW w \in Workers, NEW n \in Nodes \ {Self},
         NodeIn(w, n) \/ AddTopo(w, n) \/ AskRebuild(w, n)
  PROVE Due'
  <1> USE DEF IInv
  <1>1. CASE NodeIn(w, n)
    <2>1. Range(ring') = Range(ring) \cup {n}
          BY <1>1, RingSteps DEF Servers
    <2>2. /\ Goes(w, "add topo", n) /\ Does(w, "idle", None)
          /\ job[w].step = "idle"
          BY <1>1, OneJob, ZenonT(30) DEF NodeIn
    <2>3. /\ Leaving' = Leaving /\ Building' = Building
          /\ Asking => Asking'
          /\ \A v \in Workers : \A m : v # w /\ Does(v, "add topo", m)
                                  => Does(v, "add topo", m)'
          BY <2>2, WorkerJobs, ZenonT(30)
    <2>4. Does(w, "add topo", n)'
          BY <2>2, JobSteps, ZenonT(30) DEF Threads
    <2>5. \A m : ~ Does(w, "add topo", m) BY <2>2, OneJob, ZenonT(30)
    <2>6. /\ topo' = topo /\ rebuild' = rebuild /\ view' = view /\ built' = built
          /\ revived' = revived \cup ({n} \cap Leaving)
          BY <1>1, ZenonT(30) DEF NodeIn, assigned
    <2>7. GroupsDue' BY <2>3, <2>6, ZenonT(30) DEF GroupsDue
    <2>8. RingDue' BY <2>1, <2>3, <2>6, ZenonT(30) DEF RingDue, Range
    <2>9. \A m \in Range(ring') \ topo' :
             m \in revived' \/ \E v \in Workers : Does(v, "add topo", m)'
          BY <2>1, <2>3, <2>4, <2>5, <2>6, ZenonT(30) DEF Crossed
    <2>10. \A m \in Leaving' : m \in Range(ring') => m \in revived'
          BY <2>1, <2>3, <2>6, ZenonT(30) DEF Crossed
    <2>11. Crossed' BY <2>9, <2>10, ZenonT(30) DEF Crossed, Range
    <2> QED BY <2>7, <2>8, <2>11 DEF Due
  <1>2. CASE AddTopo(w, n)
    <2>1. Goes(w, "ask", n) /\ Does(w, "add topo", n)
          BY <1>2, ZenonT(30) DEF AddTopo
    <2>2. /\ Leaving' = Leaving /\ Asking'
          /\ \A v \in Workers : \A m : v # w /\ Does(v, "add topo", m)
                                  => Does(v, "add topo", m)'
          BY <2>1, WorkerJobs, ZenonT(30)
    <2>3. \A m : Does(w, "add topo", m) => m = n BY <2>1, OneJob, ZenonT(30)
    <2>4. topo' = topo \cup {n} /\ ring' = ring /\ revived' = revived
          BY <1>2, ZenonT(30) DEF AddTopo
    <2>5. Range(ring') = Range(ring) BY <2>4
    <2>6. ASSUME NEW m \in Range(ring) \ topo'
          PROVE m \in revived' \/ \E v \in Workers : Does(v, "add topo", m)'
          BY <2>2, <2>3, <2>4, ZenonT(30) DEF Crossed
    <2>7. \A m \in Leaving' : m \in Range(ring) => m \in revived'
          BY <2>2, <2>4, ZenonT(30) DEF Crossed
    <2>8. Crossed' BY <2>5, <2>6, <2>7, ZenonT(30) DEF Crossed, Range
    <2> QED BY <2>2, <2>8, ZenonT(30) DEF Due, GroupsDue, RingDue
  <1>3. CASE AskRebuild(w, n)
    <2>1. Stops(w) /\ Does(w, "ask", n) /\ rebuild'
          BY <1>3 DEF AskRebuild
    <2>2. /\ Leaving' = Leaving
          /\ \A v \in Workers : \A m : v # w /\ Does(v, "add topo", m)
                                  => Does(v, "add topo", m)'
          BY <2>1, WorkerJobs, ZenonT(30)
    <2>3. \A m : ~ Does(w, "add topo", m) BY <2>1, OneJob, ZenonT(30)
    <2>4. topo' = topo /\ ring' = ring /\ revived' = revived
          BY <1>3 DEF AskRebuild, views
    <2>5. Range(ring') = Range(ring) BY <2>4
    <2>6. ASSUME NEW m \in Range(ring) \ topo'
          PROVE m \in revived' \/ \E v \in Workers : Does(v, "add topo", m)'
          BY <2>2, <2>3, <2>4, ZenonT(30) DEF Crossed
    <2>7. \A m \in Leaving' : m \in Range(ring) => m \in revived'
          BY <2>2, <2>4, ZenonT(30) DEF Crossed
    <2>8. Crossed' BY <2>5, <2>6, <2>7, ZenonT(30) DEF Crossed, Range
    <2> QED BY <2>1, <2>8 DEF Due, GroupsDue, RingDue
  <1> QED BY <1>1, <1>2, <1>3

\* A removal: off the ring first, out of the topology next, then the rebuild.
LEMMA RemovalDue ==
  ASSUME IInv, NEW n \in Nodes \ {Self},
         \/ \E t \in {Main, Beat} : TimedOut(t, n) \/ DelTopo(t, n)
         \/ Failed(n)
  PROVE Due'
  <1> USE DEF IInv
  <1>1. ASSUME NEW t \in {Main, Beat}, TimedOut(t, n) PROVE Due'
    <2>1. Range(ring') = Range(ring) \ {n}
          BY <1>1, RingSteps DEF Servers
    <2>2. Goes(t, "topo", n) /\ Does(t, "idle", None) /\ job[t].step = "idle"
          BY <1>1, OneJob DEF TimedOut
    <2>3. /\ Does(t, "topo", n)' /\ job'[t].step = "topo"
          /\ \A s2, m : Does(t, s2, m)' => s2 = "topo"
                                          /\ (Goes(t, "topo", n) => m = n)
          /\ \A u \in {Main, Beat} \ {t} : job'[u] = job[u]
          /\ Asking => Asking'
          /\ \A v \in Workers : \A m : Does(v, "add topo", m)
                                  => Does(v, "add topo", m)'
          BY <2>2, RemoverJobs, ZenonT(30)
    <2>4. Leaving' = Leaving \cup {n}
      <3>1. \A u \in {Main, Beat} \ {t} : \A s, m : Does(u, s, m)' <=> Does(u, s, m)
            BY <2>3, ZenonT(30) DEF Does
      <3>2. \A m : ~ Does(t, "topo", m) BY <2>2, OneJob
      <3>3. \A m : Does(t, "topo", m)' <=> m = n BY <2>2, <2>3, ZenonT(30)
      <3> QED BY <3>1, <3>2, <3>3 DEF Leaving, Does
    <2>5. Building' = Building
          BY <2>2, <2>3, ZenonT(30) DEF Building
    <2>6. /\ topo' = topo /\ rebuild' = rebuild /\ view' = view /\ built' = built
          /\ revived' = revived
          BY <1>1 DEF TimedOut, assigned
    <2>7. GroupsDue' BY <2>3, <2>5, <2>6, ZenonT(30) DEF GroupsDue
    <2>8. \A m \in topo' : \/ m \in Range(ring') \/ m \in Leaving'
                           \/ rebuild' \/ Asking'
                           \/ Building' /\ m \in view'
          BY <2>1, <2>3, <2>4, <2>5, <2>6, ZenonT(30) DEF RingDue
    <2>9. RingDue' BY <2>8 DEF RingDue, Range
    <2>10. Crossed' BY <2>1, <2>3, <2>4, <2>6, ZenonT(30) DEF Crossed, Range
    <2> QED BY <2>7, <2>9, <2>10 DEF Due
  <1>2. ASSUME NEW t \in {Main, Beat}, DelTopo(t, n) PROVE Due'
    <2>1. Goes(t, "failed", n) /\ Does(t, "topo", n)
          BY <1>2 DEF DelTopo
    <2>2. /\ Asking'
          /\ \A s2, m : Does(t, s2, m)' => s2 = "failed"
                                          /\ (Goes(t, "failed", n) => m = n)
          /\ \A u \in {Main, Beat} \ {t} : job'[u] = job[u]
          /\ \A v \in Workers : \A m : Does(v, "add topo", m)
                                  => Does(v, "add topo", m)'
          BY <2>1, RemoverJobs, ZenonT(30)
    <2>3. Leaving' \subseteq Leaving /\ n \in Leaving
      <3>1. \A u \in {Main, Beat} \ {t} : \A s, m : Does(u, s, m)' <=> Does(u, s, m)
            BY <2>2, ZenonT(30) DEF Does
      <3>2. ASSUME NEW m, Does(t, "topo", m)' PROVE FALSE
        <4>1. "topo" = "failed" BY <2>2, <3>2, ZenonT(30)
        <4> QED BY <4>1
      <3> QED BY <2>1, <3>1, <3>2, SMTT(30) DEF Leaving, Does
    <2>4. topo' = topo \ {n} /\ ring' = ring /\ revived' = revived
          BY <1>2 DEF DelTopo
    <2>5. Crossed' BY <2>2, <2>3, <2>4, ZenonT(30) DEF Crossed, Range
    <2> QED BY <2>2, <2>5, ZenonT(30) DEF Due, GroupsDue, RingDue
  <1>3. CASE Failed(n)
    <2>1. Stops(Beat) /\ Does(Beat, "failed", n) /\ rebuild'
          BY <1>3 DEF Failed
    <2>2. /\ \A s2, m : Does(Beat, s2, m)' => s2 = "idle"
                                          /\ (Goes(Beat, "idle", n) => m = n)
          /\ \A u \in {Main, Beat} \ {Beat} : job'[u] = job[u]
          /\ \A v \in Workers : \A m : Does(v, "add topo", m)
                                  => Does(v, "add topo", m)'
          BY <2>1, RemoverJobs, ZenonT(30)
    <2>3. Leaving' \subseteq Leaving
      <3>1. \A u \in {Main, Beat} \ {Beat} : \A s, m : Does(u, s, m)' <=> Does(u, s, m)
            BY <2>2, ZenonT(30) DEF Does
      <3>2. ASSUME NEW m, Does(Beat, "topo", m)' PROVE FALSE
        <4>1. "topo" = "idle" BY <2>2, <3>2, ZenonT(30)
        <4> QED BY <4>1
      <3> QED BY <3>1, <3>2 DEF Leaving, Does
    <2>4. topo' = topo /\ ring' = ring /\ revived' = revived
          BY <1>3 DEF Failed, views
    <2>5. Crossed' BY <2>2, <2>3, <2>4, ZenonT(30) DEF Crossed, Range
    <2> QED BY <2>1, <2>5 DEF Due, GroupsDue, RingDue
  <1> QED BY <1>1, <1>2, <1>3

\* A rebuild reads the topology and then puts its servers on the ring.
LEMMA BuildDue ==
  ASSUME IInv, GetTopo \/ InitRaftGroups
  PROVE Due'
  <1> USE DEF IInv
  <1>0. Main \in {Main, Beat} OBVIOUS
  <1>1. CASE GetTopo
    <2>1. Goes(Main, "build", None) /\ Does(Main, "idle", None)
          BY <1>1 DEF GetTopo
    <2>2. /\ job'[Main].step = "build"
          /\ \A s2, m : Does(Main, s2, m)' => s2 = "build"
                                /\ (Goes(Main, "build", None) => m = None)
          /\ \A u \in {Main, Beat} \ {Main} : job'[u] = job[u]
          /\ \A v \in Workers : \A m : Does(v, "add topo", m)
                                  => Does(v, "add topo", m)'
          BY <1>0, <2>1, RemoverJobs, ZenonT(30)
    <2>3. Leaving' \subseteq Leaving
      <3>1. \A u \in {Main, Beat} \ {Main} : \A s, m : Does(u, s, m)' <=> Does(u, s, m)
            BY <2>2, ZenonT(30) DEF Does
      <3>2. ASSUME NEW m, Does(Main, "topo", m)' PROVE FALSE
        <4>1. "topo" = "build" BY <2>2, <3>2, ZenonT(30)
        <4> QED BY <4>1
      <3> QED BY <3>1, <3>2 DEF Leaving, Does
    <2>4. Building' BY <2>2, ZenonT(30) DEF Building
    <2>5. topo' = topo /\ view' = topo /\ ring' = ring /\ revived' = revived
          BY <1>1 DEF GetTopo, views
    <2>6. GroupsDue' BY <2>4, <2>5 DEF GroupsDue
    <2>7. RingDue' BY <2>4, <2>5 DEF RingDue
    <2>8. Crossed' BY <2>2, <2>3, <2>5, ZenonT(30) DEF Crossed, Range
    <2> QED BY <2>6, <2>7, <2>8 DEF Due
  <1>2. CASE InitRaftGroups
    <2>1. Range(ring') = Range(ring) \cup view
          BY <1>2, RebuiltRing DEF Servers
    <2>2. /\ Stops(Main) /\ Does(Main, "build", None)
          /\ job[Main].step = "build"
          BY <1>2, OneJob DEF InitRaftGroups, Assign
    <2>3. /\ job'[Main].step = "idle"
          /\ \A s2, m : Does(Main, s2, m)' => s2 = "idle"
                                /\ (Goes(Main, "idle", None) => m = None)
          /\ \A u \in {Main, Beat} \ {Main} : job'[u] = job[u]
          /\ Asking => Asking'
          /\ \A v \in Workers : \A m : Does(v, "add topo", m)
                                  => Does(v, "add topo", m)'
          BY <1>0, <2>2, RemoverJobs, ZenonT(30)
    <2>4. Leaving' = Leaving
      <3>1. \A u \in {Main, Beat} \ {Main} : \A s, m : Does(u, s, m)' <=> Does(u, s, m)
            BY <2>3, ZenonT(30) DEF Does
      <3>2. ASSUME NEW m, Does(Main, "topo", m)' PROVE FALSE
        <4>1. "topo" = "idle" BY <2>3, <3>2, ZenonT(30)
        <4> QED BY <4>1
      <3>3. \A m : ~ Does(Main, "topo", m) BY <2>2, OneJob
      <3> QED BY <3>1, <3>2, <3>3 DEF Leaving, Does
    <2>5. ~ Building' BY <2>3, ZenonT(30) DEF Building
    <2>6. Building BY <2>2 DEF Building
    <2>7. /\ topo' = topo /\ rebuild' = rebuild /\ built' = view
          /\ revived' = revived \cup (view \cap Leaving) \cup (view \ topo)
          BY <1>2 DEF InitRaftGroups, Assign
    <2>8. GroupsDue' BY <2>3, <2>5, <2>6, <2>7, ZenonT(30) DEF GroupsDue
    <2>9. \A n \in topo' : \/ n \in Range(ring') \/ n \in Leaving'
                           \/ rebuild' \/ Asking'
          BY <2>1, <2>3, <2>4, <2>7, ZenonT(30) DEF RingDue
    <2>10. RingDue' BY <2>9 DEF RingDue, Range
    <2>11. \A n \in Range(ring') \ topo' :
              n \in revived' \/ \E v \in Workers : Does(v, "add topo", n)'
           BY <2>1, <2>3, <2>7, ZenonT(30) DEF Crossed
    <2>12. \A n \in Leaving' : n \in Range(ring') => n \in revived'
           BY <2>1, <2>4, <2>7, ZenonT(30) DEF Crossed
    <2>13. Crossed' BY <2>11, <2>12, ZenonT(30) DEF Crossed, Range
    <2> QED BY <2>8, <2>10, <2>13 DEF Due
  <1> QED BY <1>1, <1>2

\* NODEOUT and stuttering change no job and no server of the ring.
LEMMA OtherDue ==
  ASSUME IInv,
         \/ UNCHANGED vars
         \/ \E n \in Nodes \ {Self} : NodeOut(n)
  PROVE Due'
  <1> USE DEF IInv
  <1> DEFINE Same == UNCHANGED <<topo, rebuild, view, built, job, revived>>
  <1>1. ASSUME NEW n \in Nodes \ {Self}, NodeOut(n)
        PROVE Same /\ Range(ring') = Range(ring)
    <2>1. ToInt(n) \notin topo BY TruncationAssumption DEF RestOK
    <2>2. Same BY <1>1, <2>1 DEF NodeOut, assigned
    <2>3. Range(ring') = Range(ring) BY <1>1, RingSteps DEF Servers
    <2> QED BY <2>2, <2>3
  <1>3. ASSUME UNCHANGED vars PROVE Same /\ ring' = ring BY <1>3 DEF vars
  <1>4. Same /\ Range(ring') = Range(ring) BY <1>1, <1>3
  <1>5. Leaving' = Leaving /\ Asking' = Asking /\ Building' = Building
        BY <1>4 DEF Leaving, Asking, Building, Does
  <1>6. GroupsDue' BY <1>4, <1>5 DEF GroupsDue
  <1>7. \A n \in topo' : \/ n \in Range(ring') \/ n \in Leaving'
                         \/ rebuild' \/ Asking'
                         \/ Building' /\ n \in view'
        BY <1>4, <1>5 DEF RingDue
  <1>8. RingDue' BY <1>7 DEF RingDue, Range
  <1>9. Crossed' BY <1>4, <1>5, ZenonT(30) DEF Crossed, Range, Does
  <1> QED BY <1>6, <1>8, <1>9 DEF Due

\* The invariant is inductive.
LEMMA InvKept == IInv /\ [Next]_vars => IInv'
  <1> SUFFICES ASSUME IInv, [Next]_vars PROVE IInv' OBVIOUS
  <1>1. RingOK' /\ RestOK' BY RingKept, RestKept DEF IInv
  <1>2. Due' BY WorkerDue, RemovalDue, BuildDue, OtherDue DEF Next
  <1> QED BY <1>1, <1>2 DEF IInv, Due

\* GroupsFollowTopo holds always: no join or removal is lost to a rebuild that
\* read the topology before it.
THEOREM GroupsAreCurrent == Spec => []GroupsFollowTopo
  <1>1. IInv => GroupsFollowTopo
    <2> SUFFICES ASSUME IInv, Settled PROVE built = topo BY DEF GroupsFollowTopo
    <2>1. \A t \in Threads : job[t].step = "idle" BY OneJob DEF Settled
    <2> QED BY <2>1 DEF IInv, Settled, GroupsDue, Asking, Building, Threads
  <1> QED BY <1>1, InitInv, InvKept, PTL DEF Spec

\* RingFollowsTopo holds always: the ring of a settled server lacks no server of
\* the topology, and has another one only after a crossed removal.
THEOREM RingIsCurrent == Spec => []RingFollowsTopo
  <1>1. IInv => RingFollowsTopo
    <2> SUFFICES ASSUME IInv, Settled
                 PROVE /\ topo \subseteq Range(ring)
                       /\ Range(ring) \ topo \subseteq revived
        BY DEF RingFollowsTopo
    <2>1. \A t \in Threads : Does(t, "idle", None) /\ job[t].step = "idle"
          BY OneJob DEF Settled
    <2>2. ~ Asking /\ ~ Building /\ ~ rebuild
          BY <2>1 DEF Asking, Building, Settled, Threads
    <2>3. ASSUME NEW t \in Threads, NEW n
          PROVE ~ Does(t, "topo", n) /\ ~ Does(t, "add topo", n)
      <3>1. job[t].step = "idle" BY <2>1
      <3>2. Does(t, "topo", n) => job[t].step = "topo" BY OneJob
      <3>3. Does(t, "add topo", n) => job[t].step = "add topo" BY OneJob, ZenonT(30)
      <3>4. job[t].step # "topo" /\ job[t].step # "add topo" BY <3>1
      <3> QED BY <3>2, <3>3, <3>4, ZenonT(30)
    <2>4. Leaving = {} BY <2>3, ZenonT(30) DEF Leaving, Threads
    <2>5. topo \subseteq Range(ring) BY <2>2, <2>4 DEF IInv, RingDue
    <2>6. Range(ring) \ topo \subseteq revived
          BY <2>3, ZenonT(30) DEF IInv, Crossed, Threads
    <2> QED BY <2>5, <2>6
  <1> QED BY <1>1, InitInv, InvKept, PTL DEF Spec

-----------------------------------------------------------------------------
(* The groups of a topology.                                               *)

\* Servers a group can be built from.
Cluster(T) == T \in SUBSET Nat /\ IsFiniteSet(T) /\ T # {}

\* The servers before n are all but it at most.
LEMMA RankBounds ==
  ASSUME NEW T, Cluster(T), NEW n \in T
  PROVE Cardinality(T) \in Nat \ {0} /\ Rank(T, n) \in 0 .. Cardinality(T) - 1
  <1> DEFINE below == {m \in T : m < n}
  <1>1. IsFiniteSet(T \ {n}) /\ Cardinality(T \ {n}) = Cardinality(T) - 1
        BY FS_RemoveElement DEF Cluster
  <1>2. below \in SUBSET (T \ {n}) BY DEF Cluster
  <1>3. Cardinality(below) <= Cardinality(T) - 1 /\ IsFiniteSet(below)
        BY <1>1, <1>2, FS_Subset
  <1>4. Cardinality(below) \in Nat BY <1>3, FS_CardinalityType
  <1>5. Cardinality(T) \in Nat BY FS_CardinalityType DEF Cluster
  <1> QED BY <1>3, <1>4, <1>5 DEF Rank

\* Ranks are in the order of UUIDs.
LEMMA RankGrows ==
  ASSUME NEW T, Cluster(T), NEW m \in T, NEW n \in T, m < n
  PROVE Rank(T, m) < Rank(T, n)
  <1> DEFINE A == {x \in T : x < m}
             B == {x \in T : x < n}
  <1>1. IsFiniteSet(A) /\ IsFiniteSet(B)
        BY FS_Subset, ZenonT(30) DEF Cluster
  <1>2. m \notin A /\ A \cup {m} \in SUBSET B
    <2>1. \A x \in T : x \in Nat BY DEF Cluster
    <2>2. \A x \in T : x < m => x < n BY <2>1
    <2> QED BY <2>1, <2>2
  <1>3. Cardinality(A \cup {m}) = Cardinality(A) + 1
        BY <1>1, <1>2, FS_AddElement
  <1>4. Cardinality(A \cup {m}) <= Cardinality(B) BY <1>1, <1>2, FS_Subset
  <1>5. Cardinality(A) \in Nat /\ Cardinality(B) \in Nat
        BY <1>1, FS_CardinalityType
  <1> QED BY <1>3, <1>4, <1>5 DEF Rank

\* Every rank is that of one server.
LEMMA RankOnto ==
  ASSUME NEW T, Cluster(T), NEW i \in 0 .. Cardinality(T) - 1
  PROVE \E n \in T : Rank(T, n) = i
  <1> DEFINE N == Cardinality(T)
             f == [n \in T |-> Rank(T, n)]
  <1>1. N \in Nat BY FS_CardinalityType DEF Cluster
  <1>2. f \in [T -> 0 .. N - 1] BY RankBounds
  <1>3. ASSUME NEW m \in T, NEW n \in T, f[m] = f[n] PROVE m = n
    <2>1. m \in Nat /\ n \in Nat BY DEF Cluster
    <2>2. Rank(T, m) = Rank(T, n) BY <1>3
    <2>3. Rank(T, m) \in Int /\ Rank(T, n) \in Int BY RankBounds
    <2> QED BY <2>1, <2>2, <2>3, RankGrows
  <1>4. f \in Injection(T, 0 .. N - 1)
        BY <1>2, <1>3 DEF Injection, IsInjective
  <1>5. IsFiniteSet(0 .. N - 1) /\ Cardinality(0 .. N - 1) = N
        BY <1>1, FS_Interval
  <1>6. f \in Surjection(T, 0 .. N - 1)
        BY <1>4, <1>5, FS_Injection
  <1> QED BY <1>6 DEF Surjection

\* nodeIds lists the servers by rank.
LEMMA NodeIdsByRank ==
  ASSUME NEW T, Cluster(T)
  PROVE /\ \A i \in 0 .. Cardinality(T) - 1 :
              NodeIds(T, i) \in T /\ Rank(T, NodeIds(T, i)) = i
        /\ \A n \in T : NodeIds(T, Rank(T, n)) = n
  <1>1. ASSUME NEW i \in 0 .. Cardinality(T) - 1
        PROVE NodeIds(T, i) \in T /\ Rank(T, NodeIds(T, i)) = i
    <2>1. \E n \in T : Rank(T, n) = i BY RankOnto
    <2> QED BY <2>1, ZenonT(30) DEF NodeIds
  <1>2. ASSUME NEW n \in T PROVE NodeIds(T, Rank(T, n)) = n
    <2> DEFINE m == NodeIds(T, Rank(T, n))
    <2>1. Rank(T, n) \in 0 .. Cardinality(T) - 1 /\ Cardinality(T) \in Nat BY RankBounds
    <2>2. m \in T /\ Rank(T, m) = Rank(T, n) BY <1>1, <2>1
    <2> HIDE DEF m
    <2>3. m \in Nat /\ n \in Nat /\ Rank(T, n) \in Int BY <2>1, <2>2 DEF Cluster
    <2> QED BY <2>2, <2>3, RankGrows DEF m
  <1> QED BY <1>1, <1>2

\* A product of a number and a positive one is at least the number.
LEMMA PositiveProduct ==
  ASSUME NEW n \in Nat \ {0}, NEW d \in Int, d >= 1
  PROVE n * d >= n
  OBVIOUS

\* The remainder of a number is its place within the turn.
LEMMA ModOfTurns ==
  ASSUME NEW N \in Nat \ {0}, NEW i \in 0 .. N - 1, NEW q \in Int
  PROVE (N * q + i) % N = i
  <1> DEFINE x == N * q + i
             r == x % N
             p == x \div N
  <1>1. x \in Int /\ r \in 0 .. N - 1 /\ p \in Int OBVIOUS
  <1>2. x = N * p + r OBVIOUS
  <1>3. N * (q - p) = r - i BY <1>1, <1>2
  <1> HIDE DEF r, p
  <1>4. q = p
    <2>1. CASE q - p >= 1 BY <1>1, <1>3, <2>1, PositiveProduct
    <2>2. CASE p - q >= 1 BY <1>1, <1>3, <2>2, PositiveProduct
    <2> QED BY <1>1, <2>1, <2>2
  <1> QED BY <1>1, <1>2, <1>4 DEF r

\* A number within one turn, and the same one or two turns on.
LEMMA ModOnce ==
  ASSUME NEW N \in Nat \ {0}, NEW i \in 0 .. N - 1
  PROVE i % N = i /\ (i + N) % N = i /\ (i + 2 * N) % N = i
  <1>1. (N * 0 + i) % N = i /\ (N * 1 + i) % N = i /\ (N * 2 + i) % N = i
        BY ModOfTurns
  <1>2. N * 0 + i = i /\ N * 1 + i = i + N /\ N * 2 + i = i + 2 * N OBVIOUS
  <1> QED BY <1>1, <1>2

\* One and two steps round the circle of ranks.
LEMMA StepsRound ==
  ASSUME NEW N \in Nat \ {0}, NEW r \in 0 .. N - 1
  PROVE /\ (r + 0) % N = r
        /\ (r + 1) % N = IF r + 1 = N THEN 0 ELSE r + 1
        /\ (r + 2) % N = IF r + 2 < N THEN r + 2
                         ELSE IF N = 1 THEN 0 ELSE r + 2 - N
  <1>1. (r + 1) % N = IF r + 1 = N THEN 0 ELSE r + 1
    <2>1. CASE r + 1 = N
      <3>1. (0 + N) % N = 0 BY ModOnce
      <3> QED BY <2>1, <3>1
    <2>2. CASE r + 1 # N
      <3>1. r + 1 \in 0 .. N - 1 BY <2>2
      <3> QED BY <2>2, <3>1, ModOnce
    <2> QED BY <2>1, <2>2
  <1>2. (r + 2) % N = IF r + 2 < N THEN r + 2
                      ELSE IF N = 1 THEN 0 ELSE r + 2 - N
    <2>1. CASE r + 2 < N
      <3>1. r + 2 \in 0 .. N - 1 BY <2>1
      <3> QED BY <2>1, <3>1, ModOnce
    <2>2. CASE N = 1
      <3>1. r + 2 = 0 + 2 * N BY <2>2
      <3>2. (0 + 2 * N) % N = 0 BY ModOnce
      <3> QED BY <2>2, <3>1, <3>2
    <2>3. CASE r + 2 >= N /\ N # 1
      <3>1. r + 2 - N \in 0 .. N - 1 BY <2>3
      <3>2. ((r + 2 - N) + N) % N = r + 2 - N BY <3>1, ModOnce, ZenonT(30)
      <3>3. (r + 2 - N) + N = r + 2 OBVIOUS
      <3> QED BY <2>3, <3>2, <3>3
    <2> QED BY <2>1, <2>2, <2>3
  <1>3. r + 0 = r /\ r % N = r BY ModOnce
  <1> QED BY <1>1, <1>2, <1>3

\* One and two steps back, as initRaftGroups counts them.
LEMMA StepsBack ==
  ASSUME NEW N \in Nat \ {0}, NEW s \in 0 .. N - 1
  PROVE /\ (s + 0 + N) % N = s
        /\ (s + (-1) + N) % N = IF s = 0 THEN N - 1 ELSE s - 1
        /\ (s + (-2) + N) % N = IF s >= 2 THEN s - 2
                                ELSE IF N = 1 THEN 0 ELSE s - 2 + N
  <1>1. (s + 0 + N) % N = s
    <2>1. s + 0 + N = s + N OBVIOUS
    <2> QED BY <2>1, ModOnce
  <1>2. (s + (-1) + N) % N = IF s = 0 THEN N - 1 ELSE s - 1
    <2>1. CASE s = 0
      <3>1. N - 1 \in 0 .. N - 1 /\ s + (-1) + N = N - 1 BY <2>1
      <3> QED BY <2>1, <3>1, ModOnce
    <2>2. CASE s # 0
      <3>1. s - 1 \in 0 .. N - 1 /\ s + (-1) + N = (s - 1) + N BY <2>2
      <3>2. ((s - 1) + N) % N = s - 1 BY <3>1, ModOnce, ZenonT(30)
      <3> QED BY <2>2, <3>1, <3>2
    <2> QED BY <2>1, <2>2
  <1>3. (s + (-2) + N) % N = IF s >= 2 THEN s - 2
                             ELSE IF N = 1 THEN 0 ELSE s - 2 + N
    <2>1. CASE s >= 2
      <3>1. s - 2 \in 0 .. N - 1 /\ s + (-2) + N = (s - 2) + N BY <2>1
      <3>2. ((s - 2) + N) % N = s - 2 BY <3>1, ModOnce, ZenonT(30)
      <3> QED BY <2>1, <3>1, <3>2
    <2>2. CASE N = 1
      <3>1. s = 0 /\ s + (-2) + N = N * (-1) + 0 BY <2>2
      <3>2. (N * (-1) + 0) % N = 0 BY ModOfTurns, 0 \in 0 .. N - 1, -1 \in Int, ZenonT(30)
      <3> QED BY <2>2, <3>1, <3>2
    <2>3. CASE s < 2 /\ N # 1
      <3>1. s - 2 + N \in 0 .. N - 1 /\ s + (-2) + N = s - 2 + N BY <2>3
      <3> QED BY <2>3, <3>1, ModOnce
    <2> QED BY <2>1, <2>2, <2>3
  <1> QED BY <1>1, <1>2, <1>3

\* The server after n has the next rank.
LEMMA NextRank ==
  ASSUME NEW T, Cluster(T), NEW n \in T
  PROVE /\ Successor(T, n) \in T
        /\ Rank(T, Successor(T, n)) = (Rank(T, n) + 1) % Cardinality(T)
  <1> DEFINE N == Cardinality(T)
             r == Rank(T, n)
             above == {m \in T : m > n}
  <1>1. N \in Nat \ {0} /\ r \in 0 .. N - 1 BY RankBounds
  <1>2. (r + 1) % N = IF r + 1 = N THEN 0 ELSE r + 1 BY <1>1, StepsRound
  <1>3. \A m \in T : m \in Nat BY DEF Cluster
  <1>4. CASE above = {}
    <2> DEFINE s == Min(T)
    <2>1. s \in T /\ \A q \in T : s <= q BY LeastPoint DEF Cluster
    <2> HIDE DEF s
    <2>2. {m \in T : m < s} = {} BY <1>3, <2>1
    <2>3. Rank(T, s) = 0 BY <2>2, FS_EmptySet DEF Rank
    <2>4. r = N - 1
      <3>1. PICK x \in T : Rank(T, x) = N - 1 BY <1>1, RankOnto
      <3>2. ~ (x > n) BY <1>4
      <3>3. x < n => Rank(T, x) < r BY RankGrows
      <3> QED BY <1>1, <1>3, <3>1, <3>2, <3>3
    <2>5. Successor(T, n) = s BY <1>4 DEF Successor, s
    <2> QED BY <1>1, <1>2, <2>1, <2>3, <2>4, <2>5
  <1>5. CASE above # {}
    <2> DEFINE s == Min(above)
    <2>0. above \in SUBSET Nat BY <1>3
    <2>1. s \in above /\ \A q \in above : s <= q BY <1>5, <2>0, LeastPoint, ZenonT(30)
    <2> HIDE DEF s
    <2>2. {m \in T : m < s} = {m \in T : m < n} \cup {n} BY <1>3, <2>1
    <2>3. IsFiniteSet({m \in T : m < n}) BY FS_Subset, ZenonT(30) DEF Cluster
    <2>4. n \notin {m \in T : m < n} BY <1>3
    <2>5. Rank(T, s) = r + 1 BY <2>2, <2>3, <2>4, FS_AddElement DEF Rank
    <2>6. Rank(T, s) \in 0 .. N - 1 BY <2>1, RankBounds
    <2>7. Successor(T, n) = s BY <1>5 DEF Successor, s
    <2> QED BY <1>1, <1>2, <2>1, <2>5, <2>6, <2>7
  <1> QED BY <1>4, <1>5

\* The group with the rank of its master is the master and the two after it.
LEMMA WindowIsGroup ==
  ASSUME NEW T, Cluster(T), NEW n \in T
  PROVE Window(T, n) = Members(T, Rank(T, n))
  <1> DEFINE N == Cardinality(T)
             r == Rank(T, n)
             s == Successor(T, n)
             u == Successor(T, s)
  <1>1. N \in Nat \ {0} /\ r \in 0 .. N - 1 BY RankBounds
  <1>2. s \in T /\ Rank(T, s) = (r + 1) % N BY NextRank
  <1>3. u \in T /\ Rank(T, u) = (Rank(T, s) + 1) % N BY <1>2, NextRank
  <1>4. Rank(T, s) \in 0 .. N - 1 BY <1>2, RankBounds
  <1>5. /\ (r + 0) % N = r
        /\ (r + 1) % N = IF r + 1 = N THEN 0 ELSE r + 1
        /\ (r + 2) % N = IF r + 2 < N THEN r + 2
                         ELSE IF N = 1 THEN 0 ELSE r + 2 - N
        BY <1>1, StepsRound
  <1>6. (Rank(T, s) + 1) % N = IF Rank(T, s) + 1 = N THEN 0 ELSE Rank(T, s) + 1
        BY <1>1, <1>4, StepsRound
  <1> HIDE DEF s, u, N, r
  <1>7. Rank(T, u) = (r + 2) % N
        BY <1>1, <1>2, <1>3, <1>4, <1>5, <1>6
  <1>8. /\ NodeIds(T, (r + 0) % N) = n /\ NodeIds(T, (r + 1) % N) = s
        /\ NodeIds(T, (r + 2) % N) = u
        BY <1>2, <1>3, <1>5, <1>7, NodeIdsByRank, ZenonT(30) DEF r
  <1>9. Members(T, r) = {n, s, u}
    <2>1. 0 .. 2 = {0, 1, 2} OBVIOUS
    <2>2. Members(T, r) = {NodeIds(T, (r + j) % N) : j \in {0, 1, 2}}
          BY <2>1 DEF Members, N
    <2> QED BY <1>8, <2>2
  <1> QED BY <1>9 DEF Window, r, s, u

\* This server is in a group exactly if initRaftGroups counts back to it.
LEMMA InWindow ==
  ASSUME NEW T, Cluster(T), Self \in T, NEW n \in T
  PROVE Self \in Window(T, n) <=> Rank(T, n) \in GroupIds(T)
  <1> DEFINE N == Cardinality(T)
             r == Rank(T, n)
             s == Rank(T, Self)
  <1>1. N \in Nat \ {0} /\ r \in 0 .. N - 1 /\ s \in 0 .. N - 1 BY RankBounds
  <1>2. /\ (r + 0) % N = r
        /\ (r + 1) % N = IF r + 1 = N THEN 0 ELSE r + 1
        /\ (r + 2) % N = IF r + 2 < N THEN r + 2
                         ELSE IF N = 1 THEN 0 ELSE r + 2 - N
        BY <1>1, StepsRound
  <1>3. /\ (s + 0 + N) % N = s
        /\ (s + (-1) + N) % N = IF s = 0 THEN N - 1 ELSE s - 1
        /\ (s + (-2) + N) % N = IF s >= 2 THEN s - 2
                                ELSE IF N = 1 THEN 0 ELSE s - 2 + N
        BY <1>1, StepsBack
  <1>4. /\ Self = NodeIds(T, (r + 0) % N) <=> s = (r + 0) % N
        /\ Self = NodeIds(T, (r + 1) % N) <=> s = (r + 1) % N
        /\ Self = NodeIds(T, (r + 2) % N) <=> s = (r + 2) % N
    <2>1. /\ (r + 0) % N \in 0 .. N - 1 /\ (r + 1) % N \in 0 .. N - 1
          /\ (r + 2) % N \in 0 .. N - 1
          BY <1>1, <1>2
    <2> QED BY <2>1, NodeIdsByRank, ZenonT(30)
  <1> HIDE DEF N, r, s
  <1>5. Self \in Window(T, n) <=> \/ s = (r + 0) % N \/ s = (r + 1) % N
                                  \/ s = (r + 2) % N
    <2>1. 0 .. 2 = {0, 1, 2} OBVIOUS
    <2>2. Window(T, n) = {NodeIds(T, (r + j) % N) : j \in {0, 1, 2}}
          BY <2>1, WindowIsGroup DEF Members, N, r
    <2> QED BY <1>4, <2>2
  <1>6. r \in GroupIds(T) <=> \/ r = (s + 0 + N) % N \/ r = (s + (-1) + N) % N
                              \/ r = (s + (-2) + N) % N
    <2>1. -2 .. 0 = {-2, -1, 0} OBVIOUS
    <2>2. GroupIds(T) = {(s + offset + N) % N : offset \in {-2, -1, 0}}
          BY <2>1 DEF GroupIds, N, s
    <2> QED BY <2>2
  <1>7. /\ s = (r + 0) % N <=> r = (s + 0 + N) % N
        /\ s = (r + 1) % N <=> r = (s + (-1) + N) % N
        /\ s = (r + 2) % N <=> r = (s + (-2) + N) % N
        BY <1>1, <1>2, <1>3
  <1> QED BY <1>5, <1>6, <1>7, ZenonT(30) DEF r

\* What initRaftGroups assigns, for every topology that has this server.
LEMMA WindowsAssigned ==
  ASSUME NEW T, Cluster(T), Self \in T
  PROVE LET own == {n \in T : Self \in Window(T, n)}
        IN /\ MasterToGroup(T) = [n \in own |-> Rank(T, n)]
           /\ Groups(T) = [gi \in {Rank(T, n) : n \in own} |->
                              Window(T, CHOOSE n \in own : Rank(T, n) = gi)]
  <1> DEFINE N == Cardinality(T)
             own == {n \in T : Self \in Window(T, n)}
             ids == GroupIds(T)
  <1>1. ids \subseteq 0 .. N - 1
    <2>1. N \in Nat \ {0} /\ Rank(T, Self) \in 0 .. N - 1 BY RankBounds
    <2>2. ASSUME NEW offset \in -2 .. 0
          PROVE (Rank(T, Self) + offset + N) % N \in 0 .. N - 1
          BY <2>1
    <2> QED BY <2>2 DEF GroupIds
  <1>2. \A n \in T : n \in own <=> Rank(T, n) \in ids BY InWindow
  <1>3. \A gi \in ids : NodeIds(T, gi) \in own /\ Rank(T, NodeIds(T, gi)) = gi
        BY <1>1, <1>2, NodeIdsByRank
  <1>4. \A n \in own : NodeIds(T, Rank(T, n)) = n /\ Rank(T, n) \in ids
        BY <1>2, NodeIdsByRank
  <1>5. own \subseteq T OBVIOUS
  <1> HIDE DEF ids, own
  <1>6. {NodeIds(T, gi) : gi \in ids} = own BY <1>3, <1>4
  <1>7. {Rank(T, n) : n \in own} = ids BY <1>3, <1>4
  <1>8. ASSUME NEW n \in own
        PROVE (CHOOSE gi \in ids : NodeIds(T, gi) = n) = Rank(T, n)
        BY <1>3, <1>4, ZenonT(30)
  <1>9. MasterToGroup(T) = [n \in own |-> Rank(T, n)]
        BY <1>6, <1>8, ZenonT(30) DEF MasterToGroup, ids
  <1>10. ASSUME NEW gi \in ids
         PROVE Members(T, gi) = Window(T, CHOOSE n \in own : Rank(T, n) = gi)
    <2> DEFINE n == CHOOSE m \in own : Rank(T, m) = gi
    <2>1. n \in own /\ Rank(T, n) = gi BY <1>3, ZenonT(30)
    <2> HIDE DEF n
    <2>2. Window(T, n) = Members(T, gi) BY <1>5, <2>1, WindowIsGroup
    <2> QED BY <2>2 DEF n
  <1>11. Groups(T) = [gi \in {Rank(T, n) : n \in own} |->
                         Window(T, CHOOSE n \in own : Rank(T, n) = gi)]
         BY <1>7, <1>10, ZenonT(30) DEF Groups, ids
  <1> QED BY <1>9, <1>11 DEF own

\* A topology this server is in.
LEMMA TopologyIsCluster ==
  ASSUME NEW T \in SUBSET Nodes, Self \in T PROVE Cluster(T)
  <1>1. Nodes \subseteq Nat BY PlacementAssumption
  <1>2. IsFiniteSet(T) BY FS_Subset, PlacementAssumption
  <1> QED BY <1>1, <1>2 DEF Cluster

\* The groups are those of one topology, which this server is in: it is never
\* taken out of the topology that a rebuild reads.
Assigned ==
  /\ built \in SUBSET Nodes /\ Self \in built
  /\ groups = Groups(built) /\ masters = MasterToGroup(built)
  /\ job[Main].step = "build" => Self \in view

LEMMA InitAssigned == Init => Assigned
  <1> SUFFICES ASSUME Init PROVE Assigned OBVIOUS
  <1>1. topo \in SUBSET Nodes /\ Self \in topo
        BY PlacementAssumption DEF Init
  <1>2. built = topo /\ groups = Groups(built) /\ masters = MasterToGroup(built)
        BY DEF Init
  <1>3. job[Main].step = "idle" BY DEF Init, Idle, Threads
  <1> QED BY <1>1, <1>2, <1>3, SMTT(30) DEF Assigned

\* Only initRaftGroups changes the groups, and it has read a topology.
LEMMA AssignedKept == RestOK /\ Assigned /\ [Next]_vars => Assigned'
  <1> SUFFICES ASSUME RestOK, Assigned, [Next]_vars PROVE Assigned' OBVIOUS
  <1>0. Main \in Threads /\ Beat \in Threads /\ Main # Beat /\ Workers \subseteq Threads
        /\ Main \notin Workers
        BY PlacementAssumption DEF Threads
  <1>1. CASE GetTopo
    <2>1. view' = topo /\ UNCHANGED <<groups, masters, built>> BY <1>1 DEF GetTopo
    <2>2. Self \in view' BY <2>1 DEF RestOK
    <2> QED BY <2>1, <2>2, ZenonT(30) DEF Assigned
  <1>2. CASE InitRaftGroups
    <2>1. /\ groups' = Groups(view) /\ masters' = MasterToGroup(view)
          /\ built' = view /\ Does(Main, "build", None) /\ Stops(Main)
          BY <1>2 DEF InitRaftGroups, Assign
    <2>2. Self \in view /\ view \in SUBSET Nodes
          BY <2>1, OneJob DEF Assigned, RestOK
    <2>3. job'[Main].step = "idle" BY <1>0, <2>1, JobSteps
    <2>4. job'[Main].step # "build" BY <2>3
    <2> QED BY <2>1, <2>2, <2>4, ZenonT(30) DEF Assigned
  <1>3. ASSUME NEW t \in Threads, NEW s, NEW n, UNCHANGED assigned, s # "build",
               Goes(t, s, n) \/ (Stops(t) /\ s = "idle")
        PROVE Assigned'
    <2>1. job'[t].step = s /\ \A u \in Threads \ {t} : job'[u] = job[u]
          BY <1>3, JobSteps
    <2>2. job'[Main].step = "build" => job[Main].step = "build"
          BY <1>0, <1>3, <2>1, ZenonT(30)
    <2>3. UNCHANGED <<groups, masters, view, built>> BY <1>3 DEF assigned
    <2> QED BY <2>2, <2>3, ZenonT(30) DEF Assigned
  <1>4. CASE UNCHANGED <<assigned, job>>
    <2>1. UNCHANGED <<groups, masters, view, built, job>> BY <1>4 DEF assigned
    <2> QED BY <2>1, ZenonT(30) DEF Assigned
  <1>5. ASSUME NEW n \in Nodes \ {Self},
               \/ NodeOut(n) \/ Failed(n)
               \/ \E w \in Workers :
                      NodeIn(w, n) \/ AddTopo(w, n) \/ AskRebuild(w, n)
               \/ \E t \in {Main, Beat} : TimedOut(t, n) \/ DelTopo(t, n)
        PROVE Assigned'
    <2>1. CASE NodeOut(n) BY <2>1, <1>4 DEF NodeOut
    <2>2. CASE Failed(n) BY <2>2, <1>0, <1>3 DEF Failed
    <2>3. ASSUME NEW w \in Workers, NodeIn(w, n) \/ AddTopo(w, n) \/ AskRebuild(w, n)
          PROVE Assigned'
      <3>1. UNCHANGED assigned
            /\ (Goes(w, "add topo", n) \/ Goes(w, "ask", n) \/ Stops(w))
            BY <2>3, ZenonT(30) DEF NodeIn, AddTopo, AskRebuild
      <3>2. "add topo" # "build" /\ "ask" # "build" /\ "idle" # "build" OBVIOUS
      <3> QED BY <1>0, <1>3, <3>1, <3>2, ZenonT(30)
    <2>4. ASSUME NEW t \in {Main, Beat}, TimedOut(t, n) \/ DelTopo(t, n)
          PROVE Assigned'
      <3>1. UNCHANGED assigned /\ (Goes(t, "topo", n) \/ Goes(t, "failed", n))
            BY <2>4, ZenonT(30) DEF TimedOut, DelTopo
      <3>2. "topo" # "build" /\ "failed" # "build" /\ t \in Threads BY <1>0
      <3> QED BY <1>3, <3>1, <3>2, ZenonT(30)
    <2> QED BY <1>5, <2>1, <2>2, <2>3, <2>4
  <1>6. UNCHANGED vars => UNCHANGED <<assigned, job>> BY DEF vars, assigned
  <1> QED BY <1>1, <1>2, <1>4, <1>5, <1>6 DEF Next

\* GroupsAreWindows holds always: in a topology of any size initRaftGroups gives
\* this server the groups it is in and no other, and the group of a master is the
\* master and the two servers after it.
THEOREM GroupsAreAlwaysWindows == Spec => []GroupsAreWindows
  <1>1. TypeOK /\ Assigned /\ [Next]_vars => Assigned'
        BY AssignedKept, TypeHalves
  <1>2. Assigned => GroupsAreWindows
    <2> SUFFICES ASSUME Assigned PROVE GroupsAreWindows OBVIOUS
    <2>1. Cluster(built) /\ Self \in built BY TopologyIsCluster DEF Assigned
    <2>2. groups = Groups(built) /\ masters = MasterToGroup(built) BY DEF Assigned
    <2> QED BY <2>1, <2>2, WindowsAssigned, ZenonT(30) DEF GroupsAreWindows
  <1> QED BY <1>1, <1>2, InitAssigned, TypeCorrect, PTL DEF Spec
=============================================================================
