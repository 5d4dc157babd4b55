------------------------------ MODULE Placement ------------------------------
(***************************************************************************)
(* Where one server thinks keys belong: the topology, the consistent-hash  *)
(* ring (Cluster::node_hash) and the Raft groups built from them, changed  *)
(* by workers that handle NODEIN and NODEOUT, by the heartbeat thread and  *)
(* the main thread that remove silent nodes, and by the main thread that   *)
(* rebuilds the groups.  Each of topology and ring has a lock of its own,  *)
(* so that a step changes one of them.                                     *)
(***************************************************************************)
EXTENDS Integers, FiniteSets, Functions, FiniteSetsExt

CONSTANTS
    Nodes,      \* UUIDs of the servers of a cluster
    Self,       \* the UUID of this one
    Points,     \* points of each server on the ring
    Keys,
    Hash,       \* points of the keys
    UuidBits,   \* width of uint64_t
    IntBits,    \* width of int
    Workers, Main, Beat, None,
    MaxJoins    \* bound: NODEINs that are handled

ASSUME PlacementAssumption ==
    /\ Self \in Nodes /\ IsFiniteSet(Nodes) /\ Nodes \subseteq 0 .. 2^UuidBits - 1
    /\ Points \in [Nodes -> SUBSET Nat] /\ Hash \in [Keys -> Nat]
    /\ \A n \in Nodes : Points[n] # {} /\ IsFiniteSet(Points[n])
    /\ \A m, n \in Nodes : m # n => Points[m] \cap Points[n] = {}
    /\ IntBits \in 1 .. UuidBits /\ MaxJoins \in Nat
    /\ Main # Beat /\ {Main, Beat} \cap Workers = {}

Threads == Workers \cup {Main, Beat}

VARIABLES
    topo,       \* Cluster::topo
    ring,       \* Cluster::node_hash: the server of each point
    joins,      \* NODEINs handled so far, at most MaxJoins
    rebuild,    \* REBUILD_RAFTS is in message_queue
    groups,     \* Server::groupMembers_, the groups of this server
    masters,    \* Server::masterToGroup
    view,       \* the topology initRaftGroups has read
    job,        \* what each thread is doing, and to which server
    built,      \* history: the topology the groups were built from
    revived     \* history: servers put on the ring during their removal

vars == <<topo, ring, joins, rebuild, groups, masters, view, job, built,
          revived>>
views == <<topo, ring>>
assigned == <<groups, masters, view, built>>

-----------------------------------------------------------------------------
(* The ring.                                                               *)

\* addNodeToHash for every server of T.
AddNodesToHash(r, T) ==
    [p \in DOMAIN r \cup UNION {Points[n] : n \in T} |->
        IF \E n \in T : p \in Points[n]
        THEN CHOOSE n \in T : p \in Points[n] ELSE r[p]]

DelNodeToHash(r, n) == [p \in {q \in DOMAIN r : r[q] # n} |-> r[p]]

\* Faulty: the point after the one that lower_bound finds.
QueryNodeNext(r, k) ==
    LET above == {p \in DOMAIN r : p >= Hash[k]}
        next == above \ {Min(above)}
    IN r[Min(IF above = {} \/ next = {} THEN DOMAIN r ELSE next)]

\* lower_bound, and round the end to the first point.
QueryNode(r, k) ==
    LET above == {p \in DOMAIN r : p >= Hash[k]}
    IN r[Min(IF above = {} THEN DOMAIN r ELSE above)]

-----------------------------------------------------------------------------
(* Server::initRaftGroups.  Groups are numbered from 0.                    *)

Rank(T, n) == Cardinality({m \in T : m < n})

\* nodeIds[i], in the order of UUIDs.
NodeIds(T, i) == CHOOSE n \in T : Rank(T, n) = i

\* Faulty: the groups are counted forwards from this server's own.
GroupIdsForwards(T) ==
    LET N == Cardinality(T)
    IN {(Rank(T, Self) + offset + N) % N : offset \in 0 .. 2}

GroupIds(T) ==
    LET N == Cardinality(T)
    IN {(Rank(T, Self) + offset + N) % N : offset \in -2 .. 0}

Members(T, gi) == {NodeIds(T, (gi + j) % Cardinality(T)) : j \in 0 .. 2}

\* The groups, and the group whose master each server is.
Groups(T) == [gi \in GroupIds(T) |-> Members(T, gi)]

MasterToGroup(T) ==
    [m \in {NodeIds(T, gi) : gi \in GroupIds(T)} |->
        CHOOSE gi \in GroupIds(T) : NodeIds(T, gi) = m]

-----------------------------------------------------------------------------

Steps == {"idle", "add topo", "ask", "topo", "failed", "build"}
Idle == [step |-> "idle", node |-> None]

\* After joinCluster, which knows some servers, and the groups' first build.
Init ==
    /\ topo \in {{Self} \cup T : T \in SUBSET Nodes}
    /\ ring = AddNodesToHash([p \in {} |-> Self], topo)
    /\ joins = 0 /\ rebuild = FALSE
    /\ groups = Groups(topo) /\ masters = MasterToGroup(topo) /\ built = topo
    /\ view = {} /\ job = [t \in Threads |-> Idle]
    /\ revived = {}

Does(t, step, node) == job[t] = [step |-> step, node |-> node]
Goes(t, step, node) == job' = [job EXCEPT ![t] = [step |-> step, node |-> node]]
Stops(t) == job' = [job EXCEPT ![t] = Idle]

\* Servers that some thread has taken off the ring and not yet off the topology.
Leaving == {n \in Nodes : \E t \in {Main, Beat} : Does(t, "topo", n)}

-----------------------------------------------------------------------------
(* Workers: NODEIN and NODEOUT.                                            *)

\* addNodeToHash.  NODEIN may be handled more than once: gossip_cache forgets it in
\* time, and two workers may both look before one adds it.
NodeIn(w, n) ==
    /\ Does(w, "idle", None)
    /\ joins < MaxJoins /\ joins' = joins + 1
    /\ ring' = AddNodesToHash(ring, {n})
    /\ revived' = revived \cup ({n} \cap Leaving)
    /\ Goes(w, "add topo", n)
    /\ UNCHANGED <<topo, rebuild, assigned>>

AddTopo(w, n) ==
    /\ Does(w, "add topo", n)
    /\ topo' = topo \cup {n}
    /\ Goes(w, "ask", n)
    /\ UNCHANGED <<ring, joins, rebuild, assigned, revived>>

\* Faulty: a new server does not lead to new groups.
AskRebuildNever(w, n) ==
    /\ Does(w, "ask", n)
    /\ Stops(w)
    /\ UNCHANGED <<views, joins, rebuild, assigned, revived>>

AskRebuild(w, n) ==
    /\ Does(w, "ask", n)
    /\ rebuild' = TRUE
    /\ Stops(w)
    /\ UNCHANGED <<views, joins, assigned, revived>>

\* A UUID as an int, and as a uint64_t again.
ToInt(n) ==
    LET low == n % 2^IntBits
    IN IF low < 2^(IntBits - 1) THEN low ELSE low + 2^UuidBits - 2^IntBits

\* UUIDs are random: that of no server is the lower half of another's, or small.
ASSUME TruncationAssumption == \A n \in Nodes : ToInt(n) \notin Nodes

\* NODEOUT keeps the UUID in an int, and removes the server this is the UUID of.
NodeOut(n) ==
    /\ \E w \in Workers : Does(w, "idle", None)
    /\ ring' = DelNodeToHash(ring, ToInt(n))
    /\ topo' = topo \ {ToInt(n)}
    /\ UNCHANGED <<joins, rebuild, assigned, job, revived>>

-----------------------------------------------------------------------------
(* Cluster::checkTimeouts, of the heartbeat thread and of the main thread.  *)

\* Any server that was connected once may be found silent: heartbeat_time is left
\* out, where a late updateHeartbeat may put a removed server back.
TimedOut(t, n) ==
    /\ Does(t, "idle", None)
    /\ ring' = DelNodeToHash(ring, n)
    /\ Goes(t, "topo", n)
    /\ UNCHANGED <<topo, joins, rebuild, assigned, revived>>

DelTopo(t, n) ==
    /\ Does(t, "topo", n)
    /\ topo' = topo \ {n}
    /\ Goes(t, "failed", n)
    /\ UNCHANGED <<ring, joins, rebuild, assigned, revived>>

\* failure_cb.  The main thread never gets here: it waits for queueMutex, which
\* it holds (see Threads).
Failed(n) ==
    /\ Does(Beat, "failed", n)
    /\ rebuild' = TRUE
    /\ Stops(Beat)
    /\ UNCHANGED <<views, joins, assigned, revived>>

-----------------------------------------------------------------------------
(* The main thread: initRaftGroups.                                        *)

\* getTopo.
GetTopo ==
    /\ Does(Main, "idle", None) /\ rebuild
    /\ rebuild' = FALSE
    /\ view' = topo
    /\ Goes(Main, "build", None)
    /\ UNCHANGED <<views, joins, groups, masters, built, revived>>

\* The groups of the topology that was read.
Assign ==
    /\ Does(Main, "build", None) /\ Stops(Main)
    /\ groups' = Groups(view) /\ masters' = MasterToGroup(view)
    /\ built' = view /\ view' = {}

\* Faulty: the servers are not put on the ring.
InitRaftGroupsOnly ==
    /\ Assign
    /\ UNCHANGED <<views, joins, rebuild, revived>>

\* Every server of the topology that was read is put on the ring.
InitRaftGroups ==
    /\ Assign
    /\ ring' = AddNodesToHash(ring, view)
    /\ revived' = revived \cup (view \cap Leaving) \cup (view \ topo)
    /\ UNCHANGED <<topo, joins, rebuild>>

Next ==
    \/ GetTopo \/ InitRaftGroups
    \/ \E n \in Nodes \ {Self} :
           \/ NodeOut(n) \/ Failed(n)
           \/ \E w \in Workers :
                  NodeIn(w, n) \/ AddTopo(w, n) \/ AskRebuild(w, n)
           \/ \E t \in {Main, Beat} : TimedOut(t, n) \/ DelTopo(t, n)

Spec == Init /\ [][Next]_vars

-----------------------------------------------------------------------------
(* Properties.                                                             *)

\* This server never leaves its own topology and ring, so that every key has a
\* server; a server is on the ring with all of its points and no other.
TypeOK ==
    /\ Self \in topo /\ topo \subseteq Nodes /\ view \subseteq Nodes
    /\ ring \in [DOMAIN ring -> Nodes] /\ Points[Self] \subseteq DOMAIN ring
    /\ \A p \in DOMAIN ring : p \in Points[ring[p]]
    /\ \A n \in Range(ring) : Points[n] \subseteq DOMAIN ring
    /\ rebuild \in BOOLEAN /\ joins \in 0 .. MaxJoins
    /\ job \in [Threads -> [step : Steps, node : Nodes \cup {None}]]

\* A change of the ring gives a key to another server only if that server is new
\* on the ring, or if the key's server has left it.
OnlyAffectedKeysMove ==
    [][\A k \in Keys :
          LET from == QueryNode(ring, k) to == QueryNode(ring', k)
          IN \/ from = to
             \/ to \notin Range(ring) \/ from \notin Range(ring')]_vars

\* The server after n in the order of UUIDs, from the last to the first.
Successor(T, n) ==
    LET above == {m \in T : m > n} IN Min(IF above = {} THEN T ELSE above)

\* The group of master n.
Window(T, n) == {n, Successor(T, n), Successor(T, Successor(T, n))}

\* initRaftGroups gives this server exactly the groups it is in: the group of a
\* master is the master and the two servers after it, so that servers with one
\* topology agree on every group they share.
GroupsAreWindows ==
    LET own == {n \in built : Self \in Window(built, n)}
    IN /\ masters = [n \in own |-> Rank(built, n)]
       /\ groups = [gi \in {Rank(built, n) : n \in own} |->
                       Window(built, CHOOSE n \in own : Rank(built, n) = gi)]

\* No thread is changing anything, and no rebuild is asked for.
Settled == ~ rebuild /\ \A t \in Threads : Does(t, "idle", None)

\* Once all is settled, the groups are those of the topology, whatever changed
\* while they were being built.
GroupsFollowTopo == Settled => built = topo

\* Once all is settled, the ring has the servers of the topology.  Others are on
\* it only if initRaftGroups or NODEIN put them back during their removal; then
\* their keys stay with a server that is gone.
RingFollowsTopo ==
    Settled => /\ topo \subseteq Range(ring)
               /\ Range(ring) \ topo \subseteq revived
=============================================================================
