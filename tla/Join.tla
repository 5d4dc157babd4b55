-------------------------------- MODULE Join --------------------------------
(***************************************************************************)
(* How servers join a cluster and leave it: joinCluster of the new server, *)
(* the handlers of GETNETWORK, HELLO, NODEIN, SYNCDONE and NODEOUT of the  *)
(* others, connect and the push of data to the new server, and what a      *)
(* shutdown or a kill leaves behind.                                       *)
(*                                                                         *)
(* A request that a server has read is a task that any worker may take:    *)
(* messages of one link are handled in any order.  A server handles        *)
(* nothing while its main thread waits in joinCluster, where it reads no   *)
(* other connection, or in connect, where it holds queueMutex and workers  *)
(* wait for that before they can answer.                                   *)
(***************************************************************************)
EXTENDS Integers, Sequences, FiniteSets, FiniteSetsExt, Functions

CONSTANTS
    Server,     \* UUIDs
    Keys,
    Walk,       \* the servers in the order in which the ring, walked from the
                \* point of a key, first meets them
    Cases       \* bound: the servers that are one cluster at the beginning, those
                \* that may join it, the servers they may ask, and how many
                \* servers may be killed or shut down

ASSUME JoinAssumption ==
    /\ IsFiniteSet(Server)
    /\ Walk \in [Keys -> [1 .. Cardinality(Server) -> Server]]
    /\ \A k \in Keys : IsInjective(Walk[k])
    /\ Cases \subseteq [founders : (SUBSET Server) \ {{}}, joiners : SUBSET Server,
                         asked : SUBSET Server, faults : Nat]

VARIABLES
    main,       \* where the main thread of each server is
    peer,       \* the server that joinCluster or connect talks to
    topo,       \* Cluster::topo, and the servers on the ring
    conn,       \* Cluster::connections
    gossip,     \* Cluster::gossip_cache: n for the NODEIN of n, -n for its NODEOUT
    connects,   \* the connects that message_queue holds
    pending,    \* Server::pending_sync_nodes
    syncing,    \* Server::syncing
    store,      \* keys of the KVStore
    net,        \* how many of each message, sent and not yet handled, and of each
                \* task, not yet done, there are
    counted,    \* history: the servers that joinCluster was told of
    done,       \* history: how often the SYNCDONE of each server was handled
    early,      \* history: keys a server took before their sender's SYNCDONE
    case,       \* the one of Cases
    crossed,    \* history: a join began during another one
    faults      \* history: servers killed or shut down, each with whether
                \* that was "calm" or "rough", in the middle of something

views == <<topo, conn, gossip>>
sync == <<pending, syncing, done>>
past == <<case, counted, early, crossed, faults>>
vars == <<main, peer, views, connects, sync, store, net, past>>

Away == {"off", "down"}

\* Tasks of the workers among the elements of net; the others are messages.
Tasks == {"NODEIN new", "PUSH"}

-----------------------------------------------------------------------------

\* Cluster::queryNode, for a ring with the servers T.
Owner(k, T) ==
    Walk[k][Min({i \in DOMAIN Walk[k] : Walk[k][i] \in T})]

Msg(kind, from, to, who, keys) ==
    [kind |-> kind, from |-> from, to |-> to, who |-> who, keys |-> keys]

Tell(kind, from, to) == Msg(kind, from, to, {}, {})

\* What is under way, and how often.
Mail == DOMAIN net
Copies(m) == IF m \in Mail THEN net[m] ELSE 0

\* A link to a server that is gone takes nothing.
Taken(msgs) == {m \in msgs : main[m.to] # "down"}

\* One of each message of M is gone, one of each of msgs has come.
Exchange(M, msgs) ==
    LET more(m) == IF m \in Taken(msgs) THEN 1 ELSE 0
        less(m) == IF m \in M THEN 1 ELSE 0
    IN net' = [m \in {x \in Mail : x \in M => net[x] > 1} \cup Taken(msgs) |->
                  Copies(m) + more(m) - less(m)]

Send(msgs) == Exchange({}, msgs)
Answer(m, msgs) == Exchange({m}, msgs)

\* A message that a worker of s may handle.
Arrived(s, kind, m) ==
    /\ main[s] = "up"
    /\ m.to = s /\ m.kind = kind

\* Nothing is under way.
Quiet ==
    /\ net = <<>>
    /\ \A s \in Server : connects[s] = <<>> /\ main[s] \in {"off", "up", "down"}

\* A cluster whose servers know each other, and servers that have not started.
Init ==
    /\ case \in Cases
    /\ LET F == case.founders
       IN /\ main = [s \in Server |-> IF s \in F THEN "up" ELSE "off"]
          /\ topo = [s \in Server |-> IF s \in F THEN F ELSE {s}]
          /\ conn = [s \in Server |-> IF s \in F THEN F \ {s} ELSE {}]
          /\ store = [s \in Server |-> {k \in Keys : s \in F /\ Owner(k, F) = s}]
    /\ peer = [s \in Server |-> s]
    /\ gossip = [s \in Server |-> {}] /\ connects = [s \in Server |-> <<>>]
    /\ pending = [s \in Server |-> 0] /\ syncing = [s \in Server |-> FALSE]
    /\ done = [s \in Server |-> [t \in Server |-> 0]]
    /\ net = <<>>
    /\ counted = [s \in Server |-> {}] /\ early = [s \in Server |-> {}]
    /\ crossed = FALSE /\ faults = {}

-----------------------------------------------------------------------------
(* joinCluster.                                                            *)

\* The new server connects to any server that listens, and asks.
Ask(j, b) ==
    /\ j \in case.joiners /\ b \in case.asked
    /\ main[j] = "off" /\ main[b] \notin Away
    /\ main' = [main EXCEPT ![j] = "asks"] /\ peer' = [peer EXCEPT ![j] = b]
    /\ Send({Tell("GETNETWORK", j, b)})
    /\ crossed' = (crossed \/ ~ Quiet)
    /\ UNCHANGED <<views, connects, sync, store, case, counted, early, faults>>

\* Handler::GETNETWORK.
GetNetwork(b, m) ==
    /\ Arrived(b, "GETNETWORK", m)
    /\ Answer(m, {Msg("NETWORK", b, m.from, topo[b], {})})
    /\ UNCHANGED <<main, peer, views, connects, sync, store, past>>

\* Faulty: the server that answers is not counted.
MarkSyncingOthers(j, T) == pending' = [pending EXCEPT ![j] = Cardinality(T) - 1]

\* Server::markSyncing: one SYNCDONE for each server that it has been told of.
MarkSyncing(j, T) == pending' = [pending EXCEPT ![j] = Cardinality(T)]

\* Faulty: the server announces itself with its greeting.
GreetAnnounces(j, m) ==
    /\ main[j] = "asks" /\ m.to = j /\ m.kind = "NETWORK"
    /\ main' = [main EXCEPT ![j] = "greets"]
    /\ MarkSyncing(j, m.who) /\ syncing' = [syncing EXCEPT ![j] = TRUE]
    /\ topo' = [topo EXCEPT ![j] = @ \cup m.who]
    /\ conn' = [conn EXCEPT ![j] = @ \cup {m.from}]
    /\ counted' = [counted EXCEPT ![j] = m.who]
    /\ Answer(m, {Tell("HELLO", j, m.from), Msg("NODEIN", j, m.from, {j}, {})})
    /\ UNCHANGED <<peer, gossip, connects, store, done, case, early, crossed, faults>>

\* The topology has come: it is taken over, and the server greets.
Greet(j, m) ==
    /\ main[j] = "asks" /\ m.to = j /\ m.kind = "NETWORK"
    /\ main' = [main EXCEPT ![j] = "greets"]
    /\ MarkSyncing(j, m.who) /\ syncing' = [syncing EXCEPT ![j] = TRUE]
    /\ topo' = [topo EXCEPT ![j] = @ \cup m.who]
    /\ conn' = [conn EXCEPT ![j] = @ \cup {m.from}]
    /\ counted' = [counted EXCEPT ![j] = m.who]
    /\ Answer(m, {Tell("HELLO", j, m.from)})
    /\ UNCHANGED <<peer, gossip, connects, store, done, case, early, crossed, faults>>

\* What has come on the link that joinCluster or connect waits on.  The other
\* server knows the link once it has handled HELLO.
OnLink(s) ==
    {m \in Mail :
        /\ m.to = s /\ m.from = peer[s]
        /\ m.kind \in {"OK", "NODEIN", "NODEOUT", "SET", "SYNCDONE"}
        /\ Tell("HELLO", s, peer[s]) \notin Mail}

\* The first message counts as the answer; what has come with it is dropped by
\* RespParser::reset.  The server announces itself and enters run().
Announce(j) ==
    /\ main[j] = "greets"
    /\ \E M \in (SUBSET OnLink(j)) \ {{}} :
          Exchange(M, {Msg("NODEIN", j, peer[j], {j}, {})})
    /\ gossip' = [gossip EXCEPT ![j] = @ \cup {j}]
    /\ main' = [main EXCEPT ![j] = "up"]
    /\ UNCHANGED <<peer, topo, conn, connects, sync, store, past>>

-----------------------------------------------------------------------------
(* The other servers.                                                      *)

\* Faulty: connections of servers that are not in the topology are ignored.
HelloKnown(s, m) ==
    /\ Arrived(s, "HELLO", m)
    /\ conn' = [conn EXCEPT ![s] = @ \cup ({m.from} \cap topo[s])]
    /\ Answer(m, {Tell("OK", s, m.from)})
    /\ UNCHANGED <<main, peer, topo, gossip, connects, sync, store, past>>

\* Handler::HELLO.
Hello(s, m) ==
    /\ Arrived(s, "HELLO", m)
    /\ conn' = [conn EXCEPT ![s] = @ \cup {m.from}]
    /\ Answer(m, {Tell("OK", s, m.from)})
    /\ UNCHANGED <<main, peer, topo, gossip, connects, sync, store, past>>

\* An answer that nobody waits for any more.
Ok(s, m) ==
    /\ Arrived(s, "OK", m)
    /\ Answer(m, {})
    /\ UNCHANGED <<main, peer, views, connects, sync, store, past>>

FindGossip(s, m) == m.who \subseteq gossip[s]

\* Handler::NODEIN looks for the gossip...
NodeIn(s, m) ==
    /\ Arrived(s, "NODEIN", m)
    /\ Answer(m, IF FindGossip(s, m) THEN {} ELSE {[m EXCEPT !.kind = "NODEIN new"]})
    /\ UNCHANGED <<main, peer, views, connects, sync, store, past>>

\* Server::sendDataToNode, with the servers T on the ring.
SendDataToNode(s, n, T) ==
    {Msg("SET", s, n, {}, {k}) : k \in {x \in store[s] : Owner(x, T) = n}}
        \cup {Tell("SYNCDONE", s, n)}

\* Faulty: nobody else is told.
NodeInTellNobody(s, m) == {}

\* NODEIN is broadcast on every connection.
NodeInTell(s, m) == {Msg("NODEIN", s, t, m.who, {}) : t \in conn[s]}

\* A server that is not connected yet is left to the main thread.
NodeInConnect(s, n) ==
    IF n \in conn[s] THEN connects[s] ELSE Append(connects[s], n)

\* ... adds it, tells every server it is connected to, and takes the new server
\* in: it pushes its data to one that it is connected to.  The rebuild of the
\* Raft groups is in Placement.
NodeInNew(s, m) ==
    /\ Arrived(s, "NODEIN new", m)
    /\ gossip' = [gossip EXCEPT ![s] = @ \cup m.who]
    /\ topo' = [topo EXCEPT ![s] = @ \cup m.who]
    /\ \E n \in m.who :
          /\ Answer(m, NodeInTell(s, m) \cup
                       (IF n \in conn[s] THEN SendDataToNode(s, n, topo'[s]) ELSE {}))
          /\ connects' = [connects EXCEPT ![s] = NodeInConnect(s, n)]
    /\ UNCHANGED <<main, peer, conn, sync, store, past>>

-----------------------------------------------------------------------------
(* Leaving.                                                                *)

\* The process of s ends after it has sent the messages: they, and those not yet
\* delivered, may be lost, since data that is read together with the end of a
\* connection is dropped.
Stop(s, sent) ==
    /\ \E lost \in SUBSET ({m \in Mail : m.from = s /\ m.kind \notin Tasks} \cup sent) :
          net' = [m \in ({x \in Mail : x.to # s} \cup Taken(sent)) \ lost |->
                     Copies(m) + (IF m \in Taken(sent) THEN 1 ELSE 0)]
    /\ main' = [main EXCEPT ![s] = "down"]
    /\ connects' = [connects EXCEPT ![s] = <<>>]

\* gracefulShutdown: NODEOUT to every server it is connected to, and every key to
\* its server on the ring that is left.
GracefulShutdown(s) ==
    LET left == topo[s] \ {s}
        moved == {k \in store[s] : left # {} /\ Owner(k, left) \in conn[s]}
    IN Stop(s, {Msg("NODEOUT", s, t, {-s}, {}) : t \in conn[s]}
                   \cup {Msg("SET", s, Owner(k, left), {}, {k}) : k \in moved})

\* At most as many as the case allows.
Fault(s) ==
    /\ Cardinality(faults) < case.faults
    /\ faults' = faults \cup {<<s, IF Quiet THEN "calm" ELSE "rough">>}
    /\ UNCHANGED <<peer, views, sync, store, case, counted, early, crossed>>

\* SIGINT, which only the loop of run() looks at.
Shutdown(s) == Fault(s) /\ main[s] = "up" /\ GracefulShutdown(s)

Kill(s) == Fault(s) /\ main[s] \notin Away /\ Stop(s, {})

\* Handler::NODEOUT.  The server that it removes has the UUID cut to an int, which
\* is nobody's (see Placement): topology, ring and connections stay.
NodeOut(s, m) ==
    /\ Arrived(s, "NODEOUT", m)
    /\ Answer(m, IF FindGossip(s, m) THEN {}
                 ELSE {Msg("NODEOUT", s, t, m.who, {}) : t \in conn[s]})
    /\ gossip' = [gossip EXCEPT ![s] = @ \cup m.who]
    /\ UNCHANGED <<main, peer, topo, conn, connects, sync, store, past>>

\* Faulty: a silent server is taken off the ring only.
CheckTimeoutsRing(s, t) ==
    /\ main[s] \in {"up", "connects"} /\ main[t] = "down" /\ t \in conn[s]
    /\ conn' = [conn EXCEPT ![s] = @ \ {t}]
    /\ main' \in {main, [main EXCEPT ![s] = IF @ = "up" THEN "stuck" ELSE @]}
    /\ UNCHANGED <<peer, topo, gossip, connects, sync, store, net, past>>

\* Faulty: the lock that the main thread holds throws.
CheckTimeoutsThrow(s, t) ==
    /\ main[s] \in {"up", "connects"} /\ main[t] = "down" /\ t \in conn[s]
    /\ topo' = [topo EXCEPT ![s] = @ \ {t}]
    /\ conn' = [conn EXCEPT ![s] = @ \ {t}]
    /\ main' \in {main, [main EXCEPT ![s] = IF @ = "up" THEN "down" ELSE @]}
    /\ UNCHANGED <<peer, gossip, connects, sync, store, net, past>>

\* checkTimeouts of the heartbeat thread, or of the main thread, which then waits
\* in the failure callback for the lock it holds (see Threads).
CheckTimeouts(s, t) ==
    /\ main[s] \in {"up", "connects"} /\ main[t] = "down" /\ t \in conn[s]
    /\ topo' = [topo EXCEPT ![s] = @ \ {t}]
    /\ conn' = [conn EXCEPT ![s] = @ \ {t}]
    /\ main' \in {main, [main EXCEPT ![s] = IF @ = "up" THEN "stuck" ELSE @]}
    /\ UNCHANGED <<peer, gossip, connects, sync, store, net, past>>

-----------------------------------------------------------------------------
(* connect, and the data of a new server.                                  *)

\* The main thread takes a connect from message_queue and greets.
Connect(s) ==
    /\ main[s] = "up" /\ connects[s] # <<>>
    /\ LET n == Head(connects[s])
       IN /\ main[n] \notin Away
          /\ peer' = [peer EXCEPT ![s] = n]
          /\ Send({Tell("HELLO", s, n)})
    /\ main' = [main EXCEPT ![s] = "connects"]
    /\ connects' = [connects EXCEPT ![s] = Tail(@)]
    /\ UNCHANGED <<views, sync, store, past>>

\* Socket::connect throws, the exception leaves run().
ConnectFails(s) ==
    /\ main[s] = "up" /\ connects[s] # <<>> /\ main[Head(connects[s])] \in Away
    /\ GracefulShutdown(s)
    /\ UNCHANGED <<peer, views, sync, store, past>>

\* The first message counts as the answer; the push of data is left to a worker.
Connected(s) ==
    /\ main[s] = "connects"
    /\ \E m \in OnLink(s) : Answer(m, {Msg("PUSH", s, s, {peer[s]}, {})})
    /\ conn' = [conn EXCEPT ![s] = @ \cup {peer[s]}]
    /\ main' = [main EXCEPT ![s] = "up"]
    /\ UNCHANGED <<peer, topo, gossip, connects, sync, store, past>>

\* sendDataToNode of a worker.
Push(s, m) ==
    /\ Arrived(s, "PUSH", m)
    /\ \E n \in m.who :
          Answer(m, IF n \in conn[s] THEN SendDataToNode(s, n, topo[s]) ELSE {})
    /\ UNCHANGED <<main, peer, views, connects, sync, store, past>>

\* Faulty: a server that is syncing takes keys.
RefusesMovedOnly(s, k) == Owner(k, topo[s]) # s

\* The guards of SET: LOADING, or MOVED.
Refuses(s, k) == syncing[s] \/ Owner(k, topo[s]) # s

\* Handler::SET for a server.  It ignores OK, and errors end in an exception of
\* its worker.  How the key is stored is in WritePath.
Set(s, m) ==
    /\ Arrived(s, "SET", m)
    /\ Answer(m, {})
    /\ LET taken == {k \in m.keys : ~ Refuses(s, k)}
       IN /\ store' = [store EXCEPT ![s] = @ \cup taken]
          /\ early' = [early EXCEPT ![s] =
                @ \cup {k \in taken : m.from \in counted[s] /\ done[s][m.from] = 0}]
    /\ UNCHANGED <<main, peer, views, connects, sync, case, counted, crossed, faults>>

\* Faulty: fetch_sub is taken to return the count after it.
SyncDoneLate(s, m) ==
    /\ Arrived(s, "SYNCDONE", m)
    /\ Answer(m, {})
    /\ pending' = [pending EXCEPT ![s] = @ - 1]
    /\ syncing' = [syncing EXCEPT ![s] = @ /\ pending[s] # 0]
    /\ done' = [done EXCEPT ![s][m.from] = @ + 1]
    /\ UNCHANGED <<main, peer, views, connects, store, past>>

\* Handler::SYNCDONE and Server::onSyncDone: the sender is not looked at.
SyncDone(s, m) ==
    /\ Arrived(s, "SYNCDONE", m)
    /\ Answer(m, {})
    /\ pending' = [pending EXCEPT ![s] = @ - 1]
    /\ syncing' = [syncing EXCEPT ![s] = @ /\ pending[s] # 1]
    /\ done' = [done EXCEPT ![s][m.from] = @ + 1]
    /\ UNCHANGED <<main, peer, views, connects, store, past>>

-----------------------------------------------------------------------------

Handle(s, m) ==
    \/ GetNetwork(s, m) \/ Greet(s, m) \/ Hello(s, m) \/ Ok(s, m)
    \/ NodeIn(s, m) \/ NodeInNew(s, m)
    \/ Push(s, m) \/ Set(s, m) \/ SyncDone(s, m) \/ NodeOut(s, m)

Progress ==
    \/ \E m \in Mail : Handle(m.to, m)
    \/ \E s \in Server : Announce(s) \/ Connect(s) \/ ConnectFails(s) \/ Connected(s)
    \/ \E s, t \in Server : CheckTimeouts(s, t)

Next ==
    \/ Progress
    \/ \E s, t \in Server : Ask(s, t)
    \/ \E s \in Server : Shutdown(s) \/ Kill(s)

Spec == Init /\ [][Next]_vars

\* Nobody has to start a server or to stop one; the rest is done by threads that
\* keep running.
FairSpec == Spec /\ WF_vars(Progress)

-----------------------------------------------------------------------------
(* Properties.                                                             *)

\* The variables have the types of the code's members; a server knows itself
\* and is not connected to itself.
TypeOK ==
    /\ main \in [Server -> Away \cup {"asks", "greets", "up", "connects", "stuck"}]
    /\ peer \in [Server -> Server]
    /\ topo \in [Server -> SUBSET Server] /\ conn \in [Server -> SUBSET Server]
    /\ \A s \in Server : s \in topo[s] /\ s \notin conn[s]
    /\ connects \in [Server -> Seq(Server)]
    /\ pending \in [Server -> Int] /\ syncing \in [Server -> BOOLEAN]
    /\ store \in [Server -> SUBSET Keys]

Up == {s \in Server : main[s] = "up"}

\* Joins one after the other: once all is settled, every server knows every other
\* one and is connected to it, whichever server each of them asked.
JoinsAgree ==
    Quiet /\ ~ crossed /\ faults = {} =>
        \A s \in Up : topo[s] = Up /\ conn[s] = Up \ {s}

\* Joins that cross may leave a server without knowledge of another, for good, but
\* of two servers at least one knows the other and both are connected.
OneKnowsTheOther ==
    Quiet /\ faults = {} =>
        \A s, t \in Up : /\ s \in topo[t] \/ t \in topo[s]
                         /\ s # t => s \in conn[t]

\* Servers that wait in connect or joinCluster for each other, in a circle, wait
\* for ever; that takes joins that cross.
NoCircleOfWaits ==
    ~ crossed =>
        ~ \E W \in (SUBSET Server) \ {{}} :
              \A s \in W : main[s] \in {"asks", "greets", "connects"} /\ peer[s] \in W

Doubled(j) == \E t \in Server : done[j][t] > 1

\* onSyncDone counts and does not look who is done.  Still, when joins do not cross,
\* a server stops syncing only when every server it was told of is done with it;
\* or when one of three or more, told by two others at once, took it in twice.
SyncWaitsForAll ==
    ~ crossed /\ faults = {} =>
        \A j \in Server :
            \/ syncing[j]
            \/ \A t \in counted[j] : done[j][t] > 0
            \/ Doubled(j) /\ Cardinality(counted[j]) > 2

\* The data that is pushed to a new server is refused: it keeps a key only if the
\* SYNCDONE that was sent after the key was handled before it.
PushedKeysRefused ==
    ~ crossed /\ faults = {} =>
        \A j \in Server : early[j] # {} => Doubled(j)

\* A server that ends while nothing is under way stops no other one, whatever
\* joins follow.  (One that ends during its join stops those that connect to it.)
CalmFaultsContained ==
    (\A f \in faults : f[2] = "calm") =>
        \A s \in Server : main[s] = "down" => \E f \in faults : f[1] = s

\* A join that no other join crosses ends, with every server running and synced.
EveryJoinEnds ==
    (\E j \in Server : main[j] = "asks") ~>
        \/ \A j \in Server : main[j] \in {"off", "up"} /\ ~ syncing[j]
        \/ crossed \/ faults # {}

\* A server that ends while nothing is under way is forgotten in the end, for good,
\* by those it was connected to: NODEOUT does not do it, the timeouts do.  Only a
\* server that was told of it by joinCluster, and never connected, keeps it.
DeadForgotten ==
    <>[]\A s, t \in Server :
           <<s, "calm">> \in faults /\ main[t] = "up" /\ s \in topo[t]
               => s \in counted[t] \ conn[t]
=============================================================================
