------------------------------- MODULE Routing -------------------------------
(***************************************************************************)
(* A client that writes to a cluster while servers join it: the topology   *)
(* it learnt at its start, MOVED, the refresh and the one retry.           *)
(***************************************************************************)
EXTENDS Join

CONSTANT Writers    \* bound: the cases in which there is a client

VARIABLES
    step,       \* where Client::run is
    view,       \* the client's Cluster::topo, and the servers on its ring
    first,      \* the server with the lowest file descriptor: the one asked first
    key,        \* the key of the write
    seen,       \* history: every server's topology when the write was refused
    agreed      \* history: the servers knew each other at that time

client == <<step, view, first, key, seen, agreed>>
all == <<vars, client>>

RoutingInit ==
    /\ Init
    /\ step = "off" /\ view = {} /\ key \in Keys
    /\ first = CHOOSE s \in Server : TRUE
    /\ seen = topo /\ agreed = FALSE

\* Every server that has started knows exactly the servers that have.
Agreed ==
    \A s \in Server : main[s] # "off" => topo[s] = {t \in Server : main[t] # "off"}

-----------------------------------------------------------------------------

\* The constructor: GETNETWORK from the first server, and connections to all.
Start ==
    /\ case \in Writers
    /\ step = "off"
    /\ \E s \in Server : main[s] = "up" /\ first' = s /\ view' = topo[s]
    /\ step' = IF \E s \in view' : main[s] \in Away THEN "gone" ELSE "ready"
    /\ UNCHANGED <<key, seen, agreed, vars>>

\* Client::routeWrite, and what the server answers to SET.
Target == Owner(key, view)

Reply ==
    CASE syncing[Target] -> "LOADING"
      [] ~ Refuses(Target, key) -> "OK"
      [] OTHER -> "MOVED"

\* send, and the SET handled by the server.
Sends ==
    /\ main[Target] = "up"
    /\ store' = IF Reply = "OK" THEN [store EXCEPT ![Target] = @ \cup {key}] ELSE store
    /\ UNCHANGED <<main, peer, views, connects, sync, net, past>>

\* The first attempt.  Every reply but MOVED is printed.
Write ==
    /\ step \in {"ready", "refused"}
    /\ Sends
    /\ step' = IF Reply = "MOVED" THEN "moved" ELSE "ready"
    /\ seen' = topo /\ agreed' = Agreed
    /\ UNCHANGED <<view, first, key>>

\* Faulty: the servers that the client did not know are not put on its ring.
RefreshTopologyNot ==
    /\ step = "moved" /\ main[first] = "up"
    /\ step' = "retry"
    /\ UNCHANGED <<view, first, key, seen, agreed, vars>>

\* refreshTopology asks the first server again, and only adds servers.
RefreshTopology ==
    /\ step = "moved" /\ main[first] = "up"
    /\ view' = view \cup topo[first]
    /\ step' = IF \E s \in view' \ view : main[s] \in Away THEN "gone" ELSE "retry"
    /\ UNCHANGED <<first, key, seen, agreed, vars>>

\* The second attempt: its reply is printed whatever it is.
Retry ==
    /\ step = "retry"
    /\ Sends
    /\ step' = IF Reply = "MOVED" THEN "refused" ELSE "ready"
    /\ agreed' = (agreed /\ seen = topo)
    /\ UNCHANGED <<view, first, key, seen>>

ClientNext == Start \/ Write \/ RefreshTopology \/ Retry

RoutingNext == (Next /\ UNCHANGED client) \/ ClientNext

RoutingSpec ==
    RoutingInit /\ [][RoutingNext]_all /\ WF_all(Progress /\ UNCHANGED client)

-----------------------------------------------------------------------------

\* One retry is enough once the servers agree: a client that did not know a server
\* is refused twice only while the news of a join are under way.  (After a fault a
\* server may be forgotten and taken in again between the two attempts.)
RetryLands == step = "refused" /\ faults = {} => ~ agreed
=============================================================================
