------------------------------- MODULE Threads -------------------------------
(***************************************************************************)
(* The threads of one server and the locks they hold while they wait for   *)
(* another: Server::queueMutex, which the main thread holds from the drain *)
(* of message_queue to the end of epoll_step; Cluster::connections_lock,   *)
(* which the heartbeat thread holds while it queues its messages; the lock *)
(* of a KVStore shard, which a worker holds while it queues the data of a  *)
(* new node; and mtx_ of a RaftNode, which a worker holds while it queues  *)
(* its vote.  A lock that is released before another is taken is a guard   *)
(* of the step that takes it.                                              *)
(*                                                                         *)
(* Other nodes join, are lost and join again.  Their connections are       *)
(* abstracted to whether there is one, messages and tasks to their kinds,  *)
(* and the order of both is left out.                                      *)
(***************************************************************************)
EXTENDS Integers, FiniteSets

CONSTANTS
    Workers,    \* threads of the pool
    Main,       \* the thread of Server::run
    Beat,       \* Cluster::heartbeat_thread
    MaxTasks,   \* bound: kinds of task that wait for a worker
    None

ASSUME ThreadsAssumption ==
    /\ Main \notin Workers /\ Beat \notin Workers /\ Main # Beat
    /\ None \notin Workers /\ None \notin {Main, Beat}
    /\ MaxTasks \in Nat \ {0}

Threads == Workers \cup {Main, Beat}

VARIABLES
    pc,         \* what each thread is about to do
    queueOwner, \* the holder of queueMutex
    connShared, \* holders of connections_lock, shared
    shardShared,\* holders of a shard's lock, shared
    groupOwner, \* the holder of mtx_ of the groups' RaftNodes
    queue,      \* kinds of message in message_queue
    tasks,      \* kinds of task in ThreadPool::tasks
    peer,       \* Cluster::connections: none, open, or one of them lost
    known,      \* another node is in the topology
    grouped,    \* the Raft groups were built with another node
    pending,    \* a log entry is committed and not applied
    goal,       \* what a worker does once sendDataToNode returns
    alone       \* history: no other node was heard of yet

locks == <<queueOwner, connShared, shardShared, groupOwner>>
cluster == <<peer, known, alone>>
vars == <<pc, locks, queue, tasks, cluster, grouped, pending, goal>>

Init ==
    /\ pc = [t \in Threads |-> IF t = Main THEN "poll"
                               ELSE IF t = Beat THEN "sleep" ELSE "idle"]
    /\ queueOwner = None /\ connShared = {} /\ shardShared = {}
    /\ groupOwner = None
    /\ queue = {} /\ tasks = {}
    /\ known \in BOOLEAN        \* joinCluster comes before run
    /\ peer = (IF known THEN "open" ELSE "none")
    /\ grouped = known /\ alone = ~ known
    /\ pending \in BOOLEAN      \* loadFromDisk found entries
    /\ goal = [w \in Workers |-> "idle"]

Go(t, from, to) == pc[t] = from /\ pc' = [pc EXCEPT ![t] = to]

\* A message is queued under queueMutex, released at once.
Push(kind) ==
    /\ queueOwner = None
    /\ queue' = queue \cup {kind}

\* connections_lock, or a shard's lock, is taken exclusively and released.
ConnExclusive == connShared = {}
ShardExclusive == shardShared = {}

-----------------------------------------------------------------------------
(* The main thread: Server::epoll_step.                                    *)

\* A request becomes a task.
Request(kind) ==
    /\ Cardinality(tasks) < MaxTasks
    /\ tasks' = tasks \cup {kind}

\* accept and recv need no lock: requests become tasks, and the end of another
\* node's connection is noticed.
Poll ==
    /\ Go(Main, "poll", "drain")
    /\ queueOwner = None /\ queueOwner' = Main
    /\ \/ UNCHANGED <<tasks, peer>>
       \/ Request("command") /\ UNCHANGED peer
       \/ Request("hello") /\ UNCHANGED peer
       \/ peer = "open" /\ Request("nodein") /\ UNCHANGED peer
       \/ peer = "open" /\ grouped /\ Request("vote") /\ UNCHANGED peer
       \/ peer = "open" /\ peer' = "lost" /\ UNCHANGED tasks
    /\ UNCHANGED <<connShared, shardShared, groupOwner, queue, known, alone,
                   grouped, pending, goal>>

\* A message for a connection is sent, or dropped if the connection is gone.
Send ==
    /\ Go(Main, "drain", "drain")
    /\ "message" \in queue
    /\ queue' = queue \ {"message"}
    /\ UNCHANGED <<locks, tasks, cluster, grouped, pending, goal>>

\* Server::connect waits until HELLO is answered...
Connect ==
    /\ Go(Main, "drain", "connect")
    /\ "connect" \in queue
    /\ queue' = queue \ {"connect"}
    /\ UNCHANGED <<locks, tasks, cluster, grouped, pending, goal>>

\* ...then addConnection, and a task for the data.
AddConnection ==
    /\ Go(Main, "connect", "drain")
    /\ ConnExclusive
    /\ peer' = "open"
    /\ tasks' = tasks \cup {"sync"}
    /\ UNCHANGED <<locks, queue, known, alone, grouped, pending, goal>>

\* initRaftGroups: the new RaftNodes, with locks of their own, take the log on
\* disk as committed.
Rebuild ==
    /\ Go(Main, "drain", "drain")
    /\ "rebuild" \in queue
    /\ queue' = queue \ {"rebuild"}
    /\ grouped' = known
    /\ pending' = TRUE
    /\ groupOwner' = None
    /\ UNCHANGED <<queueOwner, connShared, shardShared, tasks, cluster, goal>>

\* checkTimeouts: has the lost node been silent for too long?
MainCheck ==
    /\ queue = {}
    /\ \/ Go(Main, "drain", "tick")
       \/ peer = "lost" /\ Go(Main, "drain", "remove")
    /\ UNCHANGED <<locks, queue, tasks, cluster, grouped, pending, goal>>

\* RaftNode::tick takes mtx_.  When the election timer of a group with another
\* node has run out, sendCb locks queueMutex unless there is no connection.  The
\* main thread holds queueMutex and waits for itself, for good.
Tick ==
    /\ groupOwner = None
    /\ \/ Go(Main, "tick", "apply")
       \/ grouped /\ peer # "none" /\ Go(Main, "tick", "vote")
    /\ UNCHANGED <<locks, queue, tasks, cluster, grouped, pending, goal>>

\* Committed entries are applied; epoll_step returns.
Apply ==
    /\ Go(Main, "apply", "poll")
    /\ pending => ShardExclusive
    /\ pending' = FALSE
    /\ queueOwner' = None
    /\ UNCHANGED <<connShared, shardShared, groupOwner, queue, tasks,
                   cluster, grouped, goal>>

\* delTopoNode in checkTimeouts, of the main thread or the heartbeat thread.
\* Both go on to failure_cb, which locks queueMutex: as in Tick, the main
\* thread does not return from it.
Remove(t) ==
    /\ Go(t, "remove", "failed")
    /\ ConnExclusive
    /\ \/ peer' = "none" /\ known' = FALSE
       \/ peer' = "open" /\ UNCHANGED known
    /\ UNCHANGED <<locks, queue, tasks, alone, grouped, pending, goal>>

MainStep ==
    \/ Poll \/ Send \/ Connect \/ AddConnection
    \/ Rebuild \/ MainCheck \/ Tick \/ Apply \/ Remove(Main)

-----------------------------------------------------------------------------
(* The heartbeat thread: Cluster::heartbeatLoop.                           *)

\* sendHeartbeats takes connections_lock...
Wake ==
    /\ IF peer = "none"
       THEN Go(Beat, "sleep", "check") /\ UNCHANGED connShared
       ELSE Go(Beat, "sleep", "beat") /\ connShared' = connShared \cup {Beat}
    /\ UNCHANGED <<queueOwner, shardShared, groupOwner, queue, tasks,
                   cluster, grouped, pending, goal>>

\* Faulty: connections_lock is held over checkTimeouts, too.
SendBeatKeepsLock ==
    /\ Go(Beat, "beat", "check")
    /\ Push("message")
    /\ UNCHANGED <<locks, tasks, cluster, grouped, pending, goal>>

\* ...and keeps it while send_cb locks queueMutex.
SendBeat ==
    /\ Go(Beat, "beat", "check")
    /\ Push("message")
    /\ connShared' = connShared \ {Beat}
    /\ UNCHANGED <<queueOwner, shardShared, groupOwner, tasks, cluster,
                   grouped, pending, goal>>

BeatCheck ==
    /\ \/ Go(Beat, "check", "sleep")
       \/ peer = "lost" /\ Go(Beat, "check", "remove")
    /\ UNCHANGED <<locks, queue, tasks, cluster, grouped, pending, goal>>

\* failure_cb asks for new groups.
NodeFailed ==
    /\ Go(Beat, "failed", "sleep")
    /\ Push("rebuild")
    /\ UNCHANGED <<locks, tasks, cluster, grouped, pending, goal>>

BeatStep == Wake \/ SendBeat \/ BeatCheck \/ Remove(Beat) \/ NodeFailed

-----------------------------------------------------------------------------
(* The pool's workers: Handler::handle.                                    *)

\* The worker's next task.
Dequeue(w, task, step) ==
    /\ Go(w, "idle", step)
    /\ task \in tasks
    /\ tasks' = tasks \ {task}

\* GETNETWORK, HEARTBEAT, SYNCDONE and NODEOUT wait for none of these locks with
\* another one held.
TakeTask(w) ==
    /\ \/ Dequeue(w, "command", "propose")
       \/ Dequeue(w, "command", "exec")
       \/ Dequeue(w, "hello", "hello")
       \/ Dequeue(w, "nodein", "nodein")
       \/ Dequeue(w, "vote", "step")
       \/ Dequeue(w, "sync", "scan")
    /\ UNCHANGED <<locks, queue, cluster, grouped, pending, goal>>

\* SET and DEL first take mtx_ in propose: a leader without peers commits at
\* once, and a node with peers is no leader.
Propose(w) ==
    /\ Go(w, "propose", "exec")
    /\ groupOwner = None
    /\ pending' = (pending \/ ~ grouped)
    /\ UNCHANGED <<locks, queue, tasks, cluster, grouped, goal>>

\* Faulty: the shard's lock is held until the reply is queued.
ExecHoldsShard(w) ==
    /\ Go(w, "exec", "reply")
    /\ ShardExclusive
    /\ shardShared' = {w}
    /\ UNCHANGED <<queueOwner, connShared, groupOwner, queue, tasks, cluster,
                   grouped, pending, goal>>

\* GET, SET, DEL and EXIST lock the shard exclusively.
Exec(w) ==
    /\ Go(w, "exec", "reply")
    /\ ShardExclusive
    /\ UNCHANGED <<locks, queue, tasks, cluster, grouped, pending, goal>>

\* handleCommand queues the reply.
Reply(w) ==
    /\ Go(w, "reply", "idle")
    /\ Push("message")
    /\ UNCHANGED <<locks, tasks, cluster, grouped, pending, goal>>

\* RaftNode::step takes mtx_.  There is no vote to send without a connection...
Step(w) ==
    /\ groupOwner = None
    /\ IF peer = "none"
       THEN Go(w, "step", "idle") /\ UNCHANGED groupOwner
       ELSE Go(w, "step", "vote") /\ groupOwner' = w
    /\ UNCHANGED <<queueOwner, connShared, shardShared, queue, tasks,
                   cluster, grouped, pending, goal>>

\* ...and else handleRequestVote queues it with mtx_ held.  After a Rebuild, it
\* is the lock of a RaftNode that is no more.
Vote(w) ==
    /\ Go(w, "vote", "idle")
    /\ Push("message")
    /\ groupOwner' = IF groupOwner = w THEN None ELSE groupOwner
    /\ UNCHANGED <<queueOwner, connShared, shardShared, tasks, cluster,
                   grouped, pending, goal>>

\* HELLO: addConnection.
Hello(w) ==
    /\ Go(w, "hello", "reply")
    /\ ConnExclusive
    /\ peer' = "open" /\ alone' = FALSE
    /\ UNCHANGED <<locks, queue, tasks, known, grouped, pending, goal>>

\* NODEIN: the message goes on to every connection.
NodeIn(w) ==
    /\ Go(w, "nodein", IF peer = "none" THEN "ask" ELSE "gossip")
    /\ alone' = FALSE
    /\ UNCHANGED <<locks, queue, tasks, peer, known, grouped, pending, goal>>

\* A new node with a connection is sent its data at once; the main thread is
\* asked to connect to any other.
Gossip(w) ==
    /\ Push("message")
    /\ \/ Go(w, "gossip", "ask") /\ UNCHANGED <<known, goal>>
       \/ /\ peer # "none"
          /\ Go(w, "gossip", "scan")
          /\ known' = TRUE
          /\ goal' = [goal EXCEPT ![w] = "rebuild"]
    /\ UNCHANGED <<locks, tasks, peer, alone, grouped, pending>>

AskConnect(w) ==
    /\ Go(w, "ask", "rebuild")
    /\ Push("connect")
    /\ known' = TRUE
    /\ UNCHANGED <<locks, tasks, peer, alone, grouped, pending, goal>>

\* The topology has changed.
AskRebuild(w) ==
    /\ Go(w, "rebuild", "idle")
    /\ Push("rebuild")
    /\ UNCHANGED <<locks, tasks, cluster, grouped, pending, goal>>

\* sendDataToNode returns at once without a connection, and else goes through
\* the shards under their locks.
Scan(w) ==
    /\ IF peer = "none"
       THEN /\ Go(w, "scan", goal[w])
            /\ goal' = [goal EXCEPT ![w] = "idle"]
            /\ UNCHANGED shardShared
       ELSE /\ Go(w, "scan", "next")
            /\ shardShared' = shardShared \cup {w}
            /\ UNCHANGED goal
    /\ UNCHANGED <<queueOwner, connShared, groupOwner, queue, tasks, cluster,
                   grouped, pending>>

\* The next key belongs to the new node, or there is none.
NextKey(w) ==
    /\ \/ Go(w, "next", "owned") /\ UNCHANGED shardShared
       \/ Go(w, "next", "done") /\ shardShared' = shardShared \ {w}
    /\ UNCHANGED <<queueOwner, connShared, groupOwner, queue, tasks, cluster,
                   grouped, pending, goal>>

\* The callback queues the key with the shard's lock held.
QueueData(w) ==
    /\ Go(w, "owned", "next")
    /\ Push("message")
    /\ UNCHANGED <<locks, tasks, cluster, grouped, pending, goal>>

QueueSyncDone(w) ==
    /\ Go(w, "done", goal[w])
    /\ Push("message")
    /\ goal' = [goal EXCEPT ![w] = "idle"]
    /\ UNCHANGED <<locks, tasks, cluster, grouped, pending>>

WorkerStep(w) ==
    \/ TakeTask(w) \/ Propose(w) \/ Exec(w) \/ Reply(w) \/ Step(w) \/ Vote(w)
    \/ Hello(w) \/ NodeIn(w) \/ Gossip(w) \/ AskConnect(w) \/ AskRebuild(w)
    \/ Scan(w) \/ NextKey(w) \/ QueueData(w) \/ QueueSyncDone(w)

Next == MainStep \/ BeatStep \/ \E w \in Workers : WorkerStep(w)

Spec == Init /\ [][Next]_vars

\* Every thread is scheduled.  queueMutex is free during epoll_wait of every
\* pass, so that a thread that waits for it gets it in the end.
Fairness ==
    /\ WF_vars(MainStep) /\ SF_vars(BeatStep)
    /\ \A w \in Workers : SF_vars(WorkerStep(w))

FairSpec == Spec /\ Fairness

-----------------------------------------------------------------------------
(* Properties.                                                             *)

MainSteps == {"poll", "drain", "connect", "tick", "vote", "apply", "remove",
              "failed"}
BeatSteps == {"sleep", "beat", "check", "remove", "failed"}
WorkerSteps == {"idle", "propose", "exec", "reply", "step", "vote", "hello",
                "nodein", "gossip", "ask", "rebuild", "scan", "next", "owned",
                "done"}

\* Each lock is held only by the threads that hold it in the code while they
\* wait for another one: queueMutex by the main thread, connections_lock by
\* the heartbeat thread, a shard's lock and a RaftNode's mtx_ by workers.
TypeOK ==
    /\ pc \in [Threads -> MainSteps \cup BeatSteps \cup WorkerSteps]
    /\ pc[Main] \in MainSteps /\ pc[Beat] \in BeatSteps
    /\ \A w \in Workers : pc[w] \in WorkerSteps
    /\ queueOwner \in {None, Main}
    /\ connShared \subseteq {Beat}
    /\ shardShared \subseteq Workers
    /\ groupOwner \in Workers \cup {None}
    /\ queue \subseteq {"message", "connect", "rebuild"}
    /\ tasks \subseteq {"command", "hello", "nodein", "vote", "sync"}
    /\ peer \in {"none", "open", "lost"}
    /\ {known, alone, grouped, pending} \subseteq BOOLEAN
    /\ goal \in [Workers -> {"idle", "rebuild"}]

\* u holds a lock that t cannot go on without.
Blocks(u, t) ==
    \/ /\ pc[t] \in {"vote", "failed", "reply", "gossip", "ask", "rebuild",
                     "owned", "done", "beat"}
       /\ u = queueOwner
    \/ pc[t] \in {"hello", "connect", "remove"} /\ u \in connShared
    \/ pc[t] \in {"tick", "step", "propose"} /\ u = groupOwner
    \/ (pc[t] = "exec" \/ (pc[t] = "apply" /\ pending)) /\ u \in shardShared

\* Threads that wait for each other, and go on waiting whatever others do.
Circle(D) == D # {} /\ \A t \in D : \E u \in D : Blocks(u, t)

\* As long as no other node was heard of, no threads wait for each other: the
\* main thread takes shard locks inside queueMutex, and workers take the two
\* one after the other.
AloneNoCircle == alone => \A D \in SUBSET Threads : ~ Circle(D)

\* In a cluster, threads do wait for each other in a circle; the main thread,
\* inside epoll_step, is part of every such circle.  Workers and the heartbeat
\* thread alone never block each other.
CirclesHoldMain == \A D \in SUBSET (Threads \ {Main}) : ~ Circle(D)

-----------------------------------------------------------------------------
(* What a comment says, and the code does not do.                          *)

\* Server's constructor, when a node has failed the failure callback asks for
\* new Raft groups, whichever thread finds that it has failed.
FailureRebuilds ==
    \A t \in {Main, Beat} : pc[t] = "failed" ~> "rebuild" \in queue
=============================================================================
