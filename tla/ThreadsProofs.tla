---------------------------- MODULE ThreadsProofs ----------------------------
(***************************************************************************)
(* Proofs, for any number of workers and tasks, that the threads of a      *)
(* server wait for each other only in circles the main thread is part of,  *)
(* and in none as long as the server is alone.                             *)
(*                                                                         *)
(* The inductive invariant ties every lock to the step of its holder; for  *)
(* a server that is alone, it lists the few steps its threads can reach.   *)
(***************************************************************************)
EXTENDS Threads, TLAPS

\* Each lock is held exactly where the code holds it.
Held ==
    /\ queueOwner = IF pc[Main] = "poll" THEN None ELSE Main
    /\ connShared = IF pc[Beat] = "beat" THEN {Beat} ELSE {}
    /\ shardShared = {w \in Workers : pc[w] \in {"next", "owned"}}
    /\ \A w \in Workers : groupOwner = w => pc[w] = "vote"

\* What a server that is alone can be doing.
Quiet ==
    alone =>
        /\ peer = "none" /\ grouped = FALSE
        /\ queue \subseteq {"message"} /\ tasks \subseteq {"command", "hello"}
        /\ pc[Main] \in {"poll", "drain", "tick", "apply"}
        /\ pc[Beat] \in {"sleep", "check"}
        /\ \A w \in Workers :
               pc[w] \in {"idle", "propose", "exec", "reply", "hello"}

IInv == TypeOK /\ Held /\ Quiet

-----------------------------------------------------------------------------

\* The invariant holds when Server::run starts.
LEMMA InitHolds == Init => IInv
  BY ThreadsAssumption, ZenonT(30)
     DEF Init, IInv, TypeOK, Held, Quiet, Threads, MainSteps, BeatSteps,
         WorkerSteps

\* No step of epoll_step breaks it.
LEMMA MainKeeps == IInv /\ MainStep => IInv'
  <1> SUFFICES ASSUME IInv, MainStep PROVE IInv'
      OBVIOUS
  <1> USE ThreadsAssumption
      DEF IInv, TypeOK, Held, Quiet, Threads, MainSteps, BeatSteps, WorkerSteps,
          Go, locks, cluster, Request, ConnExclusive, ShardExclusive
  <1>1. CASE Poll BY <1>1, ZenonT(30) DEF Poll
  <1>2. CASE Send BY <1>2 DEF Send
  <1>3. CASE Connect BY <1>3 DEF Connect
  <1>4. CASE AddConnection BY <1>4 DEF AddConnection
  <1>5. CASE Rebuild BY <1>5 DEF Rebuild
  <1>6. CASE MainCheck BY <1>6 DEF MainCheck
  <1>7. CASE Tick BY <1>7 DEF Tick
  <1>8. CASE Apply BY <1>8, ZenonT(30) DEF Apply
  <1>9. CASE Remove(Main) BY <1>9, ZenonT(30) DEF Remove
  <1> QED BY <1>1, <1>2, <1>3, <1>4, <1>5, <1>6, <1>7, <1>8, <1>9, ZenonT(30) DEF MainStep

\* No step of heartbeatLoop breaks it.
LEMMA BeatKeeps == IInv /\ BeatStep => IInv'
  <1> SUFFICES ASSUME IInv, BeatStep PROVE IInv'
      OBVIOUS
  <1> USE ThreadsAssumption
      DEF IInv, TypeOK, Held, Quiet, Threads, MainSteps, BeatSteps, WorkerSteps,
          Go, locks, cluster, Push, ConnExclusive
  <1>1. CASE Wake BY <1>1 DEF Wake
  <1>2. CASE SendBeat BY <1>2 DEF SendBeat
  <1>3. CASE BeatCheck BY <1>3 DEF BeatCheck
  <1>4. CASE Remove(Beat) BY <1>4, ZenonT(30) DEF Remove
  <1>5. CASE NodeFailed BY <1>5 DEF NodeFailed
  <1> QED BY <1>1, <1>2, <1>3, <1>4, <1>5, ZenonT(30) DEF BeatStep

\* No step of a handler on a worker breaks it.
LEMMA WorkerKeeps ==
  ASSUME IInv, NEW w \in Workers, WorkerStep(w) PROVE IInv'
  <1> USE ThreadsAssumption
      DEF IInv, TypeOK, Held, Quiet, Threads, MainSteps, BeatSteps, WorkerSteps,
          Go, locks, cluster, Push, ConnExclusive, ShardExclusive
  <1>1. CASE TakeTask(w)
    <2>1. PICK step \in WorkerSteps \ {"next", "owned", "vote"} :
              /\ Go(w, "idle", step) /\ tasks' \subseteq tasks
              /\ alone => step \in {"propose", "exec", "hello"}
          BY <1>1 DEF TakeTask, Dequeue
    <2>2. UNCHANGED <<locks, queue, cluster, grouped, pending, goal>>
          BY <1>1 DEF TakeTask
    <2>3. /\ pc' = [pc EXCEPT ![w] = step] /\ pc[w] = "idle"
          /\ w # Main /\ w # Beat
          BY <2>1
    <2>4. TypeOK' BY <2>1, <2>2, <2>3
    <2>5. Held' BY <2>1, <2>2, <2>3
    <2>6. Quiet' BY <2>1, <2>2, <2>3
    <2> QED BY <2>4, <2>5, <2>6
  <1>2. CASE Propose(w) BY <1>2 DEF Propose
  <1>3. CASE Exec(w) BY <1>3 DEF Exec
  <1>4. CASE Reply(w) BY <1>4 DEF Reply
  <1>5. CASE Step(w) BY <1>5 DEF Step
  <1>6. CASE Vote(w) BY <1>6 DEF Vote
  <1>7. CASE Hello(w) BY <1>7, ZenonT(30) DEF Hello
  <1>8. CASE NodeIn(w) BY <1>8, ZenonT(60) DEF NodeIn
  <1>9. CASE Gossip(w)
    <2>1. CASE Go(w, "gossip", "ask") BY <1>9, <2>1 DEF Gossip
    <2>2. CASE Go(w, "gossip", "scan") BY <1>9, <2>2, ZenonT(30) DEF Gossip
    <2> QED BY <1>9, <2>1, <2>2, ZenonT(30) DEF Gossip
  <1>10. CASE AskConnect(w) BY <1>10 DEF AskConnect
  <1>11. CASE AskRebuild(w) BY <1>11 DEF AskRebuild
  <1>12. CASE Scan(w) BY <1>12 DEF Scan
  <1>13. CASE NextKey(w) BY <1>13 DEF NextKey
  <1>14. CASE QueueData(w) BY <1>14 DEF QueueData
  <1>15. CASE QueueSyncDone(w) BY <1>15 DEF QueueSyncDone
  <1> QED
      BY <1>1, <1>2, <1>3, <1>4, <1>5, <1>6, <1>7, <1>8, <1>9, <1>10, <1>11,
         <1>12, <1>13, <1>14, <1>15, ZenonT(30) DEF WorkerStep

\* So it always holds.
LEMMA Inductive == Spec => []IInv
  <1>1. IInv /\ UNCHANGED vars => IInv'
        BY DEF IInv, TypeOK, Held, Quiet, vars, locks, cluster
  <1>2. IInv /\ [Next]_vars => IInv'
        BY <1>1, MainKeeps, BeatKeeps, WorkerKeeps DEF Next
  <1> QED BY InitHolds, <1>2, PTL DEF Spec

-----------------------------------------------------------------------------
(* The theorems.                                                           *)

\* Every lock of the server is held, when its holder waits for another one, by
\* the threads the code says, and by no other.
THEOREM TypeCorrect == Spec => []TypeOK
  <1>1. IInv => TypeOK BY DEF IInv
  <1> QED BY <1>1, Inductive, PTL

\* Workers and the heartbeat thread never wait for each other in a circle: every
\* circle goes through the main thread, in epoll_step with queueMutex held.
THEOREM MainIsInEveryCircle == Spec => []CirclesHoldMain
  <1>1. IInv => CirclesHoldMain
    <2> SUFFICES ASSUME IInv, NEW D \in SUBSET (Threads \ {Main}), Circle(D)
                 PROVE FALSE
        BY DEF CirclesHoldMain
    <2> USE ThreadsAssumption DEF IInv, TypeOK, Held, Threads
    <2>1. queueOwner \notin D
          OBVIOUS
    <2>2. ASSUME NEW u \in D, pc[u] \in {"beat", "next", "owned", "vote"}
          PROVE FALSE
          BY <2>1, <2>2 DEF Circle, Blocks
    <2>3. ASSUME NEW u \in D, NEW t \in D, Blocks(u, t)
          PROVE u \in connShared \cup shardShared \cup {groupOwner}
          BY <2>1, <2>3 DEF Blocks
    <2>4. ASSUME NEW u \in D, u \in connShared \cup shardShared \cup {groupOwner}
          PROVE pc[u] \in {"beat", "next", "owned", "vote"}
          BY <2>4
    <2> QED BY <2>2, <2>3, <2>4 DEF Circle
  <1> QED BY <1>1, Inductive, PTL

\* A server that never heard of another node has no circle at all: its workers
\* and its main thread never hold one lock and wait for another's holder.
THEOREM AloneNeverDeadlocks == Spec => []AloneNoCircle
  <1>1. IInv => AloneNoCircle
    <2> SUFFICES ASSUME IInv, alone, NEW D \in SUBSET Threads, Circle(D)
                 PROVE FALSE
        BY DEF AloneNoCircle
    <2> USE ThreadsAssumption DEF IInv, TypeOK, Held, Quiet, Threads
    <2>1. connShared = {} /\ shardShared = {} /\ groupOwner = None
          OBVIOUS
    <2>2. ASSUME NEW u \in D, NEW t \in D, Blocks(u, t)
          PROVE u = Main /\ t # Main
          BY <2>1, <2>2 DEF Blocks
    <2> QED BY <2>2 DEF Circle
  <1> QED BY <1>1, Inductive, PTL
=============================================================================
