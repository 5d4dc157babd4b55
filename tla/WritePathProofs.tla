--------------------------- MODULE WritePathProofs ---------------------------
(***************************************************************************)
(* Proofs that the write path of a server keeps its safety properties for  *)
(* every number of workers, keys, writes, faults and snapshots.            *)
(*                                                                         *)
(* The inductive invariant comes in four layers.  Inv1 is the type         *)
(* invariant with the phases of the threads and what a process that is not *)
(* running leaves behind.  Inv2 adds what the Raft log, its file and its   *)
(* buffer hold, Inv3 the order the logs keep, and Inv4 what the apply made *)
(* of each entry.                                                          *)
(***************************************************************************)
EXTENDS WritePath, SequenceTheorems, WellFoundedInduction, TLAPS

-----------------------------------------------------------------------------
(* Lemmas about sequences and sets of positions.                           *)

\* AppendToDisk and AOF::append add to a buffer that follows a file: the two
\* together grow at the end.
LEMMA ConcatAppend ==
    ASSUME NEW S, NEW s \in Seq(S), NEW t \in Seq(S), NEW x \in S
    PROVE  s \o Append(t, x) = Append(s \o t, x)
  OBVIOUS

\* A sequence that grows by one element gains that element.
LEMMA RangeAppend ==
    ASSUME NEW S, NEW s \in Seq(S), NEW x \in S
    PROVE  Range(Append(s, x)) = Range(s) \cup {x}
<1>1. Append(s, x) = s \o <<x>> /\ <<x>> \in Seq(S)
  BY AppendIsConcat
<1>2. Range(s \o <<x>>) = Range(s) \cup Range(<<x>>)
  BY <1>1, RangeConcatenation, ZenonT(60)
<1>3. Range(<<x>>) = {x}
  <2>1. DOMAIN <<x>> = {1} /\ <<x>>[1] = x
    OBVIOUS
  <2>2. QED
    BY <2>1, Zenon DEF Range
<1>4. QED
  BY <1>1, <1>2, <1>3, Zenon

\* A set of positions of a sequence has a last one.
LEMMA MaxOfPositions ==
    ASSUME NEW n \in Nat, NEW T \in SUBSET (1 .. n), T # {}
    PROVE  Max(T) \in T /\ \A i \in T : i <= Max(T)
<1> DEFINE D == {n - i : i \in T}
           R == OpToRel(<, Nat)
<1>1. D \subseteq Nat /\ D # {}
  <2>1. \A i \in T : n - i \in Nat
    OBVIOUS
  <2>2. QED
    BY <2>1, ZenonT(30)
<1>2. PICK d \in D : \A e \in D : <<e, d>> \notin R
  BY <1>1, WFMin, NatLessThanWellFounded, ZenonT(30)
<1>3. PICK i \in T : d = n - i
  BY Zenon
<1>4. ASSUME NEW j \in T
      PROVE  i >= j
  <2>1. n - j \in D /\ n - j \in Nat /\ d \in Nat
    BY <1>1, Zenon
  <2>2. ~ (n - j < d)
    BY <1>2, <2>1, ZenonT(30) DEF OpToRel
  <2>3. QED
    BY <1>3, <2>1, <2>2
<1>5. QED
  BY <1>4, ZenonT(30) DEF Max

-----------------------------------------------------------------------------
(* The first layer.                                                        *)

\* Logs, files, buffers and busy workers name writes that were received.
Named ==
    /\ rlog \in Seq(DOMAIN issued) /\ applyQ \in Seq(DOMAIN issued)
    /\ applied \in Seq(DOMAIN issued) /\ diskBuf \in Seq(DOMAIN issued)
    /\ raftFile \in Seq(DOMAIN issued)
    /\ aofBuf \in Seq(DOMAIN issued) /\ aofFile \in Seq(DOMAIN issued)
    /\ acked \subseteq DOMAIN issued /\ replyQ \subseteq DOMAIN issued
    /\ \A w \in Workers : pc[w] # "idle" => cur[w] \in DOMAIN issued

\* A process that is not running has no memory.
NothingRuns ==
    mode = "down" =>
        /\ mpc = "drain" /\ replyQ = {}
        /\ \A w \in Workers : pc[w] = "idle"
        /\ rlog = <<>> /\ lastApplied = 0 /\ applyQ = <<>> /\ applied = <<>>
        /\ diskBuf = <<>> /\ aofBuf = <<>>

\* The main thread holds entries to apply exactly while it applies, and leaves
\* its loop between two passes or out of an apply.
MainPhase ==
    /\ mpc = "apply" <=> applyQ # <<>>
    /\ mode = "stopping" => mpc \in {"drain", "thrown"}

Inv1 == TypeOK /\ Named /\ NothingRuns /\ MainPhase

\* Every command a client may send, and what the apply makes of its text, is a
\* value or none.
LEMMA CommandValue ==
    ASSUME NEW c \in Command
    PROVE  /\ c.key \in Keys /\ c.val \in Value \cup {None}
           /\ FromText(c) \in Value \cup {None}
  BY Zenon DEF Command, Value, FromText

\* The empty data directory the first start finds is well typed.
LEMMA InitInv1 == Init => Inv1
<1> SUFFICES ASSUME Init
             PROVE  Inv1
  BY Zenon
<1>1. ThreadTypes
  BY BoundsAssumption DEF Init, ThreadTypes
<1>2. LogTypes
  BY DEF Init, LogTypes
<1>3. StoreTypes
  BY Zenon DEF Init, StoreTypes, EmptyStore
<1>4. CounterTypes
  BY BoundsAssumption DEF Init, CounterTypes
<1>5. frozen \in BOOLEAN /\ fresh \in BOOLEAN
  BY Zenon DEF Init
<1>6. Named
  BY DEF Init, Named
<1>7. NothingRuns /\ MainPhase
  BY Zenon DEF Init, NothingRuns, MainPhase
<1>8. QED
  BY <1>1, <1>2, <1>3, <1>4, <1>5, <1>6, <1>7, Zenon DEF Inv1, TypeOK

\* A write that was received has a command.
LEMMA IssuedCommand ==
    ASSUME CounterTypes, NEW n \in DOMAIN issued
    PROVE  Cmd(n) \in Command
<1> DEFINE R == [cmd : Command, seen : SUBSET Writes]
<1>1. issued \in Seq(R)
  BY Zenon DEF CounterTypes
<1> HIDE DEF R
<1>2. n \in 1 .. Len(issued)
  BY <1>1, LenProperties, Zenon
<1>3. issued[n] \in R
  BY <1>1, <1>2, ElementOfSeq, Zenon
<1>4. QED
  BY <1>3, Zenon DEF R, Cmd

\* The names of writes.
LEMMA Names ==
    ASSUME CounterTypes
    PROVE  /\ DOMAIN issued = 1 .. Len(issued) /\ Len(issued) \in 0 .. MaxOps
           /\ DOMAIN issued \subseteq Writes
  BY BoundsAssumption DEF CounterTypes, Writes

\* What readfromfile and AOF::recover rebuild is a value or none.
LEMMA RecoveredValue ==
    ASSUME Inv1, NEW k \in Keys
    PROVE  Recovered(k) \in Value \cup {None}
<1> DEFINE sets == {i \in WritesTo(aofFile, k) : Cmd(aofFile[i]).op = "SET"}
<1>1. CASE sets = {}
  BY <1>1, Zenon DEF Recovered, Inv1, TypeOK, StoreTypes
<1>2. CASE sets # {}
  <2>1. sets \in SUBSET (1 .. Len(aofFile)) /\ Len(aofFile) \in Nat
    BY DEF WritesTo, Inv1, Named
  <2>2. Max(sets) \in sets
    BY <1>2, <2>1, MaxOfPositions, ZenonT(30)
  <2>3. aofFile[Max(sets)] \in DOMAIN issued
    BY <2>1, <2>2, ElementOfSeq, Zenon DEF Inv1, Named
  <2>4. Cmd(aofFile[Max(sets)]) \in Command
    BY <2>3, IssuedCommand, Zenon DEF Inv1, TypeOK
  <2>5. QED
    BY <1>2, <2>4, CommandValue, Zenon DEF Recovered
<1>3. QED
  BY <1>1, <1>2, Zenon

\* Every step leaves each thread at a place of its code.
LEMMA ThreadStep == Inv1 /\ [Next]_vars => ThreadTypes'
<1> SUFFICES ASSUME Inv1, [Next]_vars
             PROVE  ThreadTypes'
  BY Zenon
<1> USE BoundsAssumption DEF threadVars, raftVars, snapVars, diskVars, history
<1>1. ASSUME NEW w \in Workers, NEW r \in Requests, Receive(w, r)
      PROVE  ThreadTypes'
  BY <1>1
     DEF Receive, At, Inv1, TypeOK, ThreadTypes, CounterTypes
<1>2. ASSUME NEW w \in Workers, ProposePush(w)
      PROVE  ThreadTypes'
  BY <1>2, Zenon
     DEF ProposePush, At, Inv1, TypeOK, ThreadTypes, CounterTypes
<1>3. ASSUME NEW w \in Workers, AppendToDisk(w)
      PROVE  ThreadTypes'
  BY <1>3, Zenon
     DEF AppendToDisk, At, Inv1, TypeOK, ThreadTypes, CounterTypes
<1>4. ASSUME NEW w \in Workers, AppendAOF(w)
      PROVE  ThreadTypes'
  BY <1>4, Zenon
     DEF AppendAOF, At, Inv1, TypeOK, ThreadTypes, CounterTypes
<1>5. ASSUME NEW w \in Workers, OptimisticApply(w)
      PROVE  ThreadTypes'
  BY <1>5, Zenon
     DEF OptimisticApply, At, Inv1, TypeOK, ThreadTypes, CounterTypes
<1>6. ASSUME NEW w \in Workers, QueueReply(w)
      PROVE  ThreadTypes'
  BY <1>6, Zenon
     DEF QueueReply, At, Inv1, TypeOK, ThreadTypes, CounterTypes
<1>7. CASE Drain
  BY <1>7, Zenon
     DEF Drain, MainAt, Inv1, TypeOK, ThreadTypes, CounterTypes
<1>8. CASE Tick
  BY <1>8, Zenon
     DEF Tick, MainAt, Inv1, TypeOK, ThreadTypes, CounterTypes
<1>9. CASE Take
  BY <1>9, Zenon
     DEF Take, MainAt, Inv1, TypeOK, ThreadTypes, CounterTypes
<1>10. CASE ApplyEntry
  BY <1>10, Zenon
     DEF ApplyEntry, MainAt, Inv1, TypeOK, ThreadTypes, CounterTypes
<1>11. CASE ApplyThrows
  BY <1>11, Zenon
     DEF ApplyThrows, Inv1, TypeOK, ThreadTypes, CounterTypes
<1>12. CASE Fork
  BY <1>12, Zenon
     DEF Fork, SnapshotDue, Inv1, TypeOK, ThreadTypes, CounterTypes
<1>13. CASE ForkFails
  BY <1>13, Zenon
     DEF ForkFails, SnapshotDue, Fault, Inv1, TypeOK, ThreadTypes,
         CounterTypes
<1>14. CASE ChildWipe
  BY <1>14, Zenon
     DEF ChildWipe, Inv1, TypeOK, ThreadTypes, CounterTypes
<1>15. ASSUME NEW k \in Keys, ChildWrite(k)
       PROVE  ThreadTypes'
  BY <1>15, Zenon
     DEF ChildWrite, Inv1, TypeOK, ThreadTypes, CounterTypes
<1>16. CASE ChildKilled
  BY <1>16, Zenon
     DEF ChildKilled, Fault, Inv1, TypeOK, ThreadTypes, CounterTypes
<1>17. CASE ChildThrows
  BY <1>17, Zenon
     DEF ChildThrows, Fault, Inv1, TypeOK, ThreadTypes, CounterTypes
<1>18. CASE Truncate
  BY <1>18, Zenon
     DEF Truncate, Inv1, TypeOK, ThreadTypes, CounterTypes
<1>19. CASE Stop
  BY <1>19, Zenon
     DEF Stop, Fault, Inv1, TypeOK, ThreadTypes, CounterTypes
<1>20. CASE Exit
  BY <1>20
     DEF Exit, MemoryGone, Inv1, TypeOK, ThreadTypes, CounterTypes
<1>21. CASE Crash
  BY <1>21
     DEF Crash, MemoryGone, Fault, Inv1, TypeOK, ThreadTypes, CounterTypes
<1>22. CASE Start
  BY <1>22, Zenon
     DEF Start, Inv1, TypeOK, ThreadTypes, CounterTypes
<1>23. CASE UNCHANGED <<mode, mpc, pc, cur, spc>>
  BY <1>23, Zenon DEF Inv1, TypeOK, ThreadTypes
<1>24. QED
  BY <1>1, <1>2, <1>3, <1>4, <1>5, <1>6, <1>7, <1>8, <1>9, <1>10, <1>11,
     <1>12, <1>13, <1>14, <1>15, <1>16, <1>17, <1>18, <1>19, <1>20, <1>21,
     <1>22, <1>23, SMTT(30)
     DEF Next, WorkerStep, MainStep, SnapshotStep, vars, StartFails

\* Every step leaves a value or nothing under each key of the store, the
\* child's image and the snapshot.
LEMMA StoreStep == Inv1 /\ [Next]_vars => StoreTypes'
<1> SUFFICES ASSUME Inv1, [Next]_vars
             PROVE  StoreTypes'
  BY Zenon
<1> USE BoundsAssumption DEF threadVars, raftVars, snapVars, diskVars, history
<1>1. ASSUME NEW w \in Workers, OptimisticApply(w)
      PROVE  StoreTypes'
  BY <1>1, IssuedCommand, CommandValue, Zenon
     DEF OptimisticApply, At, StoreAs, Named, Inv1, TypeOK, StoreTypes
<1>2. CASE ApplyEntry
  BY <1>2, IssuedCommand, CommandValue, HeadTailProperties, Zenon
     DEF ApplyEntry, MainAt, StoreAs, Named, MainPhase, Inv1, TypeOK,
         StoreTypes
<1>3. CASE Fork
  BY <1>3, Zenon
     DEF Fork, SnapshotDue, Inv1, TypeOK, StoreTypes
<1>4. CASE ChildWipe
  BY <1>4, Zenon
     DEF ChildWipe, EmptyStore, Inv1, TypeOK, StoreTypes
<1>5. ASSUME NEW k \in Keys, ChildWrite(k)
      PROVE  StoreTypes'
  BY <1>5, Zenon
     DEF ChildWrite, Inv1, TypeOK, StoreTypes
<1>6. CASE Exit
  BY <1>6, Zenon
     DEF Exit, MemoryGone, EmptyStore, Inv1, TypeOK, StoreTypes
<1>7. CASE Crash
  BY <1>7, Zenon
     DEF Crash, MemoryGone, Fault, EmptyStore, Inv1, TypeOK, StoreTypes
<1>8. CASE Start
  BY <1>8, RecoveredValue, Zenon
     DEF Start, Inv1, TypeOK, StoreTypes
<1>9. CASE UNCHANGED <<kv, snap, image, todo>>
  BY <1>9, Zenon DEF Inv1, TypeOK, StoreTypes
<1>10. QED
  BY <1>1, <1>2, <1>3, <1>4, <1>5, <1>6, <1>7, <1>8, <1>9, ZenonT(30)
     DEF Next, WorkerStep, MainStep, SnapshotStep, vars, Receive, ProposePush,
         AppendToDisk, AppendAOF, QueueReply, Drain, Tick, Take, ApplyThrows,
         ForkFails, ChildKilled, ChildThrows, Truncate, Stop, StartFails

\* Every step stays within the bounds and records only writes.
LEMMA CounterStep == Inv1 /\ [Next]_vars => CounterTypes'
<1> SUFFICES ASSUME Inv1, [Next]_vars
             PROVE  CounterTypes'
  BY Zenon
<1> USE BoundsAssumption DEF threadVars, raftVars, snapVars, diskVars, history
<1>1. ASSUME NEW w \in Workers, NEW r \in Requests, Receive(w, r)
      PROVE  CounterTypes'
  <2> DEFINE R == [cmd : Command, seen : SUBSET Writes]
             new == [cmd |-> r, seen |-> acked]
  <2>1. new \in R
    BY RequestsAssumption, Zenon DEF Inv1, TypeOK, CounterTypes
  <2>2. issued \in Seq(R) /\ Len(issued) \in Nat
    BY DEF Inv1, TypeOK, CounterTypes
  <2> HIDE DEF R, new
  <2>3. Append(issued, new) \in Seq(R) /\ Len(Append(issued, new)) = Len(issued) + 1
    BY <2>1, <2>2, AppendProperties, Zenon
  <2>4. QED
    BY <1>1, <2>2, <2>3 DEF Receive, Inv1, TypeOK, CounterTypes, R, new
<1>2. ASSUME NEW w \in Workers, QueueReply(w)
      PROVE  CounterTypes'
  <2>1. cur[w] \in Writes
    BY <1>2, Names, ZenonT(30) DEF QueueReply, At, Inv1, TypeOK, Named
  <2>2. QED
    BY <1>2, <2>1, Zenon DEF QueueReply, Inv1, TypeOK, CounterTypes
<1>3. CASE Drain
  BY <1>3, Zenon
     DEF Drain, MainAt, Inv1, TypeOK, CounterTypes
<1>4. CASE Fork
  BY <1>4
     DEF Fork, SnapshotDue, Inv1, TypeOK, CounterTypes
<1>5. CASE ForkFails
  BY <1>5
     DEF ForkFails, SnapshotDue, Fault, Inv1, TypeOK, CounterTypes
<1>6. CASE ChildKilled
  BY <1>6
     DEF ChildKilled, Fault, Inv1, TypeOK, CounterTypes
<1>7. CASE ChildThrows
  BY <1>7
     DEF ChildThrows, Fault, Inv1, TypeOK, CounterTypes
<1>8. CASE Stop
  BY <1>8
     DEF Stop, Fault, Inv1, TypeOK, CounterTypes
<1>9. CASE Exit
  BY <1>9, Zenon
     DEF Exit, MemoryGone, Inv1, TypeOK, CounterTypes
<1>10. CASE Crash
  BY <1>10
     DEF Crash, MemoryGone, Fault, Inv1, TypeOK, CounterTypes
<1>11. CASE UNCHANGED <<faults, snaps, replyQ, acked, lost, issued>>
  BY <1>11, Zenon DEF Inv1, TypeOK, CounterTypes
<1>12. QED
  BY <1>1, <1>2, <1>3, <1>4, <1>5, <1>6, <1>7, <1>8, <1>9, <1>10, <1>11, ZenonT(30)
     DEF Next, WorkerStep, MainStep, SnapshotStep, vars, ProposePush,
         AppendToDisk, AppendAOF, OptimisticApply, Tick, Take, ApplyEntry,
         ApplyThrows, ChildWipe, ChildWrite, Truncate, Start, StartFails

\* Nothing runs while the server is down, and the main thread applies exactly
\* when takePendingApply returned entries.
LEMMA PhaseStep == Inv1 /\ [Next]_vars => (NothingRuns /\ MainPhase)'
<1> SUFFICES ASSUME Inv1, [Next]_vars
             PROVE  (NothingRuns /\ MainPhase)'
  BY Zenon
<1> USE BoundsAssumption DEF threadVars, raftVars, snapVars, diskVars, history
<1>1. ASSUME NEW w \in Workers, NEW r \in Requests, Receive(w, r)
      PROVE  (NothingRuns /\ MainPhase)'
  BY <1>1, Zenon
     DEF Receive, At, Inv1, TypeOK, ThreadTypes, LogTypes, NothingRuns,
         MainPhase
<1>2. ASSUME NEW w \in Workers, ProposePush(w)
      PROVE  (NothingRuns /\ MainPhase)'
  BY <1>2, Zenon
     DEF ProposePush, At, Inv1, TypeOK, ThreadTypes, LogTypes, NothingRuns,
         MainPhase
<1>3. ASSUME NEW w \in Workers, AppendToDisk(w)
      PROVE  (NothingRuns /\ MainPhase)'
  BY <1>3, Zenon
     DEF AppendToDisk, At, Inv1, TypeOK, ThreadTypes, LogTypes, NothingRuns,
         MainPhase
<1>4. ASSUME NEW w \in Workers, AppendAOF(w)
      PROVE  (NothingRuns /\ MainPhase)'
  BY <1>4, Zenon
     DEF AppendAOF, At, Inv1, TypeOK, ThreadTypes, LogTypes, NothingRuns,
         MainPhase
<1>5. ASSUME NEW w \in Workers, OptimisticApply(w)
      PROVE  (NothingRuns /\ MainPhase)'
  BY <1>5, Zenon
     DEF OptimisticApply, At, Inv1, TypeOK, ThreadTypes, LogTypes,
         NothingRuns, MainPhase
<1>6. ASSUME NEW w \in Workers, QueueReply(w)
      PROVE  (NothingRuns /\ MainPhase)'
  BY <1>6, Zenon
     DEF QueueReply, At, Inv1, TypeOK, ThreadTypes, LogTypes, NothingRuns,
         MainPhase
<1>7. CASE Drain
  BY <1>7, Zenon
     DEF Drain, MainAt, Inv1, TypeOK, ThreadTypes, LogTypes, NothingRuns,
         MainPhase
<1>8. CASE Tick
  BY <1>8, Zenon
     DEF Tick, MainAt, Inv1, TypeOK, ThreadTypes, LogTypes, NothingRuns,
         MainPhase
<1>9. CASE Take
  <2>1. rlog \in Seq(Writes) /\ lastApplied \in 0 .. Len(rlog)
    BY Zenon DEF Inv1, TypeOK, LogTypes
  <2>2. Len(applyQ') = Len(rlog) - lastApplied
    BY <1>9, <2>1 DEF Take
  <2>3. applyQ' \in Seq(Writes)
    BY <1>9, <2>1 DEF Take
  <2>4. applyQ' # <<>> <=> lastApplied < Len(rlog)
    BY <2>1, <2>2, <2>3, EmptySeq
  <2>5. QED
    BY <1>9, <2>4, Zenon DEF Take, MainAt, Inv1, NothingRuns, MainPhase
<1>10. CASE ApplyEntry
  <2>1. applyQ \in Seq(Writes) /\ applyQ # <<>>
    BY <1>10, Zenon DEF ApplyEntry, MainAt, Inv1, TypeOK, LogTypes, MainPhase
  <2>2. Tail(applyQ) \in Seq(Writes) /\ Len(Tail(applyQ)) = Len(applyQ) - 1
    BY <2>1, HeadTailProperties, Zenon
  <2>3. Tail(applyQ) # <<>> <=> Len(applyQ) # 1
    <3>1. Len(applyQ) \in Nat \ {0}
      BY <2>1, EmptySeq, Zenon
    <3>2. CASE Tail(applyQ) = <<>>
      BY <2>2, <3>1, <3>2
    <3>3. CASE Tail(applyQ) # <<>>
      BY <2>2, <3>1, <3>3, EmptySeq
    <3>4. QED
      BY <3>2, <3>3, Zenon
  <2>4. QED
    BY <1>10, <2>3, Zenon DEF ApplyEntry, MainAt, Inv1, NothingRuns, MainPhase
<1>11. CASE ApplyThrows
  BY <1>11, Zenon
     DEF ApplyThrows, Inv1, TypeOK, ThreadTypes, LogTypes, NothingRuns,
         MainPhase
<1>12. CASE Stop
  BY <1>12, Zenon
     DEF Stop, Fault, Inv1, TypeOK, ThreadTypes, LogTypes, NothingRuns,
         MainPhase
<1>13. CASE Exit
  BY <1>13, Zenon
     DEF Exit, MemoryGone, Inv1, TypeOK, ThreadTypes, LogTypes, NothingRuns,
         MainPhase
<1>14. CASE Crash
  BY <1>14, Zenon
     DEF Crash, MemoryGone, Fault, Inv1, TypeOK, ThreadTypes, LogTypes,
         NothingRuns, MainPhase
<1>15. CASE Start
  BY <1>15, Zenon
     DEF Start, Inv1, TypeOK, ThreadTypes, LogTypes, NothingRuns, MainPhase
<1>16. CASE UNCHANGED <<mode, threadVars, raftVars, aofBuf>>
  BY <1>16, Zenon DEF Inv1, NothingRuns, MainPhase
<1>17. QED
  BY <1>1, <1>2, <1>3, <1>4, <1>5, <1>6, <1>7, <1>8, <1>9, <1>10, <1>11,
     <1>12, <1>13, <1>14, <1>15, <1>16, ZenonT(30)
     DEF Next, WorkerStep, MainStep, SnapshotStep, vars, Fork, ForkFails,
         ChildWipe, ChildWrite, ChildKilled, ChildThrows, Truncate, StartFails

\* A log, a buffer or a worker never refers to a write that was not received.
LEMMA NamedStep == Inv1 /\ [Next]_vars => Named'
<1> SUFFICES ASSUME Inv1, [Next]_vars
             PROVE  Named'
  BY Zenon
<1> USE BoundsAssumption DEF threadVars, raftVars, snapVars, diskVars, history
<1>1. ASSUME NEW w \in Workers, NEW r \in Requests, Receive(w, r)
      PROVE  Named'
  <2>1. /\ DOMAIN issued' = 1 .. Len(issued) + 1
        /\ DOMAIN issued = 1 .. Len(issued) /\ Len(issued) \in Nat
    BY <1>1 DEF Receive, Inv1, TypeOK, CounterTypes
  <2>2. DOMAIN issued \subseteq DOMAIN issued' /\ Len(issued) + 1 \in DOMAIN issued'
    BY <2>1
  <2>3. QED
    BY <1>1, <2>2, SeqMonotonic, ZenonT(30)
       DEF Receive, At, Inv1, TypeOK, ThreadTypes, Named
<1>2. ASSUME NEW w \in Workers, ProposePush(w)
      PROVE  Named'
  BY <1>2
     DEF ProposePush, At, Inv1, TypeOK, ThreadTypes, Named
<1>3. ASSUME NEW w \in Workers, AppendToDisk(w)
      PROVE  Named'
  <2>1. cur[w] \in DOMAIN issued
    BY <1>3, Zenon DEF AppendToDisk, At, Inv1, Named
  <2>2. Append(diskBuf, cur[w]) \in Seq(DOMAIN issued)
    BY <2>1 DEF Inv1, Named
  <2>3. diskBuf' \in Seq(DOMAIN issued) /\ raftFile' \in Seq(DOMAIN issued)
    <3>1. CASE diskBuf' = Append(diskBuf, cur[w]) /\ raftFile' = raftFile
      BY <2>2, <3>1, Zenon DEF Inv1, Named
    <3>2. CASE diskBuf' = <<>> /\ raftFile' = raftFile \o Append(diskBuf, cur[w])
      BY <2>2, <3>2, ConcatProperties, EmptySeq, Zenon DEF Inv1, Named
    <3>3. QED
      BY <1>3, <3>1, <3>2, Zenon DEF AppendToDisk
  <2>4. QED
    BY <1>3, <2>3, Zenon DEF AppendToDisk, At, Inv1, TypeOK, ThreadTypes, Named
<1>4. ASSUME NEW w \in Workers, AppendAOF(w)
      PROVE  Named'
  <2>1. cur[w] \in DOMAIN issued
    BY <1>4, Zenon DEF AppendAOF, At, Inv1, Named
  <2>2. Append(aofBuf, cur[w]) \in Seq(DOMAIN issued)
    BY <2>1 DEF Inv1, Named
  <2>3. aofBuf' \in Seq(DOMAIN issued) /\ aofFile' \in Seq(DOMAIN issued)
    <3>1. CASE aofBuf' = Append(aofBuf, cur[w]) /\ aofFile' = aofFile
      BY <2>2, <3>1, Zenon DEF Inv1, Named
    <3>2. CASE aofBuf' = <<>> /\ aofFile' = aofFile \o Append(aofBuf, cur[w])
      BY <2>2, <3>2, ConcatProperties, EmptySeq, Zenon DEF Inv1, Named
    <3>3. QED
      BY <1>4, <3>1, <3>2, Zenon DEF AppendAOF
  <2>4. QED
    BY <1>4, <2>3, Zenon DEF AppendAOF, At, Inv1, TypeOK, ThreadTypes, Named
<1>5. ASSUME NEW w \in Workers, OptimisticApply(w)
      PROVE  Named'
  BY <1>5, Zenon
     DEF OptimisticApply, At, Inv1, TypeOK, ThreadTypes, Named
<1>6. ASSUME NEW w \in Workers, QueueReply(w)
      PROVE  Named'
  BY <1>6, Zenon
     DEF QueueReply, At, Inv1, TypeOK, ThreadTypes, Named
<1>7. CASE Drain
  BY <1>7, Zenon
     DEF Drain, MainAt, Inv1, TypeOK, ThreadTypes, Named
<1>8. CASE Tick
  BY <1>8
     DEF Tick, MainAt, Inv1, TypeOK, ThreadTypes, Named
<1>9. CASE Take
  <2>1. applyQ' = SubSeq(rlog, lastApplied + 1, Len(rlog))
    BY <1>9, Zenon DEF Take
  <2>2. lastApplied \in Nat /\ rlog \in Seq(DOMAIN issued)
    BY DEF LogTypes, Inv1, TypeOK, Named
  <2>3. applyQ' \in Seq(DOMAIN issued)
    BY <2>1, <2>2, SubSeqProperties, SMTT(30)
  <2>4. QED
    BY <1>9, <2>3, Zenon DEF Take, MainAt, Inv1, TypeOK, ThreadTypes, Named
<1>10. CASE ApplyEntry
  BY <1>10, HeadTailProperties
     DEF ApplyEntry, MainAt, MainPhase, Inv1, TypeOK, ThreadTypes, Named
<1>11. CASE ApplyThrows
  BY <1>11
     DEF ApplyThrows, Inv1, TypeOK, ThreadTypes, Named
<1>12. CASE Truncate
  BY <1>12
     DEF Truncate, Inv1, TypeOK, ThreadTypes, Named
<1>13. CASE Exit
  BY <1>13
     DEF Exit, MemoryGone, Inv1, TypeOK, ThreadTypes, Named
<1>14. CASE Crash
  BY <1>14
     DEF Crash, MemoryGone, Fault, Inv1, TypeOK, ThreadTypes, Named
<1>15. CASE Start
  BY <1>15, SMTT(30)
     DEF Start, Inv1, TypeOK, ThreadTypes, Named
<1>16. CASE UNCHANGED <<issued, acked, replyQ, rlog, applyQ, applied, diskBuf, raftFile, aofBuf,
                     aofFile, pc, cur>>
  BY <1>16, Zenon DEF Inv1, Named
<1>17. QED
  BY <1>1, <1>2, <1>3, <1>4, <1>5, <1>6, <1>7, <1>8, <1>9, <1>10, <1>11,
     <1>12, <1>13, <1>14, <1>15, <1>16, ZenonT(30)
     DEF Next, WorkerStep, MainStep, SnapshotStep, vars, Fork, ForkFails,
         ChildWipe, ChildWrite, ChildKilled, ChildThrows, Stop, StartFails

\* lastApplied never passes the end of the log, though workers push between
\* hasPendingApply and takePendingApply.
LEMMA AppliedStep == Inv1 /\ [Next]_vars => (lastApplied \in 0 .. Len(rlog))'
<1> SUFFICES ASSUME Inv1, [Next]_vars
             PROVE  (lastApplied \in 0 .. Len(rlog))'
  BY Zenon
<1> USE BoundsAssumption DEF threadVars, raftVars, snapVars, diskVars, history
<1>1. ASSUME NEW w \in Workers, ProposePush(w)
      PROVE  (lastApplied \in 0 .. Len(rlog))'
  BY <1>1, AppendProperties
     DEF ProposePush, At, Named, Inv1, TypeOK, LogTypes
<1>2. CASE Take
  BY <1>2
     DEF Take, MainAt, Inv1, TypeOK, LogTypes
<1>3. CASE Exit
  BY <1>3
     DEF Exit, MemoryGone, Inv1, TypeOK, LogTypes
<1>4. CASE Crash
  BY <1>4
     DEF Crash, MemoryGone, Fault, Inv1, TypeOK, LogTypes
<1>5. CASE Start
  BY <1>5
     DEF Start, NothingRuns, Inv1, TypeOK, LogTypes
<1>6. CASE UNCHANGED <<lastApplied, rlog>>
  BY <1>6, Zenon DEF Inv1, TypeOK, LogTypes
<1>7. QED
  BY <1>1, <1>2, <1>3, <1>4, <1>5, <1>6, ZenonT(30)
     DEF Next, WorkerStep, MainStep, SnapshotStep, vars, Receive,
         AppendToDisk, AppendAOF, OptimisticApply, QueueReply, Drain, Tick,
         ApplyEntry, ApplyThrows, Fork, ForkFails, ChildWipe, ChildWrite,
         ChildKilled, ChildThrows, Truncate, Stop, StartFails

\* The first layer is inductive by itself.
LEMMA Inv1Step == Inv1 /\ [Next]_vars => Inv1'
<1> SUFFICES ASSUME Inv1, [Next]_vars
             PROVE  Inv1'
  BY Zenon
<1>1. ThreadTypes' /\ StoreTypes' /\ CounterTypes' /\ Named'
  BY ThreadStep, StoreStep, CounterStep, NamedStep, Zenon
<1>2. LogTypes'
  <2>1. DOMAIN issued' \subseteq Writes
    BY <1>1, BoundsAssumption DEF CounterTypes, Writes
  <2>2. QED
    BY <1>1, <2>1, AppliedStep, SeqMonotonic, Zenon DEF LogTypes, Named
<1>3. frozen' \in BOOLEAN /\ fresh' \in BOOLEAN
  BY ZenonT(30) DEF Inv1, TypeOK, Next, WorkerStep, MainStep, SnapshotStep, vars,
         snapVars, history, Receive, ProposePush, AppendToDisk, AppendAOF,
         OptimisticApply, QueueReply, Drain, Tick, Take, ApplyEntry,
         ApplyThrows, Fork, ForkFails, ChildWipe, ChildWrite, ChildKilled,
         ChildThrows, Truncate, Stop, Exit, Crash, Start, StartFails,
         MemoryGone
<1>4. QED
  BY <1>1, <1>2, <1>3, PhaseStep, Zenon DEF Inv1, TypeOK

-----------------------------------------------------------------------------
(* The second layer.                                                       *)

\* What a worker at each step of its handler knows of its write.
Handled ==
    /\ \A v, w \in Workers :
           (v # w /\ pc[v] # "idle" /\ pc[w] # "idle") => cur[v] # cur[w]
    /\ \A w \in Workers :
           /\ pc[w] # "idle" => cur[w] \notin acked \cup replyQ
           /\ pc[w] = "propose" => cur[w] \notin Range(rlog)
           /\ pc[w] \in {"aof", "apply", "reply"} => cur[w] \in Range(RaftDisk)

\* A write is answered after propose returned, and is on disk once.
OnDisk == replyQ \subseteq Range(RaftDisk) /\ IsInjective(RaftDisk)

Inv2 == Handled /\ OnDisk /\ DiskMatchesLog /\ AckedDurable

\* Nothing is in the logs of the empty data directory.
LEMMA InitInv2 == Init => Inv2
<1> SUFFICES ASSUME Init
             PROVE  Inv2
  BY Zenon
<1>1. RaftDisk = <<>>
  BY DEF Init, RaftDisk
<1>2. OnDisk
  BY <1>1 DEF Init, OnDisk, IsInjective
<1>3. Handled /\ DiskMatchesLog /\ AckedDurable
  BY Zenon DEF Init, Handled, DiskMatchesLog, AckedDurable
<1>4. QED
  BY <1>2, <1>3, Zenon DEF Inv2

\* A log that holds each write once still does with a write it did not hold.
LEMMA InjectiveAppend ==
    ASSUME NEW S, NEW s \in Seq(S), NEW x \in S, IsInjective(s), x \notin Range(s)
    PROVE  IsInjective(Append(s, x))
<1> SUFFICES ASSUME NEW i \in DOMAIN Append(s, x), NEW j \in DOMAIN Append(s, x),
                    Append(s, x)[i] = Append(s, x)[j]
             PROVE  i = j
  BY Zenon DEF IsInjective
<1>1. \A k \in 1 .. Len(s) : Append(s, x)[k] = s[k] /\ s[k] # x
  BY AppendProperties, SMTT(30) DEF Range
<1>2. Append(s, x)[Len(s) + 1] = x /\ DOMAIN Append(s, x) = 1 .. Len(s) + 1
  BY AppendProperties, SMTT(30)
<1>3. QED
  BY <1>1, <1>2 DEF IsInjective

\* So does a file without the buffer that follows it.
LEMMA InjectivePrefix ==
    ASSUME NEW S, NEW s \in Seq(S), NEW t \in Seq(S), IsInjective(s \o t)
    PROVE  IsInjective(s)
<1>1. \A k \in DOMAIN s : k \in DOMAIN (s \o t) /\ (s \o t)[k] = s[k]
  BY ConcatProperties
<1>2. QED
  BY <1>1, Zenon DEF IsInjective

\* The buffer follows the file, as one sequence of names.
LEMMA RaftDiskNamed ==
    ASSUME Inv1
    PROVE  /\ RaftDisk \in Seq(DOMAIN issued)
           /\ Range(RaftDisk) = Range(raftFile) \cup Range(diskBuf)
           /\ Range(RaftDisk) \subseteq DOMAIN issued
           /\ Range(rlog) \subseteq DOMAIN issued
  BY ConcatProperties, RangeConcatenation, RangeOfSeq, SMTT(30) DEF Inv1, Named, RaftDisk

\* Whether or not it spills, appendToDisk adds its entry at the end.
LEMMA RaftDiskAppend ==
    ASSUME Inv1, NEW w \in Workers, AppendToDisk(w)
    PROVE  /\ RaftDisk' = Append(RaftDisk, cur[w])
           /\ Range(RaftDisk') = Range(RaftDisk) \cup {cur[w]}
           /\ Range(raftFile) \subseteq Range(raftFile')
           /\ cur[w] \in DOMAIN issued
<1>1. cur[w] \in DOMAIN issued
  BY ZenonT(30) DEF AppendToDisk, At, Inv1, Named
<1>2. /\ raftFile \in Seq(DOMAIN issued) /\ diskBuf \in Seq(DOMAIN issued)
      /\ Append(diskBuf, cur[w]) \in Seq(DOMAIN issued)
  BY <1>1 DEF Inv1, Named
<1>3. raftFile \o Append(diskBuf, cur[w]) = Append(RaftDisk, cur[w])
  BY <1>1, <1>2, ConcatAppend, SMTT(30) DEF RaftDisk
<1>4. CASE diskBuf' = Append(diskBuf, cur[w]) /\ raftFile' = raftFile
  <2>1. RaftDisk' = Append(RaftDisk, cur[w])
    BY <1>3, <1>4, Zenon DEF RaftDisk
  <2>2. QED
    BY <1>1, <1>4, <2>1, RangeAppend, RaftDiskNamed, SMTT(30)
<1>5. CASE diskBuf' = <<>> /\ raftFile' = raftFile \o Append(diskBuf, cur[w])
  <2>1. RaftDisk' = raftFile'
    <3>1. raftFile' \in Seq(DOMAIN issued) /\ diskBuf' = <<>>
      BY <1>2, <1>5, ConcatProperties, Zenon
    <3>2. QED
      BY <3>1, ConcatEmptySeq, Zenon DEF RaftDisk
  <2>2. Range(raftFile) \subseteq Range(raftFile')
    <3>1. ASSUME NEW s \in Seq(DOMAIN issued), NEW t \in Seq(DOMAIN issued)
          PROVE  Range(s) \subseteq Range(s \o t)
      <4>1. Range(s \o t) = Range(s) \cup Range(t)
        BY RangeConcatenation
      <4>2. QED
        BY <4>1, Zenon
    <3>2. QED
      BY <1>2, <1>5, <3>1, ZenonT(30)
  <2>3. QED
    BY <1>1, <1>3, <1>5, <2>1, <2>2, RangeAppend, RaftDiskNamed, SMTT(30)
<1>6. QED
  BY <1>4, <1>5, Zenon DEF AppendToDisk

\* The flush of a tick moves the buffer to the file.
LEMMA RaftDiskTick ==
    ASSUME Inv1, Tick
    PROVE  RaftDisk' = RaftDisk /\ raftFile' = RaftDisk
<1>1. raftFile' = RaftDisk /\ diskBuf' = <<>>
  BY Zenon DEF Tick, RaftDisk
<1>2. QED
  BY <1>1, RaftDiskNamed, ConcatEmptySeq, Zenon DEF RaftDisk

\* What is left of the two when the process ends.
LEMMA RaftDiskGone ==
    ASSUME Inv1, Exit \/ Crash
    PROVE  RaftDisk' = raftFile /\ raftFile' = raftFile
<1>1. raftFile' = raftFile /\ diskBuf' = <<>>
  BY Zenon DEF Exit, Crash, MemoryGone, diskVars
<1>2. QED
  BY <1>1, ConcatEmptySeq, Zenon DEF RaftDisk, Inv1, Named

\* A worker's write is in exactly the logs its handler has passed.
LEMMA HandledStep == Inv1 /\ Inv2 /\ [Next]_vars => Handled'
<1> SUFFICES ASSUME Inv1, Inv2, [Next]_vars
             PROVE  Handled'
  BY Zenon
<1> USE DEF threadVars, raftVars, snapVars, diskVars, history
<1>1. ASSUME NEW w \in Workers, NEW r \in Requests, Receive(w, r)
      PROVE  Handled'
  <2>1. /\ pc' = [pc EXCEPT ![w] = "propose"]
        /\ cur' = [cur EXCEPT ![w] = Len(issued) + 1]
        /\ UNCHANGED <<acked, replyQ, rlog, raftFile, diskBuf>>
    BY <1>1, Zenon DEF Receive, At
  <2>2. Len(issued) + 1 \notin DOMAIN issued
    BY Names DEF Inv1, TypeOK
  <2>3. /\ Len(issued) + 1 \notin acked \cup replyQ
        /\ Len(issued) + 1 \notin Range(rlog)
        /\ \A v \in Workers : pc[v] # "idle" => cur[v] # Len(issued) + 1
    BY <2>2, RaftDiskNamed, Zenon DEF Inv1, Named
  <2>4. RaftDisk' = RaftDisk
    BY <2>1, Zenon DEF RaftDisk
  <2>5. QED
    BY <2>1, <2>3, <2>4, Zenon DEF Inv1, TypeOK, ThreadTypes, Inv2, Handled
<1>2. ASSUME NEW w \in Workers, ProposePush(w)
      PROVE  Handled'
  <2>1. cur[w] \in DOMAIN issued /\ rlog \in Seq(DOMAIN issued)
    BY <1>2, ZenonT(30) DEF ProposePush, At, Inv1, Named
  <2>2. Range(rlog') = Range(rlog) \cup {cur[w]}
    <3>1. Range(Append(rlog, cur[w])) = Range(rlog) \cup {cur[w]}
      BY <2>1, RangeAppend
    <3>2. QED
      BY <1>2, <3>1, Zenon DEF ProposePush
  <2>3. RaftDisk' = RaftDisk
    BY <1>2, Zenon DEF ProposePush, RaftDisk
  <2>4. QED
    BY <1>2, <2>2, <2>3, Zenon
       DEF ProposePush, At, Inv1, TypeOK, ThreadTypes, Inv2, Handled
<1>3. ASSUME NEW w \in Workers, AppendToDisk(w)
      PROVE  Handled'
  BY <1>3, RaftDiskAppend, ZenonT(30)
     DEF AppendToDisk, At, Inv1, TypeOK, ThreadTypes, Inv2, Handled
<1>4. ASSUME NEW w \in Workers, AppendAOF(w)
      PROVE  Handled'
  <2>1. RaftDisk' = RaftDisk
    BY <1>4, Zenon DEF AppendAOF, RaftDisk
  <2>2. QED
    BY <1>4, <2>1, Zenon DEF AppendAOF, At, Inv1, TypeOK, ThreadTypes, Inv2, Handled
<1>5. ASSUME NEW w \in Workers, OptimisticApply(w)
      PROVE  Handled'
  <2>1. RaftDisk' = RaftDisk
    BY <1>5, Zenon DEF OptimisticApply, RaftDisk
  <2>2. QED
    BY <1>5, <2>1, Zenon DEF OptimisticApply, At, Inv1, TypeOK, ThreadTypes, Inv2,
       Handled
<1>6. ASSUME NEW w \in Workers, QueueReply(w)
      PROVE  Handled'
  <2>1. RaftDisk' = RaftDisk
    BY <1>6, SMTT(30) DEF QueueReply, RaftDisk
  <2>2. QED
    BY <1>6, <2>1, Zenon DEF QueueReply, At, Inv1, TypeOK, ThreadTypes, Inv2, Handled
<1>7. CASE Drain
  BY <1>7, ZenonT(30)
     DEF Drain, MainAt, RaftDisk, Inv2, Handled
<1>8. CASE Tick
  BY <1>8, RaftDiskTick, Zenon
     DEF Tick, MainAt, Inv2, Handled
<1>9. CASE Exit
  <2>1. \A v \in Workers : pc'[v] = "idle"
    BY <1>9, Zenon DEF Exit, MemoryGone
  <2>2. QED
    BY <2>1, Zenon DEF Handled
<1>10. CASE Crash
  <2>1. \A v \in Workers : pc'[v] = "idle"
    BY <1>10, Zenon DEF Crash, MemoryGone
  <2>2. QED
    BY <2>1, Zenon DEF Handled
<1>11. CASE Start
  <2>1. \A v \in Workers : pc'[v] = "idle"
    BY <1>11, Zenon DEF Start, Inv1, NothingRuns
  <2>2. QED
    BY <2>1, Zenon DEF Handled
<1>12. CASE UNCHANGED <<pc, cur, acked, replyQ, rlog, raftFile, diskBuf>>
  BY <1>12, Zenon DEF Inv2, Handled, RaftDisk
<1>13. QED
  BY <1>1, <1>2, <1>3, <1>4, <1>5, <1>6, <1>7, <1>8, <1>9, <1>10, <1>11, <1>12, ZenonT(30)
     DEF Next, WorkerStep, MainStep, SnapshotStep, vars, Take, ApplyEntry,
         ApplyThrows, Fork, ForkFails, ChildWipe, ChildWrite, ChildKilled,
         ChildThrows, Truncate, Stop, StartFails

\* A write whose reply is queued is on its way to the Raft file.
LEMMA OnDiskStep == Inv1 /\ Inv2 /\ [Next]_vars => OnDisk'
<1> SUFFICES ASSUME Inv1, Inv2, [Next]_vars
             PROVE  OnDisk'
  BY Zenon
<1> USE DEF threadVars, raftVars, snapVars, diskVars, history
<1>1. ASSUME NEW w \in Workers, AppendToDisk(w)
      PROVE  OnDisk'
  <2>1. RaftDisk' = Append(RaftDisk, cur[w]) /\ cur[w] \notin Range(RaftDisk)
    BY <1>1, RaftDiskAppend, ZenonT(60) DEF AppendToDisk, At, Inv2, DiskMatchesLog, Unwritten
  <2>2. IsInjective(Append(RaftDisk, cur[w]))
    BY <2>1, RaftDiskNamed, InjectiveAppend, RaftDiskAppend, <1>1, Zenon DEF Inv2,
       OnDisk
  <2>3. QED
    BY <1>1, <2>1, <2>2, RaftDiskAppend, Zenon DEF AppendToDisk, Inv2, OnDisk
<1>2. ASSUME NEW w \in Workers, QueueReply(w)
      PROVE  OnDisk'
  <2>1. RaftDisk' = RaftDisk
    BY <1>2, Zenon DEF QueueReply, RaftDisk
  <2>2. cur[w] \in Range(RaftDisk)
    BY <1>2, Zenon DEF QueueReply, At, Inv2, Handled
  <2>3. QED
    BY <1>2, <2>1, <2>2, SMTT(30) DEF QueueReply, Inv2, OnDisk
<1>3. CASE Drain
  BY <1>3, Zenon
     DEF Drain, MainAt, RaftDisk, Inv2, OnDisk
<1>4. CASE Tick
  BY <1>4, RaftDiskTick, Zenon
     DEF Tick, MainAt, Inv2, OnDisk
<1>5. CASE Exit
  <2>1. RaftDisk' = raftFile /\ replyQ' = {}
    BY <1>5, RaftDiskGone, ZenonT(30) DEF Exit, MemoryGone
  <2>2. IsInjective(raftFile)
    BY InjectivePrefix, Zenon DEF Inv1, Named, Inv2, OnDisk, RaftDisk
  <2>3. QED
    BY <2>1, <2>2, Zenon DEF OnDisk
<1>6. CASE Crash
  <2>1. RaftDisk' = raftFile /\ replyQ' = {}
    BY <1>6, RaftDiskGone, ZenonT(30) DEF Crash, MemoryGone
  <2>2. IsInjective(raftFile)
    BY InjectivePrefix, Zenon DEF Inv1, Named, Inv2, OnDisk, RaftDisk
  <2>3. QED
    BY <2>1, <2>2, Zenon DEF OnDisk
<1>7. CASE UNCHANGED <<replyQ, raftFile, diskBuf>>
  BY <1>7, Zenon DEF Inv2, OnDisk, RaftDisk
<1>8. QED
  BY <1>1, <1>2, <1>3, <1>4, <1>5, <1>6, <1>7, ZenonT(30)
     DEF Next, WorkerStep, MainStep, SnapshotStep, vars, Receive, ProposePush,
         AppendAOF, OptimisticApply, Take, ApplyEntry, ApplyThrows, Fork,
         ForkFails, ChildWipe, ChildWrite, ChildKilled, ChildThrows, Truncate,
         Stop, Start, StartFails

\* propose, appendToDisk, the flush of tick and a restart keep the file and the
\* log in step.
LEMMA DiskMatchesLogStep == Inv1 /\ Inv2 /\ [Next]_vars => DiskMatchesLog'
<1> SUFFICES ASSUME Inv1, Inv2, [Next]_vars
             PROVE  DiskMatchesLog'
  BY Zenon
<1> USE DEF threadVars, raftVars, snapVars, diskVars, history
<1>1. ASSUME NEW w \in Workers, NEW r \in Requests, Receive(w, r)
      PROVE  DiskMatchesLog'
  <2>1. UNCHANGED <<rlog, RaftDisk, Unwritten>> /\ mode' = mode
    BY <1>1, Zenon DEF Receive, At, RaftDisk, Unwritten, Inv1, TypeOK, ThreadTypes
  <2>2. QED
    BY <2>1, SMTT(30) DEF Inv2, DiskMatchesLog
<1>2. ASSUME NEW w \in Workers, ProposePush(w)
      PROVE  DiskMatchesLog'
  <2>1. cur[w] \in DOMAIN issued /\ rlog \in Seq(DOMAIN issued)
    BY <1>2, Zenon DEF ProposePush, At, Inv1, Named
  <2>2. Range(rlog') = Range(rlog) \cup {cur[w]} /\ RaftDisk' = RaftDisk
    <3>1. Range(Append(rlog, cur[w])) = Range(rlog) \cup {cur[w]}
      BY <2>1, RangeAppend
    <3>2. QED
      BY <1>2, <3>1, SMTT(30) DEF ProposePush, RaftDisk
  <2>3. Unwritten' = Unwritten \cup {cur[w]}
    BY <1>2, Zenon DEF ProposePush, At, Unwritten, Inv1, TypeOK, ThreadTypes
  <2>4. mode # "down" /\ mode' = mode /\ cur[w] \notin Range(rlog)
    BY <1>2, Zenon DEF ProposePush, At, Inv2, Handled
  <2>5. QED
    BY <2>2, <2>3, <2>4, SMTT(30) DEF Inv2, DiskMatchesLog
<1>3. ASSUME NEW w \in Workers, AppendToDisk(w)
      PROVE  DiskMatchesLog'
  <2>1. Range(RaftDisk') = Range(RaftDisk) \cup {cur[w]} /\ rlog' = rlog
    BY <1>3, RaftDiskAppend, ZenonT(30) DEF AppendToDisk
  <2>2. Unwritten' = Unwritten \ {cur[w]} /\ cur[w] \in Unwritten
    BY <1>3, Zenon DEF AppendToDisk, At, Unwritten, Inv1, TypeOK, ThreadTypes, Inv2,
       Handled
  <2>3. IsInjective(RaftDisk')
    BY OnDiskStep, Zenon DEF OnDisk
  <2>4. mode # "down" /\ mode' = mode
    BY <1>3, Zenon DEF AppendToDisk, At
  <2>5. QED
    BY <2>1, <2>2, <2>3, <2>4, Zenon DEF Inv2, DiskMatchesLog
<1>4. ASSUME NEW w \in Workers, AppendAOF(w)
      PROVE  DiskMatchesLog'
  <2>1. UNCHANGED <<rlog, RaftDisk, Unwritten>> /\ mode' = mode
    BY <1>4, SMTT(30) DEF AppendAOF, At, RaftDisk, Unwritten, Inv1, TypeOK, ThreadTypes
  <2>2. QED
    BY <2>1, Zenon DEF Inv2, DiskMatchesLog
<1>5. ASSUME NEW w \in Workers, OptimisticApply(w)
      PROVE  DiskMatchesLog'
  <2>1. UNCHANGED <<rlog, RaftDisk, Unwritten>> /\ mode' = mode
    BY <1>5, SMTT(30) DEF OptimisticApply, At, RaftDisk, Unwritten, Inv1, TypeOK, ThreadTypes
  <2>2. QED
    BY <2>1, Zenon DEF Inv2, DiskMatchesLog
<1>6. ASSUME NEW w \in Workers, QueueReply(w)
      PROVE  DiskMatchesLog'
  <2>1. UNCHANGED <<rlog, RaftDisk, Unwritten>> /\ mode' = mode
    BY <1>6, Zenon DEF QueueReply, At, RaftDisk, Unwritten, Inv1, TypeOK, ThreadTypes
  <2>2. QED
    BY <2>1, Zenon DEF Inv2, DiskMatchesLog
<1>7. CASE Tick
  <2>1. UNCHANGED <<rlog, RaftDisk, Unwritten>> /\ mode # "down"
    BY <1>7 , RaftDiskTick, SMTT(30) DEF Tick, MainAt, RaftDisk, Unwritten
  <2>2. QED
    BY <2>1, SMTT(30) DEF Inv2, DiskMatchesLog
<1>8. CASE ApplyThrows
  <2>1. UNCHANGED <<rlog, RaftDisk, Unwritten>> /\ mode # "down"
    BY <1>8, SMTT(30) DEF ApplyThrows, RaftDisk, Unwritten
  <2>2. QED
    BY <2>1, Zenon DEF Inv2, DiskMatchesLog
<1>9. CASE Stop
  <2>1. UNCHANGED <<rlog, RaftDisk, Unwritten>> /\ mode # "down"
    BY <1>9, Zenon DEF Stop, RaftDisk, Unwritten
  <2>2. QED
    BY <2>1, Zenon DEF Inv2, DiskMatchesLog
<1>10. CASE Exit
  BY <1>10, Zenon
     DEF Exit, MemoryGone, DiskMatchesLog
<1>11. CASE Crash
  BY <1>11, Zenon
     DEF Crash, MemoryGone, Fault, DiskMatchesLog
<1>12. CASE Start
  <2>1. rlog' = raftFile /\ RaftDisk' = RaftDisk /\ Unwritten' = {}
    BY <1>12, SMTT(30) DEF Start, RaftDisk, Unwritten, Inv1, NothingRuns
  <2>2. RaftDisk = raftFile
    BY ConcatEmptySeq, <1>12, SMTT(30) DEF Start, RaftDisk, Inv1, Named, NothingRuns
  <2>3. QED
    BY <2>1, <2>2, SMTT(30) DEF Inv2, OnDisk, DiskMatchesLog
<1>13. CASE UNCHANGED <<mode, pc, cur, rlog, raftFile, diskBuf>>
  BY <1>13, Zenon DEF Inv2, DiskMatchesLog, RaftDisk, Unwritten
<1>14. QED
  BY <1>1, <1>2, <1>3, <1>4, <1>5, <1>6, <1>7, <1>8, <1>9, <1>10, <1>11,
     <1>12, <1>13, ZenonT(30)
     DEF Next, WorkerStep, MainStep, SnapshotStep, vars, Drain, Take,
         ApplyEntry, Fork, ForkFails, ChildWipe, ChildWrite, ChildKilled,
         ChildThrows, Truncate, StartFails

\* A reply is sent only for a write that the next tick, at the latest, flushes.
LEMMA AckedDurableStep == Inv1 /\ Inv2 /\ [Next]_vars => AckedDurable'
<1> SUFFICES ASSUME Inv1, Inv2, [Next]_vars
             PROVE  AckedDurable'
  BY Zenon
<1> USE DEF threadVars, raftVars, snapVars, diskVars, history
<1>1. ASSUME NEW w \in Workers, AppendToDisk(w)
      PROVE  AckedDurable'
  <2>1. /\ Range(RaftDisk) \subseteq Range(RaftDisk')
        /\ Range(raftFile) \subseteq Range(raftFile')
    BY <1>1, RaftDiskAppend, Zenon
  <2>2. UNCHANGED <<mode, mpc, acked, lost>>
    BY <1>1, Zenon DEF AppendToDisk
  <2>3. QED
    BY <2>1, <2>2, Zenon DEF Inv2, AckedDurable
<1>2. CASE Drain
  <2>1. /\ acked' = acked \cup replyQ /\ lost' = lost /\ RaftDisk' = RaftDisk
        /\ mode' = "up" /\ mpc' = "tick" /\ mpc = "drain"
    BY <1>2, Zenon DEF Drain, MainAt, RaftDisk
  <2>2. acked \ lost \subseteq Range(raftFile)
    BY <2>1, Zenon DEF Inv2, AckedDurable
  <2>3. QED
    BY <2>1, <2>2, RaftDiskNamed, Zenon DEF Inv2, OnDisk, AckedDurable
<1>3. CASE Tick
  <2>1. /\ UNCHANGED <<acked, lost>> /\ raftFile' = RaftDisk
        /\ mode = "up" /\ mpc = "tick" /\ mpc' = "take"
    BY <1>3, RaftDiskTick, Zenon DEF Tick, MainAt
  <2>2. QED
    BY <2>1, Zenon DEF Inv2, AckedDurable
<1>4. CASE Take
  BY <1>4, Zenon
     DEF Take, MainAt, Inv2, AckedDurable
<1>5. CASE ApplyEntry
  BY <1>5, Zenon
     DEF ApplyEntry, MainAt, Inv2, AckedDurable
<1>6. CASE ApplyThrows
  BY <1>6, Zenon
     DEF ApplyThrows, Inv2, AckedDurable
<1>7. CASE Stop
  <2>1. UNCHANGED <<acked, lost, raftFile, mpc>> /\ mpc # "tick"
    BY <1>7, Zenon DEF Stop
  <2>2. QED
    BY <2>1, Zenon DEF Inv2, AckedDurable
<1>8. CASE Exit
  <2>1. /\ UNCHANGED <<acked, lost, raftFile>> /\ mpc' = "drain"
        /\ mpc # "tick"
    BY <1>8, Zenon DEF Exit, MemoryGone, Inv1, MainPhase
  <2>2. QED
    BY <2>1, Zenon DEF Inv2, AckedDurable
<1>9. CASE Crash
  <2>1. /\ UNCHANGED <<acked, raftFile>> /\ mpc' = "drain"
        /\ lost' = IF mpc = "tick" THEN lost \cup (acked \ Range(raftFile)) ELSE lost
    BY <1>9, Zenon DEF Crash, MemoryGone
  <2>2. QED
    BY <2>1, Zenon DEF Inv2, AckedDurable
<1>10. CASE Start
  <2>1. UNCHANGED <<acked, lost, raftFile, mpc>> /\ mpc # "tick"
    BY <1>10, Zenon DEF Start, Inv1, NothingRuns
  <2>2. QED
    BY <2>1, Zenon DEF Inv2, AckedDurable
<1>11. CASE UNCHANGED <<mode, mpc, acked, lost, raftFile, diskBuf>>
  BY <1>11, Zenon DEF Inv2, AckedDurable, RaftDisk
<1>12. QED
  BY <1>1, <1>2, <1>3, <1>4, <1>5, <1>6, <1>7, <1>8, <1>9, <1>10, <1>11, ZenonT(30)
     DEF Next, WorkerStep, MainStep, SnapshotStep, vars, Receive, ProposePush,
         AppendAOF, OptimisticApply, QueueReply, Fork, ForkFails, ChildWipe,
         ChildWrite, ChildKilled, ChildThrows, Truncate, StartFails

\* The second layer is inductive on top of the first.
LEMMA Inv2Step == Inv1 /\ Inv2 /\ [Next]_vars => Inv2'
  BY HandledStep, OnDiskStep, DiskMatchesLogStep, AckedDurableStep, Zenon DEF Inv2

-----------------------------------------------------------------------------
(* The third layer.                                                        *)

\* A client knows acknowledged only what was acknowledged.
SeenAcked == \A n \in DOMAIN issued : issued[n].seen \subseteq acked

\* Until a restarted server receives a write, its log is the file's and the
\* store holds what the entries applied so far left.
Replaying ==
    (fresh /\ mode = "up") =>
        /\ \A w \in Workers : pc[w] = "idle"
        /\ rlog = raftFile /\ diskBuf = <<>>
        /\ \A k \in Keys :
               WritesTo(applied, k) # {} =>
                   TextOf(kv[k]) = Leaves(Cmd(applied[Max(WritesTo(applied, k))]))

Inv3 == SeenAcked /\ RealTimeOrder /\ AppliesLogInOrder /\ Replaying

IInv == Inv1 /\ Inv2 /\ Inv3

\* Nothing is ordered, acknowledged or applied at first.
LEMMA InitInv3 == Init => Inv3
<1> SUFFICES ASSUME Init
             PROVE  Inv3
  BY Zenon
<1>1. RaftDisk = <<>> /\ AofDisk = <<>>
  BY DEF Init, RaftDisk, AofDisk
<1>2. RealTimeOrder
  BY <1>1, SMTT(30) DEF Init, RealTimeOrder, KeepsRealTime
<1>3. SeenAcked /\ AppliesLogInOrder /\ Replaying
  BY SMTT(30) DEF Init, SeenAcked, AppliesLogInOrder, Replaying
<1>4. QED
  BY <1>2, <1>3, Zenon DEF Inv3

\* A write that is not acknowledged yet may follow any other.
LEMMA KeepsAppend ==
    ASSUME NEW s \in Seq(DOMAIN issued), NEW n \in DOMAIN issued,
           SeenAcked, n \notin acked, KeepsRealTime(s)
    PROVE  KeepsRealTime(Append(s, n))
<1> SUFFICES ASSUME NEW i \in DOMAIN Append(s, n), NEW j \in DOMAIN Append(s, n),
                    i < j
             PROVE  Append(s, n)[j] \notin issued[Append(s, n)[i]].seen
  BY Zenon DEF KeepsRealTime
<1>1. /\ i \in 1 .. Len(s) /\ Append(s, n)[i] = s[i] /\ s[i] \in DOMAIN issued
      /\ j \in 1 .. Len(s) + 1
  BY AppendProperties, ElementOfSeq
<1>2. CASE j = Len(s) + 1
  <2>1. Append(s, n)[j] = n
    BY <1>2, AppendProperties
  <2>2. issued[s[i]].seen \subseteq acked
    BY <1>1, Zenon DEF SeenAcked
  <2>3. QED
    BY <1>1, <2>1, <2>2, Zenon
<1>3. CASE j # Len(s) + 1
  <2>1. DOMAIN s = 1 .. Len(s) /\ Len(s) \in Nat
    OBVIOUS
  <2>2. j \in DOMAIN s /\ i \in DOMAIN s
    BY <1>1, <1>3, <2>1
  <2>3. \A k \in 1 .. Len(s) : Append(s, n)[k] = s[k]
    BY AppendProperties
  <2>4. Append(s, n)[j] = s[j]
    BY <2>1, <2>2, <2>3, Zenon
  <2>5. QED
    BY <1>1, <2>2, <2>4, Zenon DEF KeepsRealTime
<1>4. QED
  BY <1>2, <1>3, Zenon

\* Neither a lost buffer nor a truncated file changes the order of the rest.
LEMMA KeepsParts ==
    ASSUME NEW s \in Seq(DOMAIN issued), NEW t \in Seq(DOMAIN issued),
           KeepsRealTime(s \o t)
    PROVE  KeepsRealTime(s) /\ KeepsRealTime(t)
<1>1. /\ \A i \in DOMAIN s : i \in DOMAIN (s \o t) /\ (s \o t)[i] = s[i]
      /\ \A i \in DOMAIN t : /\ Len(s) + i \in DOMAIN (s \o t)
                             /\ (s \o t)[Len(s) + i] = t[i]
  BY ConcatProperties
<1>2. KeepsRealTime(s)
  BY <1>1, Zenon DEF KeepsRealTime
<1>3. KeepsRealTime(t)
  <2> SUFFICES ASSUME NEW i \in DOMAIN t, NEW j \in DOMAIN t, i < j
               PROVE  t[j] \notin issued[t[i]].seen
    BY Zenon DEF KeepsRealTime
  <2>1. Len(s) + i < Len(s) + j
    OBVIOUS
  <2>2. QED
    BY <1>1, <2>1, Zenon DEF KeepsRealTime
<1>4. QED
  BY <1>2, <1>3, Zenon

\* The order of a log depends on its entries' own records only.
LEMMA KeepsStep ==
    ASSUME NEW s \in Seq(DOMAIN issued), KeepsRealTime(s),
           \A n \in DOMAIN issued : issued'[n] = issued[n]
    PROVE  \A i, j \in DOMAIN s : i < j => s[j] \notin issued'[s[i]].seen
<1> SUFFICES ASSUME NEW i \in DOMAIN s, NEW j \in DOMAIN s, i < j
             PROVE  s[j] \notin issued'[s[i]].seen
  BY Zenon
<1>1. s[i] \in DOMAIN issued
  BY ElementOfSeq, SMTT(30)
<1>2. QED
  BY <1>1, Zenon DEF KeepsRealTime

\* A new write is recorded after the others.
LEMMA IssuedGrows ==
    ASSUME Inv1, NEW w \in Workers, NEW r \in Requests, Receive(w, r)
    PROVE  /\ DOMAIN issued' = 1 .. Len(issued) + 1
           /\ issued'[Len(issued) + 1] = [cmd |-> r, seen |-> acked]
           /\ \A n \in DOMAIN issued : issued'[n] = issued[n]
<1> DEFINE Record == [cmd : Command, seen : SUBSET Writes]
           new == [cmd |-> r, seen |-> acked]
<1>1. issued \in Seq(Record) /\ acked \subseteq Writes
  BY Zenon DEF Inv1, TypeOK, CounterTypes
<1>2. new \in Record
  BY <1>1, RequestsAssumption, Zenon
<1>3. issued' = Append(issued, new)
  BY Zenon DEF Receive
<1>4. DOMAIN issued = 1 .. Len(issued)
  BY <1>1, SMTT(30)
<1> HIDE DEF Record, new
<1>5. /\ Append(issued, new) \in Seq(Record)
      /\ Len(Append(issued, new)) = Len(issued) + 1
      /\ \A i \in 1 .. Len(issued) : Append(issued, new)[i] = issued[i]
      /\ Append(issued, new)[Len(issued) + 1] = new
  BY <1>1, <1>2, AppendProperties, SMTT(30)
<1>6. DOMAIN Append(issued, new) = 1 .. Len(issued) + 1
  BY <1>5
<1>7. QED
  BY <1>3, <1>4, <1>5, <1>6, Zenon DEF new

\* A received write keeps its record.
LEMMA IssuedKept ==
    ASSUME Inv1, [Next]_vars, NEW n \in DOMAIN issued
    PROVE  issued'[n] = issued[n]
<1>1. CASE issued' = issued
  BY <1>1, Zenon
<1>2. ASSUME NEW w \in Workers, NEW r \in Requests, Receive(w, r)
      PROVE  issued'[n] = issued[n]
  BY <1>2, IssuedGrows, ZenonT(30)
<1>3. QED
  BY <1>1, <1>2, ZenonT(30)
     DEF Next, WorkerStep, MainStep, SnapshotStep, vars, history, ProposePush,
         AppendToDisk, AppendAOF, OptimisticApply, QueueReply, Drain, Tick,
         Take, ApplyEntry, ApplyThrows, Fork, ForkFails, ChildWipe,
         ChildWrite, ChildKilled, ChildThrows, Truncate, Stop, Exit, Crash,
         Start, StartFails

\* What a client saw acknowledged stays acknowledged.
LEMMA SeenAckedStep == Inv1 /\ Inv3 /\ [Next]_vars => SeenAcked'
<1> SUFFICES ASSUME Inv1, Inv3, [Next]_vars
             PROVE  SeenAcked'
  BY Zenon
<1> USE DEF threadVars, raftVars, snapVars, diskVars, history
<1>1. ASSUME NEW w \in Workers, NEW r \in Requests, Receive(w, r)
      PROVE  SeenAcked'
  <2>1. issued' = Append(issued, [cmd |-> r, seen |-> acked]) /\ acked' = acked
    BY <1>1, Zenon DEF Receive
  <2>2. ASSUME NEW n \in DOMAIN issued'
        PROVE  issued'[n].seen \subseteq acked
    <3>1. CASE n \in DOMAIN issued
      BY <2>1, <3>1, IssuedKept, SMTT(30) DEF Inv3, SeenAcked
    <3>2. CASE n = Len(issued) + 1
      <4>1. issued'[n] = [cmd |-> r, seen |-> acked]
        BY <1>1, <3>2, IssuedGrows, Zenon
      <4>2. QED
        BY <4>1, SMTT(30)
    <3>3. n \in DOMAIN issued \/ n = Len(issued) + 1
      <4>1. DOMAIN issued' = 1 .. Len(issued) + 1
        BY <1>1, IssuedGrows, ZenonT(30)
      <4>2. DOMAIN issued = 1 .. Len(issued) /\ Len(issued) \in Nat
        BY DEF Inv1, TypeOK, CounterTypes
      <4>3. QED
        BY <2>2, <4>1, <4>2
    <3>4. QED
      BY <3>1, <3>2, <3>3, Zenon
  <2>3. QED
    BY <2>1, <2>2, Zenon DEF SeenAcked
<1>2. CASE Drain
  BY <1>2, ZenonT(30)
     DEF Drain, MainAt, Inv3, SeenAcked
<1>3. CASE UNCHANGED <<issued, acked>>
  BY <1>3, Zenon DEF Inv3, SeenAcked
<1>4. QED
  BY <1>1, <1>2, <1>3, ZenonT(30)
     DEF Next, WorkerStep, MainStep, SnapshotStep, vars, ProposePush,
         AppendToDisk, AppendAOF, OptimisticApply, QueueReply, Tick, Take,
         ApplyEntry, ApplyThrows, Fork, ForkFails, ChildWipe, ChildWrite,
         ChildKilled, ChildThrows, Truncate, Stop, Exit, Crash, Start,
         StartFails

\* The AOF and its buffer, like the Raft log's, are one sequence.
LEMMA AofDiskNamed ==
    ASSUME Inv1
    PROVE  AofDisk \in Seq(DOMAIN issued)
  BY ConcatProperties, SMTT(30) DEF Inv1, Named, AofDisk

\* Whether or not it flushes, AOF::append adds its record at the end.
LEMMA AofDiskAppend ==
    ASSUME Inv1, NEW w \in Workers, AppendAOF(w)
    PROVE  AofDisk' = Append(AofDisk, cur[w]) /\ cur[w] \in DOMAIN issued
<1>1. cur[w] \in DOMAIN issued
  BY SMTT(30) DEF AppendAOF, At, Inv1, Named
<1>2. /\ aofFile \in Seq(DOMAIN issued) /\ aofBuf \in Seq(DOMAIN issued)
      /\ Append(aofBuf, cur[w]) \in Seq(DOMAIN issued)
  BY <1>1 DEF Inv1, Named
<1>3. aofFile \o Append(aofBuf, cur[w]) = Append(AofDisk, cur[w])
  BY <1>1, <1>2, ConcatAppend DEF AofDisk
<1>4. CASE aofBuf' = Append(aofBuf, cur[w]) /\ aofFile' = aofFile
  BY <1>1, <1>3, <1>4, SMTT(30) DEF AofDisk
<1>5. CASE aofBuf' = <<>> /\ aofFile' = aofFile \o Append(aofBuf, cur[w])
  <2>1. aofFile' \in Seq(DOMAIN issued) /\ aofBuf' = <<>>
    BY <1>2, <1>5, ConcatProperties, Zenon
  <2>2. AofDisk' = aofFile'
    BY <2>1, ConcatEmptySeq, Zenon DEF AofDisk
  <2>3. QED
    BY <1>1, <1>3, <1>5, <2>2, SMTT(30)
<1>6. QED
  BY <1>4, <1>5, SMTT(30) DEF AppendAOF

\* Each log is left alone, gains an entry that is not acknowledged, or is cut.
LEMMA RealTimeStep == Inv1 /\ Inv2 /\ Inv3 /\ [Next]_vars => RealTimeOrder'
<1> SUFFICES ASSUME Inv1, Inv2, Inv3, [Next]_vars
             PROVE  RealTimeOrder'
  BY Zenon
<1> USE DEF threadVars, raftVars, snapVars, diskVars, history
<1> DEFINE Ok(s) == s \in Seq(DOMAIN issued) /\ KeepsRealTime(s)
<1>1. Ok(rlog) /\ Ok(RaftDisk) /\ Ok(AofDisk)
  BY RaftDiskNamed, AofDiskNamed, ZenonT(30) DEF Inv1, Named, Inv3, RealTimeOrder
<1>2. Ok(raftFile) /\ Ok(aofFile) /\ Ok(aofBuf)
  BY <1>1, KeepsParts, Zenon DEF Inv1, Named, RaftDisk, AofDisk
<1>3. ASSUME NEW w \in Workers, pc[w] # "idle", NEW s, Ok(s)
      PROVE  Ok(Append(s, cur[w]))
  <2>1. cur[w] \in DOMAIN issued /\ cur[w] \notin acked
    BY <1>3, SMTT(30) DEF Inv1, Named, Inv2, Handled
  <2>2. QED
    BY <1>3, <2>1, KeepsAppend, SMTT(30) DEF Inv3
<1> HIDE DEF Ok
<1>4. SUFFICES Ok(rlog') /\ Ok(RaftDisk') /\ Ok(AofDisk')
  BY IssuedKept, KeepsStep, Zenon DEF Ok, RealTimeOrder, KeepsRealTime
<1>5. ASSUME NEW w \in Workers, ProposePush(w)
      PROVE  Ok(rlog') /\ Ok(RaftDisk') /\ Ok(AofDisk')
  BY <1>1, <1>3, <1>5, Zenon DEF ProposePush, At, RaftDisk, AofDisk
<1>6. ASSUME NEW w \in Workers, AppendToDisk(w)
      PROVE  Ok(rlog') /\ Ok(RaftDisk') /\ Ok(AofDisk')
  <2>1. pc[w] # "idle" /\ RaftDisk' = Append(RaftDisk, cur[w])
    BY <1>6, RaftDiskAppend, ZenonT(30) DEF AppendToDisk, At
  <2>2. rlog' = rlog /\ AofDisk' = AofDisk
    BY <1>6, Zenon DEF AppendToDisk, AofDisk
  <2>3. QED
    BY <1>1, <1>3, <2>1, <2>2, Zenon
<1>7. ASSUME NEW w \in Workers, AppendAOF(w)
      PROVE  Ok(rlog') /\ Ok(RaftDisk') /\ Ok(AofDisk')
  <2>1. pc[w] # "idle" /\ AofDisk' = Append(AofDisk, cur[w])
    BY <1>7, AofDiskAppend, ZenonT(30) DEF AppendAOF, At
  <2>2. rlog' = rlog /\ RaftDisk' = RaftDisk
    BY <1>7, Zenon DEF AppendAOF, RaftDisk
  <2>3. QED
    BY <1>1, <1>3, <2>1, <2>2, Zenon
<1>8. CASE Tick
  <2>1. rlog' = rlog /\ RaftDisk' = RaftDisk /\ AofDisk' = AofDisk
    BY <1>8, RaftDiskTick, Zenon DEF Tick, AofDisk
  <2>2. QED
    BY <1>1, <2>1, SMTT(30)
<1>9. CASE Truncate
  <2>1. rlog' = rlog /\ RaftDisk' = RaftDisk /\ AofDisk' = aofBuf
    BY <1>9, ConcatEmptySeq, Zenon DEF Truncate, RaftDisk, AofDisk, Inv1, Named
  <2>2. QED
    BY <1>1, <1>2, <2>1, SMTT(30)
<1>10. Ok(<<>>)
  BY DEF Ok, KeepsRealTime
<1>11. CASE Exit
  <2>1. rlog' = <<>> /\ RaftDisk' = raftFile /\ aofFile' = AofDisk /\ aofBuf' = <<>>
    BY <1>11, RaftDiskGone, ZenonT(30) DEF Exit, MemoryGone, AofDisk
  <2>2. AofDisk' = AofDisk
    BY <2>1, AofDiskNamed, ConcatEmptySeq, Zenon DEF AofDisk
  <2>3. QED
    BY <1>1, <1>2, <1>10, <2>1, <2>2, Zenon
<1>12. CASE Crash
  <2>1. /\ rlog' = <<>> /\ RaftDisk' = raftFile
        /\ aofFile' = aofFile /\ aofBuf' = <<>>
    BY <1>12, RaftDiskGone, ZenonT(30) DEF Crash, MemoryGone
  <2>2. AofDisk' = aofFile
    BY <2>1, ConcatEmptySeq, Zenon DEF AofDisk, Inv1, Named
  <2>3. QED
    BY <1>2, <1>10, <2>1, <2>2, Zenon
<1>13. CASE Start
  <2>1. rlog' = raftFile /\ RaftDisk' = RaftDisk /\ AofDisk' = AofDisk
    BY <1>13, Zenon DEF Start, RaftDisk, AofDisk
  <2>2. QED
    BY <1>1, <1>2, <2>1, Zenon
<1>14. CASE UNCHANGED <<rlog, raftFile, diskBuf, aofFile, aofBuf>>
  BY <1>1, <1>14, Zenon DEF RaftDisk, AofDisk
<1>15. QED
  BY <1>5, <1>6, <1>7, <1>8, <1>9, <1>11, <1>12, <1>13, <1>14, ZenonT(30)
     DEF Next, WorkerStep, MainStep, SnapshotStep, vars, Receive,
         OptimisticApply, QueueReply, Drain, Take, ApplyEntry, ApplyThrows,
         Fork, ForkFails, ChildWipe, ChildWrite, ChildKilled, ChildThrows,
         Stop, StartFails

\* An entry added to the log does not change what was taken from it.
LEMMA SubSeqOfAppend ==
    ASSUME NEW S, NEW s \in Seq(S), NEW x \in S, NEW n \in 0 .. Len(s)
    PROVE  SubSeq(Append(s, x), 1, n) = SubSeq(s, 1, n)
  OBVIOUS

\* Applying an entry moves it from the queue to what was applied.
LEMMA ShiftHead ==
    ASSUME NEW S, NEW s \in Seq(S), NEW t \in Seq(S), t # <<>>
    PROVE  Append(s, Head(t)) \o Tail(t) = s \o t
<1>1. /\ Head(t) \in S /\ Tail(t) \in Seq(S) /\ Len(Tail(t)) = Len(t) - 1
      /\ Append(s, Head(t)) \in Seq(S) /\ Len(t) \in Nat \ {0}
  BY HeadTailProperties, AppendProperties, EmptySeq, Zenon
<1> DEFINE u == Append(s, Head(t)) \o Tail(t)
<1>2. u \in Seq(S) /\ Len(u) = Len(s) + Len(t)
  BY <1>1, ConcatProperties, AppendProperties
<1>3. s \o t \in Seq(S) /\ Len(s \o t) = Len(s) + Len(t)
  BY ConcatProperties, Zenon
<1>4. ASSUME NEW i \in 1 .. Len(u)
      PROVE  u[i] = (s \o t)[i]
  <2>1. CASE i <= Len(s)
    BY <1>1, <1>2, <2>1
  <2>2. CASE i = Len(s) + 1
    BY <1>1, <1>2, <2>2
  <2>3. CASE i > Len(s) + 1
    <3>1. u[i] = Tail(t)[i - Len(s) - 1]
      BY <1>1, <1>2, <2>3, ConcatProperties, AppendProperties
    <3>2. Tail(t)[i - Len(s) - 1] = t[i - Len(s)]
      BY <1>1, <1>2, <2>3, HeadTailProperties
    <3>3. QED
      BY <1>2, <2>3, <3>1, <3>2, ConcatProperties, SMTT(30)
  <2>4. QED
    BY <1>2, <2>1, <2>2, <2>3
<1>5. QED
  BY <1>2, <1>3, <1>4, SeqEqual, SMTT(30)

\* takePendingApply takes the whole tail, and the loop applies it from its head.
LEMMA AppliesStep == Inv1 /\ Inv3 /\ [Next]_vars => AppliesLogInOrder'
<1> SUFFICES ASSUME Inv1, Inv3, [Next]_vars
             PROVE  AppliesLogInOrder'
  BY Zenon
<1> USE DEF threadVars, raftVars, snapVars, diskVars, history
<1>1. ASSUME NEW w \in Workers, ProposePush(w)
      PROVE  AppliesLogInOrder'
  <2>1. cur[w] \in Writes /\ rlog \in Seq(Writes) /\ lastApplied \in 0 .. Len(rlog)
    BY <1>1, Names, ZenonT(30) DEF ProposePush, At, Inv1, TypeOK, LogTypes, Named
  <2>2. SubSeq(Append(rlog, cur[w]), 1, lastApplied) = SubSeq(rlog, 1, lastApplied)
    BY <2>1, SubSeqOfAppend, Zenon
  <2>3. QED
    BY <1>1, <2>2, ZenonT(30) DEF ProposePush, Inv3, AppliesLogInOrder
<1>2. CASE Take
  <2>1. /\ rlog \in Seq(Writes) /\ lastApplied \in 0 .. Len(rlog)
        /\ applied \in Seq(Writes) /\ applyQ = <<>> /\ mode = "up"
    BY <1>2, Zenon DEF Take, MainAt, Inv1, TypeOK, LogTypes, MainPhase
  <2>2. applied = SubSeq(rlog, 1, lastApplied)
    BY <2>1, ConcatEmptySeq, Zenon DEF Inv3, AppliesLogInOrder
  <2>3. SubSeq(rlog, 1, lastApplied) \o SubSeq(rlog, lastApplied + 1, Len(rlog))
          = SubSeq(rlog, 1, Len(rlog))
    <3>1. /\ 1 \in 1 .. Len(rlog) + 1 /\ lastApplied \in 1 - 1 .. Len(rlog)
          /\ Len(rlog) \in lastApplied .. Len(rlog)
      BY <2>1
    <3>2. QED
      BY <2>1, <3>1, ConcatAdjacentSubSeq, ZenonT(30)
  <2>4. QED
    BY <1>2, <2>2, <2>3, ZenonT(30) DEF Take, AppliesLogInOrder
<1>3. CASE ApplyEntry
  <2>1. /\ applied \in Seq(Writes) /\ applyQ \in Seq(Writes) /\ applyQ # <<>>
        /\ mode = "up"
    BY <1>3, Zenon DEF ApplyEntry, MainAt, Inv1, TypeOK, LogTypes, MainPhase
  <2>2. Append(applied, Head(applyQ)) \o Tail(applyQ) = applied \o applyQ
    BY <2>1, ShiftHead, Zenon
  <2>3. QED
    BY <1>3, <2>1, <2>2, ZenonT(30) DEF ApplyEntry, Inv3, AppliesLogInOrder
<1>4. CASE ApplyThrows
  BY <1>4, Zenon
     DEF ApplyThrows, AppliesLogInOrder
<1>5. CASE Stop
  BY <1>5, Zenon
     DEF Stop, Fault, AppliesLogInOrder
<1>6. CASE Exit
  BY <1>6, Zenon
     DEF Exit, MemoryGone, AppliesLogInOrder
<1>7. CASE Crash
  BY <1>7, Zenon
     DEF Crash, MemoryGone, Fault, AppliesLogInOrder
<1>8. CASE Start
  <2>1. lastApplied = 0 /\ applied = <<>> /\ applyQ = <<>>
    BY <1>8, Zenon DEF Start, Inv1, NothingRuns
  <2>2. SubSeq(raftFile, 1, 0) = <<>>
    BY SubSeqEmpty
  <2>3. QED
    BY <1>8, <2>1, <2>2, SMTT(30) DEF Start, AppliesLogInOrder
<1>9. CASE UNCHANGED <<mode, applied, applyQ, rlog, lastApplied>>
  BY <1>9, ZenonT(30) DEF Inv3, AppliesLogInOrder
<1>10. QED
  BY <1>1, <1>2, <1>3, <1>4, <1>5, <1>6, <1>7, <1>8, <1>9, ZenonT(30)
     DEF Next, WorkerStep, MainStep, SnapshotStep, vars, Receive,
         AppendToDisk, AppendAOF, OptimisticApply, QueueReply, Drain, Tick,
         Fork, ForkFails, ChildWipe, ChildWrite, ChildKilled, ChildThrows,
         Truncate, StartFails

\* Until a write is received, the store is what the applied part of the file says
\* of each key it wrote.
LEMMA ReplayingStep == Inv1 /\ Inv3 /\ [Next]_vars => Replaying'
<1> SUFFICES ASSUME Inv1, Inv3, [Next]_vars
             PROVE  Replaying'
  BY Zenon
<1> USE DEF threadVars, raftVars, snapVars, diskVars, history
<1>1. ASSUME NEW w \in Workers, NEW r \in Requests, Receive(w, r)
      PROVE  Replaying'
  BY <1>1, Zenon
     DEF Receive, At, Replaying
<1>2. ASSUME NEW w \in Workers, ProposePush(w)
      PROVE  Replaying'
  <2>1. ~ (fresh /\ mode = "up") /\ UNCHANGED <<fresh, mode>>
    BY <1>2, Zenon DEF ProposePush, At, Inv3, Replaying
  <2>2. QED
    BY <2>1, Zenon DEF Replaying
<1>3. ASSUME NEW w \in Workers, AppendToDisk(w)
      PROVE  Replaying'
  <2>1. ~ (fresh /\ mode = "up") /\ UNCHANGED <<fresh, mode>>
    BY <1>3, Zenon DEF AppendToDisk, At, Inv3, Replaying
  <2>2. QED
    BY <2>1, Zenon DEF Replaying
<1>4. ASSUME NEW w \in Workers, AppendAOF(w)
      PROVE  Replaying'
  <2>1. ~ (fresh /\ mode = "up") /\ UNCHANGED <<fresh, mode>>
    BY <1>4, SMTT(30) DEF AppendAOF, At, Inv3, Replaying
  <2>2. QED
    BY <2>1, Zenon DEF Replaying
<1>5. ASSUME NEW w \in Workers, OptimisticApply(w)
      PROVE  Replaying'
  <2>1. ~ (fresh /\ mode = "up") /\ UNCHANGED <<fresh, mode>>
    BY <1>5, SMTT(30) DEF OptimisticApply, At, Inv3, Replaying
  <2>2. QED
    BY <2>1, Zenon DEF Replaying
<1>6. ASSUME NEW w \in Workers, QueueReply(w)
      PROVE  Replaying'
  <2>1. ~ (fresh /\ mode = "up") /\ UNCHANGED <<fresh, mode>>
    BY <1>6, Zenon DEF QueueReply, At, Inv3, Replaying
  <2>2. QED
    BY <2>1, Zenon DEF Replaying
<1>7. CASE Tick
  <2>1. raftFile \in Seq(DOMAIN issued)
    BY Zenon DEF Inv1, Named
  <2>2. (fresh /\ mode = "up") => raftFile' = raftFile /\ diskBuf' = <<>>
    BY <1>7, <2>1, ConcatEmptySeq, Zenon DEF Tick, Inv3, Replaying
  <2>3. QED
    BY <1>7, <2>2, ZenonT(30) DEF Tick, Inv3, Replaying, WritesTo, Cmd
<1>8. CASE ApplyEntry
  <2> DEFINE h == Head(applyQ)
             c == Cmd(h)
             n == Len(applied) + 1
  <2>1. /\ applyQ \in Seq(DOMAIN issued) /\ applyQ # <<>>
        /\ applied \in Seq(DOMAIN issued)
    BY <1>8, Zenon DEF ApplyEntry, MainAt, Inv1, Named, MainPhase
  <2>2. /\ h \in DOMAIN issued /\ c \in Command
        /\ n \in Nat /\ DOMAIN applied = 1 .. n - 1
    BY <2>1, HeadTailProperties, IssuedCommand, LenProperties, SMTT(30) DEF Inv1, TypeOK
  <2>3. /\ applied' = Append(applied, h) /\ issued' = issued
        /\ kv' = [kv EXCEPT ![c.key] = FromText(c)]
        /\ UNCHANGED <<fresh, mode, pc, rlog, raftFile, diskBuf>>
    BY <1>8, SMTT(30) DEF ApplyEntry, StoreAs
  <2> HIDE DEF h, c
  <2>4. /\ DOMAIN applied' = 1 .. n /\ applied'[n] = h
        /\ \A i \in 1 .. n - 1 : applied'[i] = applied[i]
    BY <2>1, <2>2, <2>3, AppendProperties, SMTT(30)
  <2>5. TextOf(FromText(c)) = Leaves(c)
    BY <2>2, NoneAssumption, SMTT(30) DEF Command, Value, FromText, TextOf, Leaves
  <2>6. ASSUME NEW k \in Keys, fresh, mode = "up", WritesTo(applied, k)' # {}
        PROVE  TextOf(kv'[k]) = Leaves(Cmd(applied[Max(WritesTo(applied, k))]))'
    <3> DEFINE W == {i \in 1 .. n : issued[applied'[i]].cmd.key = k}
    <3>1. WritesTo(applied, k)' = W
      BY <2>3, <2>4, SMTT(30) DEF WritesTo, Cmd
    <3>2. W # {} /\ W \in SUBSET (1 .. n)
      BY <2>6, <3>1, Zenon
    <3>3. Max(W) \in W /\ \A i \in W : i <= Max(W)
      BY <2>2, <3>2, MaxOfPositions, ZenonT(30)
    <3> HIDE DEF W
    <3>4. SUFFICES TextOf(kv'[k]) = Leaves(issued[applied'[Max(W)]].cmd)
      BY <2>3, <3>1, ZenonT(30) DEF Cmd, Leaves
    <3>5. CASE c.key = k
      <4>1. n \in W
        BY <2>2, <2>4, <3>5, SMTT(30) DEF W, c, Cmd
      <4>2. Max(W) = n
        <5>1. Max(W) \in 1 .. n /\ n <= Max(W)
          BY <3>2, <3>3, <4>1, ZenonT(30)
        <5>2. QED
          BY <2>2, <5>1
      <4>3. kv'[k] = FromText(c)
        BY <2>3, <3>5, SMTT(30) DEF Inv1, TypeOK, StoreTypes
      <4>4. QED
        BY <2>4, <2>5, <4>2, <4>3, SMTT(30) DEF c, Cmd
    <3>6. CASE c.key # k
      <4>1. W = WritesTo(applied, k)
        BY <2>2, <2>4, <3>6 DEF W, WritesTo, c, Cmd
      <4>2. Max(W) \in 1 .. n - 1
        BY <2>2, <3>3, <4>1, Zenon DEF WritesTo
      <4>3. kv'[k] = kv[k]
        BY <2>3, <3>6, Zenon DEF Inv1, TypeOK, StoreTypes
      <4>4. TextOf(kv[k]) = Leaves(Cmd(applied[Max(W)]))
        BY <2>6, <3>2, <4>1, SMTT(30) DEF Inv3, Replaying
      <4>5. QED
        BY <2>4, <4>2, <4>3, <4>4, SMTT(30) DEF Cmd
    <3>7. QED
      BY <3>5, <3>6, SMTT(30)
  <2>7. QED
    BY <2>3, <2>6, ZenonT(30) DEF Inv3, Replaying
<1>9. CASE ApplyThrows
  BY <1>9, Zenon
     DEF ApplyThrows, Replaying
<1>10. CASE Stop
  BY <1>10, SMTT(30)
     DEF Stop, Fault, Replaying
<1>11. CASE Exit
  BY <1>11, SMTT(30)
     DEF Exit, MemoryGone, Replaying
<1>12. CASE Crash
  BY <1>12, Zenon
     DEF Crash, MemoryGone, Fault, Replaying
<1>13. CASE Start
  <2>1. /\ rlog' = raftFile /\ raftFile' = raftFile /\ diskBuf' = <<>>
        /\ applied' = <<>> /\ \A w \in Workers : pc'[w] = "idle"
    BY <1>13, Zenon DEF Start, Inv1, NothingRuns
  <2>2. \A k \in Keys : WritesTo(applied, k)' = {}
    BY <2>1 DEF WritesTo
  <2>3. QED
    BY <2>1, <2>2, SMTT(30) DEF Replaying
<1>14. CASE UNCHANGED <<fresh, mode, pc, rlog, raftFile, diskBuf, applied, kv, issued>>
  BY <1>14, ZenonT(30) DEF Inv3, Replaying, WritesTo, Cmd
<1>15. QED
  BY <1>1, <1>2, <1>3, <1>4, <1>5, <1>6, <1>7, <1>8, <1>9, <1>10, <1>11,
     <1>12, <1>13, <1>14, ZenonT(30)
     DEF Next, WorkerStep, MainStep, SnapshotStep, vars, Drain, Take, Fork,
         ForkFails, ChildWipe, ChildWrite, ChildKilled, ChildThrows, Truncate,
         StartFails

\* The third layer is inductive on top of the first two.
LEMMA Inv3Step == Inv1 /\ Inv2 /\ Inv3 /\ [Next]_vars => Inv3'
  BY SeenAckedStep, RealTimeStep, AppliesStep, ReplayingStep, Zenon DEF Inv3

-----------------------------------------------------------------------------
(* What the apply of an entry that is not one token leaves.                 *)

\* What the main thread has applied is what it could read, and it leaves its
\* loop only over an entry of the log that it could not.
Inv4 ==
    /\ \A n \in Range(applied) : Readable(Cmd(n))
    /\ mpc = "thrown" => \E n \in Range(rlog) : ~ Readable(Cmd(n))

\* A received write keeps its command, and with it whether it can be read.
LEMMA ReadableKept ==
    ASSUME Inv1, [Next]_vars, NEW n \in DOMAIN issued
    PROVE  Readable(Cmd(n))' = Readable(Cmd(n))
<1>1. issued'[n] = issued[n]
  BY IssuedKept, Zenon
<1>2. QED
  BY <1>1, SMTT(30) DEF Readable, Cmd

\* What the main thread is about to apply is in the log.
LEMMA QueuedInLog ==
    ASSUME Inv1, Inv3, mode = "up", applyQ # <<>>
    PROVE  Head(applyQ) \in Range(rlog)
<1>1. /\ applied \in Seq(Writes) /\ applyQ \in Seq(Writes) /\ rlog \in Seq(Writes)
      /\ lastApplied \in 0 .. Len(rlog)
  BY Zenon DEF Inv1, TypeOK, LogTypes
<1> DEFINE s == applied \o applyQ
           n == Len(applied) + 1
<1>2. Len(s) = Len(applied) + Len(applyQ) /\ Len(applyQ) \in Nat \ {0}
      /\ Len(applied) \in Nat
  BY <1>1, ConcatProperties, EmptySeq, LenProperties, Zenon
<1>3. n \in 1 .. Len(s) /\ s[n] = applyQ[1] /\ Head(applyQ) = applyQ[1]
  BY <1>1, <1>2, ConcatProperties, HeadTailProperties
<1>4. s = SubSeq(rlog, 1, lastApplied)
  BY Zenon DEF Inv3, AppliesLogInOrder
<1>5. Len(SubSeq(rlog, 1, lastApplied)) = lastApplied
      /\ \A i \in 1 .. lastApplied : SubSeq(rlog, 1, lastApplied)[i] = rlog[i]
  BY <1>1
<1> HIDE DEF s, n
<1>6. n \in 1 .. Len(rlog) /\ Head(applyQ) = rlog[n]
  BY <1>1, <1>3, <1>4, <1>5
<1>7. QED
  BY <1>1, <1>6 DEF Range

\* An entry added at the end keeps the others.
LEMMA RangeOfAppend ==
    ASSUME NEW S, NEW s \in Seq(S), NEW x \in S
    PROVE  Range(Append(s, x)) = Range(s) \cup {x}
<1>1. /\ Len(Append(s, x)) = Len(s) + 1
      /\ \A i \in 1 .. Len(s) : Append(s, x)[i] = s[i]
      /\ Append(s, x)[Len(s) + 1] = x /\ Append(s, x) \in Seq(S)
  BY AppendProperties
<1>2. DOMAIN s = 1 .. Len(s) /\ DOMAIN Append(s, x) = 1 .. Len(s) + 1 /\ Len(s) \in Nat
  BY <1>1, LenProperties, Zenon
<1>3. QED
  BY <1>1, <1>2 DEF Range

\* Nothing was applied at first.
LEMMA InitInv4 == Init => Inv4
  BY DEF Init, Inv4, Range

\* Only the apply of an entry it can read adds to what was applied, and only an
\* entry of the log it cannot read makes it throw.
LEMMA Inv4Step == Inv1 /\ Inv3 /\ Inv4 /\ [Next]_vars => Inv4'
<1> SUFFICES ASSUME Inv1, Inv3, Inv4, [Next]_vars
             PROVE  Inv4'
  BY Zenon
<1> USE DEF threadVars, raftVars, snapVars, diskVars, history
<1>1. Range(applied) \subseteq DOMAIN issued /\ Range(rlog) \subseteq DOMAIN issued
  <2>1. applied \in Seq(DOMAIN issued) /\ rlog \in Seq(DOMAIN issued)
    BY Zenon DEF Inv1, Named
  <2>2. QED
    BY <2>1, ElementOfSeq DEF Range
<1>2. \A n \in DOMAIN issued : Readable(Cmd(n))' = Readable(Cmd(n))
  BY ReadableKept, Zenon
<1>3. CASE MemoryGone
  BY <1>3 DEF MemoryGone, Inv4, Range
<1>4. CASE ApplyEntry
  <2>1. applyQ \in Seq(DOMAIN issued) /\ applyQ # <<>> /\ applied \in Seq(DOMAIN issued)
    BY <1>4, Zenon DEF ApplyEntry, MainAt, Inv1, Named, MainPhase
  <2>2. Head(applyQ) \in DOMAIN issued
    BY <2>1, HeadTailProperties, Zenon
  <2>3. Range(applied') = Range(applied) \cup {Head(applyQ)}
    BY <1>4, <2>1, <2>2, RangeOfAppend DEF ApplyEntry
  <2>4. Readable(Cmd(Head(applyQ))) /\ mpc' # "thrown"
    BY <1>4, Zenon DEF ApplyEntry, MainAt
  <2>5. \A n \in Range(applied') : Readable(Cmd(n))'
    BY <1>1, <1>2, <2>2, <2>3, <2>4, ZenonT(30) DEF Inv4
  <2>6. QED
    BY <2>4, <2>5, ZenonT(30) DEF Inv4
<1>5. CASE ApplyThrows
  <2>1. applyQ # <<>> /\ mode = "up" /\ ~ Readable(Cmd(Head(applyQ)))
    BY <1>5, Zenon DEF ApplyThrows, Inv1, MainPhase
  <2>2. Head(applyQ) \in Range(rlog)
    BY <2>1, QueuedInLog, Zenon
  <2>3. applied' = applied /\ rlog' = rlog
    BY <1>5, Zenon DEF ApplyThrows
  <2>4. QED
    BY <1>1, <1>2, <2>1, <2>2, <2>3, ZenonT(30) DEF Inv4
<1>6. ASSUME NEW w \in Workers, ProposePush(w)
      PROVE  Inv4'
  <2>1. cur[w] \in DOMAIN issued /\ rlog \in Seq(DOMAIN issued)
    BY <1>6, Zenon DEF ProposePush, At, Inv1, Named
  <2>2. rlog' = Append(rlog, cur[w]) /\ applied' = applied /\ mpc' = mpc
    BY <1>6, Zenon DEF ProposePush
  <2>3. Range(rlog') = Range(rlog) \cup {cur[w]}
    BY <2>1, <2>2, RangeOfAppend
  <2>4. QED
    BY <1>1, <1>2, <2>2, <2>3, ZenonT(30) DEF Inv4
<1>7. CASE Start
  <2>1. mpc' = mpc /\ mpc = "drain" /\ applied' = applied
    BY <1>7, Zenon DEF Start, Inv1, NothingRuns
  <2>2. QED
    BY <1>1, <1>2, <2>1, ZenonT(30) DEF Inv4
<1>8. CASE UNCHANGED <<applied, rlog>> /\ (mpc' = mpc \/ mpc' # "thrown")
  BY <1>1, <1>2, <1>8, ZenonT(30) DEF Inv4
<1>9. QED
  <2>1. CASE MainStep
    BY <1>4, <1>5, <1>8, <2>1, ZenonT(30)
       DEF MainStep, MainAt, Drain, Tick, Take
  <2>2. CASE ~ MainStep
    BY <1>3, <1>6, <1>7, <1>8, <2>2, ZenonT(30)
       DEF Next, WorkerStep, SnapshotStep, vars, Receive, AppendToDisk,
           AppendAOF, OptimisticApply, QueueReply, Fork, ForkFails,
           ChildWipe, ChildWrite, ChildKilled, ChildThrows, Truncate,
           Stop, Exit, Crash, StartFails
  <2>3. QED
    BY <2>1, <2>2, Zenon

-----------------------------------------------------------------------------
(* The theorems.                                                           *)

\* The three layers are inductive.
LEMMA Invariance == Spec => []IInv
<1>1. Init => IInv
  BY InitInv1, InitInv2, InitInv3, Zenon DEF IInv
<1>2. IInv /\ [Next]_vars => IInv'
  BY Inv1Step, Inv2Step, Inv3Step, Zenon DEF IInv
<1>3. QED
  BY <1>1, <1>2, PTL DEF Spec

\* Every variable keeps its type whatever the threads, faults and restarts do.
THEOREM TypeCorrect == Spec => []TypeOK
<1>1. IInv => TypeOK
  BY Zenon DEF IInv, Inv1
<1>2. QED
  BY <1>1, Invariance, PTL

\* With any number of workers, writes, kills and restarts, a write whose reply
\* epoll_step sent is in the Raft log file once the pass has ticked.
THEOREM AcknowledgedWritesAreDurable == Spec => []AckedDurable
<1>1. IInv => AckedDurable
  BY Zenon DEF IInv, Inv2
<1>2. QED
  BY <1>1, Invariance, PTL

\* The Raft file and its buffer hold the entries of the in-memory log, each
\* once, although propose writes to disk outside mtx_.
THEOREM DiskHoldsTheLog == Spec => []DiskMatchesLog
<1>1. IInv => DiskMatchesLog
  BY Zenon DEF IInv, Inv2
<1>2. QED
  BY <1>1, Invariance, PTL

\* No log reorders two writes that a client could order.
THEOREM LogsKeepRealTimeOrder == Spec => []RealTimeOrder
<1>1. IInv => RealTimeOrder
  BY Zenon DEF IInv, Inv3
<1>2. QED
  BY <1>1, Invariance, PTL

\* The main thread applies the log in order, every entry once.
THEOREM LogIsAppliedInOrder == Spec => []AppliesLogInOrder
<1>1. IInv => AppliesLogInOrder
  BY Zenon DEF IInv, Inv3
<1>2. QED
  BY <1>1, Invariance, PTL

\* A restarted server that has replayed its Raft file holds, for each key, what
\* the last entry of the file left.
THEOREM ReplayRebuildsTheStore == Spec => []RecoveredState
<1>1. IInv => RecoveredState
  <2> SUFFICES ASSUME IInv, fresh, mode = "up", lastApplied = Len(rlog),
                      applyQ = <<>>, NEW k \in Keys, WritesTo(raftFile, k) # {}
               PROVE  TextOf(kv[k])
                        = Leaves(Cmd(raftFile[Max(WritesTo(raftFile, k))]))
    BY Zenon DEF RecoveredState
  <2>1. applied \in Seq(Writes) /\ rlog \in Seq(Writes)
    BY Zenon DEF IInv, Inv1, TypeOK, LogTypes
  <2>2. applied = SubSeq(rlog, 1, Len(rlog))
    BY <2>1, ConcatEmptySeq, Zenon DEF IInv, Inv3, AppliesLogInOrder
  <2>3. applied = raftFile
    BY <2>1, <2>2, SubSeqFull, Zenon DEF IInv, Inv3, Replaying
  <2>4. QED
    BY <2>3, Zenon DEF IInv, Inv3, Replaying
<1>2. QED
  BY <1>1, Invariance, PTL

\* An entry whose value is not one token stops the server that meets it, and
\* every server that has applied its whole log met none: Handler::SET puts the
\* value into the log as text and SET_noAOF throws on the tokens it is split in.
THEOREM OddValuesStopTheServer == Spec => []OddValuesStop
<1>1. Spec => []Inv4
  <2>1. Init => IInv /\ Inv4
    BY InitInv1, InitInv2, InitInv3, InitInv4, Zenon DEF IInv
  <2>2. IInv /\ Inv4 /\ [Next]_vars => IInv' /\ Inv4'
    BY Inv1Step, Inv2Step, Inv3Step, Inv4Step, Zenon DEF IInv
  <2>3. QED
    BY <2>1, <2>2, PTL DEF Spec
<1>2. IInv /\ Inv4 => OddValuesStop
  <2> SUFFICES ASSUME IInv, Inv4, mode = "up", lastApplied = Len(rlog), applyQ = <<>>
               PROVE  \A n \in Range(rlog) : Readable(Cmd(n))
    BY Zenon DEF OddValuesStop, Inv4
  <2>1. applied \in Seq(Writes) /\ rlog \in Seq(Writes)
    BY Zenon DEF IInv, Inv1, TypeOK, LogTypes
  <2>2. applied = SubSeq(rlog, 1, Len(rlog))
    BY <2>1, ConcatEmptySeq, Zenon DEF IInv, Inv3, AppliesLogInOrder
  <2>3. applied = rlog
    BY <2>1, <2>2, SubSeqFull, Zenon
  <2>4. QED
    BY <2>3, Zenon DEF Inv4
<1>3. QED
  BY <1>1, <1>2, Invariance, PTL

=============================================================================
