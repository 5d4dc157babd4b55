------------------------------ MODULE WritePath ------------------------------
(***************************************************************************)
(* The write path of one KVJet server that no other node has joined: its   *)
(* only Raft group has no peers, so RaftNode is Leader from its            *)
(* constructor and its term stays 0.                                       *)
(*                                                                         *)
(* Four kinds of thread share the state: the pool's workers run            *)
(* Handler::SET and Handler::DEL; the main thread runs Server::epoll_step  *)
(* (send replies, tick, apply); the snapshot thread forks a child that     *)
(* writes the store and then truncates the append-only file.  A fault is a *)
(* kill of the server with its child, a SIGINT, or a failing snapshot.     *)
(*                                                                         *)
(* A write is named by its position in issued, which records its command.  *)
(* The Raft log, the AOF and their files are sequences of such names.      *)
(***************************************************************************)
EXTENDS Integers, Sequences, FiniteSetsExt

CONSTANTS
    Workers,    \* threads of the pool (Config::THREAD_COUNT)
    Keys,       \* each key lives in a shard, hence a snapshot file, of its own
    Texts,      \* contents of string values
    Odd,        \* contents makeCommand does not read back as exactly one token
    Requests,   \* the commands clients send
    None,       \* no value
    MaxOps,     \* bound on the number of writes
    MaxFaults,  \* bound on the number of faults
    MaxSnaps    \* bound on the number of snapshots

\* The RESP value stored under a key: a bulk string or a simple string.
Value == [kind : {"bulk", "simple"}, text : Texts]

Command == [op : {"SET"}, key : Keys, val : Value]
             \cup [op : {"DEL"}, key : Keys, val : {None}]

ASSUME RequestsAssumption == Requests \subseteq Command
ASSUME OddAssumption == Odd \subseteq Texts
ASSUME NoneAssumption == None \notin Value /\ None \notin Texts
ASSUME BoundsAssumption == MaxOps \in Nat /\ MaxFaults \in Nat /\ MaxSnaps \in Nat

VARIABLES
    mode,         \* "down", "up", or "stopping": run() left, destructors pending
    mpc,          \* where the main thread is in epoll_step
    pc, cur,      \* where each worker is in Handler::SET/DEL, and on which write
    kv,           \* KVStore: the value of each key
    rlog,         \* RaftNode::log without the sentinel; all of it is committed
    lastApplied,  \* RaftNode::lastApplied
    applyQ,       \* what takePendingApply returned and is not applied yet
    applied,      \* history: what this process applied from the log
    diskBuf,      \* RaftNode::diskBuf_
    raftFile,     \* group_0.log
    aofBuf,       \* AOF::buffer
    aofFile,      \* aof.dat
    replyQ,       \* Server::message_queue: writes whose reply is not sent yet
    spc,          \* where the snapshot is
    image,        \* the store as the forked child sees it
    todo,         \* shards the child has still to write
    frozen,       \* the parent waits for good; a child runs snapshotLoop instead
    snap,         \* the snapshot directory
    faults,       \* number of faults so far
    snaps,        \* number of snapshots so far
    issued,       \* history: every write, with what its client knew acknowledged
    acked,        \* history: the writes whose reply was sent
    lost,         \* history: acknowledged writes a kill took
    fresh         \* history: no write received since the server started

threadVars == <<mpc, pc, cur, replyQ>>
raftVars == <<rlog, lastApplied, applyQ, applied, diskBuf>>
snapVars == <<spc, image, todo, frozen, snaps>>
diskVars == <<raftFile, aofFile, snap>>
history == <<issued, acked, lost, fresh>>
vars == <<mode, threadVars, kv, raftVars, aofBuf, snapVars, diskVars, faults,
          history>>

Writes == 1 .. MaxOps
Cmd(n) == issued[n].cmd
EmptyStore == [k \in Keys |-> None]

\* KVStore::set and KVStore::del on the shard of the command's key.
StoreAs(c, v) == [kv EXCEPT ![c.key] = v]

-----------------------------------------------------------------------------
(* The state before the first start: an empty data directory.              *)

Init ==
    /\ mode = "down"
    /\ mpc = "drain"
    /\ pc = [w \in Workers |-> "idle"]
    /\ cur = [w \in Workers |-> 0]
    /\ kv = EmptyStore
    /\ rlog = <<>> /\ lastApplied = 0 /\ applyQ = <<>> /\ applied = <<>>
    /\ diskBuf = <<>>
    /\ raftFile = <<>> /\ aofFile = <<>> /\ snap = EmptyStore
    /\ aofBuf = <<>>
    /\ replyQ = {}
    /\ spc = "idle" /\ image = EmptyStore /\ todo = {} /\ frozen = FALSE
    /\ faults = 0 /\ snaps = 0
    /\ issued = <<>> /\ acked = {} /\ lost = {} /\ fresh = TRUE

-----------------------------------------------------------------------------
(* Workers.                                                                *)

At(w, from, to) ==
    /\ mode # "down"
    /\ pc[w] = from
    /\ pc' = [pc EXCEPT ![w] = to]

\* A worker dequeues a SET or DEL and passes the checks of its handler; with
\* one node on the ring, isMasterFor holds.
Receive(w, r) ==
    /\ Len(issued) < MaxOps
    /\ At(w, "idle", "propose")
    /\ issued' = Append(issued, [cmd |-> r, seen |-> acked])
    /\ cur' = [cur EXCEPT ![w] = Len(issued) + 1]
    /\ fresh' = FALSE
    /\ UNCHANGED <<mode, mpc, kv, raftVars, aofBuf, replyQ, snapVars, diskVars,
                   faults, acked, lost>>

\* The part of RaftNode::propose under mtx_: push, and commit at once.
ProposePush(w) ==
    /\ At(w, "propose", "disk")
    /\ rlog' = Append(rlog, cur[w])
    /\ UNCHANGED <<mode, mpc, cur, kv, lastApplied, applyQ, applied, diskBuf,
                   aofBuf, replyQ, snapVars, diskVars, faults, history>>

\* Faulty: an entry that does not fit goes to the file ahead of the buffer.
AppendToDiskAhead(w) ==
    /\ At(w, "disk", "aof")
    /\ \/ diskBuf' = Append(diskBuf, cur[w]) /\ UNCHANGED raftFile
       \/ raftFile' = Append(raftFile, cur[w]) /\ UNCHANGED diskBuf
    /\ UNCHANGED <<mode, mpc, cur, kv, rlog, lastApplied, applyQ, applied,
                   aofBuf, replyQ, snapVars, aofFile, snap, faults, history>>

\* RaftNode::appendToDisk, outside mtx_: the buffer reaches the file when it
\* holds 1KB.
AppendToDisk(w) ==
    /\ At(w, "disk", "aof")
    /\ LET buf == Append(diskBuf, cur[w]) IN
         \/ diskBuf' = buf /\ UNCHANGED raftFile
         \/ diskBuf' = <<>> /\ raftFile' = raftFile \o buf
    /\ UNCHANGED <<mode, mpc, cur, kv, rlog, lastApplied, applyQ, applied,
                   aofBuf, replyQ, snapVars, aofFile, snap, faults, history>>

\* AOF::append: the buffer is flushed when it is full or the last flush is
\* older than AOF_FSYNC_TIME_MS.
AppendAOF(w) ==
    /\ At(w, "aof", "apply")
    /\ LET buf == Append(aofBuf, cur[w]) IN
         \/ aofBuf' = buf /\ UNCHANGED aofFile
         \/ aofBuf' = <<>> /\ aofFile' = aofFile \o buf
    /\ UNCHANGED <<mode, mpc, cur, kv, raftVars, replyQ, snapVars, raftFile,
                   snap, faults, history>>

\* The optimistic apply of Handler::SET and DEL: the value as it was sent.
OptimisticApply(w) ==
    /\ At(w, "apply", "reply")
    /\ kv' = StoreAs(Cmd(cur[w]), Cmd(cur[w]).val)
    /\ UNCHANGED <<mode, mpc, cur, raftVars, aofBuf, replyQ, snapVars, diskVars,
                   faults, history>>

\* handleCommand queues the reply for the main thread.
QueueReply(w) ==
    /\ At(w, "reply", "idle")
    /\ replyQ' = replyQ \cup {cur[w]}
    /\ UNCHANGED <<mode, mpc, cur, kv, raftVars, aofBuf, snapVars, diskVars,
                   faults, history>>

WorkerStep(w) ==
    \/ ProposePush(w) \/ AppendToDisk(w) \/ AppendAOF(w)
    \/ OptimisticApply(w) \/ QueueReply(w)

-----------------------------------------------------------------------------
(* The main thread: one pass of epoll_step.                                *)

MainAt(from, to) ==
    /\ mode = "up"
    /\ mpc = from
    /\ mpc' = to

\* Faulty: the queued replies are popped and not sent.
DrainForgets ==
    /\ MainAt("drain", "tick")
    /\ replyQ' = {}
    /\ UNCHANGED <<mode, pc, cur, kv, raftVars, aofBuf, snapVars, diskVars,
                   faults, history>>

\* Under queueMutex, every queued reply is sent.
Drain ==
    /\ MainAt("drain", "tick")
    /\ acked' = acked \cup replyQ
    /\ replyQ' = {}
    /\ UNCHANGED <<mode, pc, cur, kv, raftVars, aofBuf, snapVars, diskVars,
                   faults, issued, lost, fresh>>

\* Faulty: tick of a leader does not flush.
TickWithoutFlush ==
    /\ MainAt("tick", "take")
    /\ UNCHANGED <<mode, pc, cur, kv, raftVars, aofBuf, replyQ, snapVars, diskVars,
                   faults, history>>

\* Faulty: flushDisk does not clear the buffer.
TickKeepsBuffer ==
    /\ MainAt("tick", "take")
    /\ raftFile' = raftFile \o diskBuf
    /\ UNCHANGED <<mode, pc, cur, kv, raftVars, aofBuf, replyQ, snapVars, aofFile,
                   snap, faults, history>>

\* RaftNode::tick: flushDisk; a leader without peers has no heartbeat to send.
Tick ==
    /\ MainAt("tick", "take")
    /\ raftFile' = raftFile \o diskBuf
    /\ diskBuf' = <<>>
    /\ UNCHANGED <<mode, pc, cur, kv, rlog, lastApplied, applyQ, applied, aofBuf,
                   replyQ, snapVars, aofFile, snap, faults, history>>

\* Faulty: hasPendingApply does not see a single pending entry.
TakeNotTheLast ==
    LET pending == lastApplied + 1 < Len(rlog) IN
    /\ MainAt("take", IF pending THEN "apply" ELSE "drain")
    /\ applyQ' = IF pending THEN SubSeq(rlog, lastApplied + 1, Len(rlog)) ELSE <<>>
    /\ lastApplied' = IF pending THEN Len(rlog) ELSE lastApplied
    /\ UNCHANGED <<mode, pc, cur, kv, rlog, applied, diskBuf, aofBuf, replyQ,
                   snapVars, diskVars, faults, history>>

\* hasPendingApply and takePendingApply.
Take ==
    /\ MainAt("take", IF lastApplied < Len(rlog) THEN "apply" ELSE "drain")
    /\ applyQ' = SubSeq(rlog, lastApplied + 1, Len(rlog))
    /\ lastApplied' = Len(rlog)
    /\ UNCHANGED <<mode, pc, cur, kv, rlog, applied, diskBuf, aofBuf, replyQ,
                   snapVars, diskVars, faults, history>>

\* The entry is text: makeCommand splits it at blanks and makes every token a
\* simple string.
Readable(c) == c.op = "SET" => c.val.text \notin Odd
FromText(c) ==
    IF c.op = "SET" THEN [kind |-> "simple", text |-> c.val.text] ELSE None

\* Faulty: the loop over the entries ends after the first one.
ApplyFirstOnly ==
    LET c == Cmd(Head(applyQ)) IN
    /\ MainAt("apply", "drain")
    /\ Readable(c)
    /\ kv' = StoreAs(c, FromText(c))
    /\ applyQ' = <<>>
    /\ applied' = Append(applied, Head(applyQ))
    /\ UNCHANGED <<mode, pc, cur, rlog, lastApplied, diskBuf, aofBuf, replyQ,
                   snapVars, diskVars, faults, history>>

\* handle_noAOF of the next entry.
ApplyEntry ==
    LET c == Cmd(Head(applyQ)) IN
    /\ MainAt("apply", IF Len(applyQ) = 1 THEN "drain" ELSE "apply")
    /\ Readable(c)
    /\ kv' = StoreAs(c, FromText(c))
    /\ applyQ' = Tail(applyQ)
    /\ applied' = Append(applied, Head(applyQ))
    /\ UNCHANGED <<mode, pc, cur, rlog, lastApplied, diskBuf, aofBuf, replyQ,
                   snapVars, diskVars, faults, history>>

\* Faulty: an entry that cannot be read is left out.
ApplySkips ==
    /\ mode = "up" /\ mpc = "apply"
    /\ ~ Readable(Cmd(Head(applyQ)))
    /\ mpc' = IF Len(applyQ) = 1 THEN "drain" ELSE "apply"
    /\ applyQ' = Tail(applyQ)
    /\ UNCHANGED <<mode, pc, cur, kv, rlog, lastApplied, applied, diskBuf, aofBuf,
                   replyQ, snapVars, diskVars, faults, history>>

\* SET_noAOF throws on a wrong number of tokens and run() leaves its loop.
ApplyThrows ==
    /\ mode = "up" /\ mpc = "apply"
    /\ ~ Readable(Cmd(Head(applyQ)))
    /\ mode' = "stopping" /\ mpc' = "thrown"
    /\ applyQ' = <<>>
    /\ UNCHANGED <<pc, cur, kv, rlog, lastApplied, applied, diskBuf, aofBuf,
                   replyQ, snapVars, diskVars, faults, history>>

MainStep == Drain \/ Tick \/ Take \/ ApplyEntry \/ ApplyThrows

-----------------------------------------------------------------------------
(* The snapshot thread and its child.                                      *)

Fault == faults < MaxFaults /\ faults' = faults + 1

\* The interval has passed and the loop is still running.
SnapshotDue ==
    /\ spc = "idle"
    /\ mode = "up" \/ (mode = "stopping" /\ frozen)
    /\ snaps < MaxSnaps /\ snaps' = snaps + 1

\* fork: the child sees the store as it is now, or, when this loop runs in a
\* child that survived an exception, as it was at that child's own fork.
Fork ==
    /\ SnapshotDue
    /\ spc' = "wipe"
    /\ image' = IF frozen THEN image ELSE kv
    /\ UNCHANGED <<mode, threadVars, kv, raftVars, aofBuf, todo, frozen,
                   diskVars, faults, history>>

\* fork fails: the AOF is truncated all the same.
ForkFails ==
    /\ SnapshotDue
    /\ Fault
    /\ spc' = "trunc"
    /\ UNCHANGED <<mode, threadVars, kv, raftVars, aofBuf, image, todo, frozen,
                   diskVars, history>>

\* writetofileFork removes the old snapshot first...
ChildWipe ==
    /\ spc = "wipe"
    /\ snap' = EmptyStore
    /\ todo' = Keys
    /\ spc' = "write"
    /\ UNCHANGED <<mode, threadVars, kv, raftVars, aofBuf, image, frozen, snaps,
                   raftFile, aofFile, faults, history>>

\* ...then writes shard after shard, and the child exits.
ChildWrite(k) ==
    /\ spc = "write"
    /\ k \in todo
    /\ snap' = [snap EXCEPT ![k] = image[k]]
    /\ todo' = todo \ {k}
    /\ spc' = IF todo = {k} THEN "trunc" ELSE "write"
    /\ UNCHANGED <<mode, threadVars, kv, raftVars, aofBuf, image, frozen, snaps,
                   raftFile, aofFile, faults, history>>

\* The child is killed: waitpid returns and its status is not looked at.
ChildKilled ==
    /\ spc \in {"wipe", "write"}
    /\ Fault
    /\ spc' = "trunc"
    /\ UNCHANGED <<mode, threadVars, kv, raftVars, aofBuf, image, todo, frozen, snaps,
                   diskVars, history>>

\* An exception in the child is caught by the loop the child inherited: it goes
\* on as a snapshot loop of its own, and the parent waits for it for good.
ChildThrows ==
    /\ spc \in {"wipe", "write"}
    /\ Fault
    /\ spc' = "idle"
    /\ frozen' = TRUE
    /\ UNCHANGED <<mode, threadVars, kv, raftVars, aofBuf, image, todo, snaps,
                   diskVars, history>>

\* resize_file(AOF_DIR, 0), without AOF::mut.
Truncate ==
    /\ spc = "trunc"
    /\ aofFile' = <<>>
    /\ spc' = "idle"
    /\ UNCHANGED <<mode, threadVars, kv, raftVars, aofBuf, image, todo, frozen, snaps,
                   raftFile, snap, faults, history>>

SnapshotStep ==
    Fork \/ ChildWipe \/ (\E k \in Keys : ChildWrite(k)) \/ Truncate

-----------------------------------------------------------------------------
(* Stop, kill and start.                                                   *)

\* SIGINT sets shutdown_requested, which run() reads between two passes.
Stop ==
    /\ mode = "up" /\ mpc = "drain"
    /\ Fault
    /\ mode' = "stopping"
    /\ UNCHANGED <<threadVars, kv, raftVars, aofBuf, snapVars, diskVars, history>>

\* What ends with the process.
MemoryGone ==
    /\ mode' = "down" /\ mpc' = "drain"
    /\ pc' = [w \in Workers |-> "idle"] /\ cur' = [w \in Workers |-> 0]
    /\ kv' = EmptyStore
    /\ rlog' = <<>> /\ lastApplied' = 0 /\ applyQ' = <<>> /\ applied' = <<>>
    /\ diskBuf' = <<>>
    /\ aofBuf' = <<>>
    /\ replyQ' = {}
    /\ spc' = "idle" /\ image' = EmptyStore /\ todo' = {} /\ frozen' = FALSE

\* The destructors: the snapshot thread is joined, RaftNode drops diskBuf_, the
\* pool joins its workers, AOF flushes its buffer.
Exit ==
    /\ mode = "stopping"
    /\ \A w \in Workers : pc[w] = "idle"
    /\ spc = "idle" /\ ~ frozen
    /\ MemoryGone
    /\ aofFile' = aofFile \o aofBuf
    /\ UNCHANGED <<raftFile, snap, faults, snaps, history>>

\* The server and its child are killed; the kernel keeps what was written.  A
\* write acknowledged in this pass, before its tick, may go with them.
Crash ==
    /\ mode # "down"
    /\ Fault
    /\ MemoryGone
    /\ lost' = IF mpc = "tick" THEN lost \cup (acked \ Range(raftFile)) ELSE lost
    /\ UNCHANGED <<diskVars, snaps, issued, acked, fresh>>

\* What AOF::recover makes of the file.  Handler::DEL has moved the key out of
\* the request it appends, so that the record of a DEL is an array with one
\* element too few: the parser takes the next record for the key and DEL_noAOF
\* throws; at the end of the file the record is incomplete and skipped.
Recoverable ==
    \A i \in 1 .. Len(aofFile) - 1 : Cmd(aofFile[i]).op # "DEL"

\* The positions of s that write k.
WritesTo(s, k) == {i \in DOMAIN s : Cmd(s[i]).key = k}

\* readfromfile and then AOF::recover, for one key.
Recovered(k) ==
    LET sets == {i \in WritesTo(aofFile, k) : Cmd(aofFile[i]).op = "SET"} IN
    IF sets = {} THEN snap[k] ELSE Cmd(aofFile[Max(sets)]).val

\* Faulty: loadFromDisk takes the entries it loads for applied.
StartWithoutReplay ==
    /\ mode = "down"
    /\ Recoverable
    /\ mode' = "up"
    /\ kv' = [k \in Keys |-> Recovered(k)]
    /\ rlog' = raftFile
    /\ lastApplied' = Len(raftFile)
    /\ fresh' = TRUE
    /\ UNCHANGED <<threadVars, applyQ, applied, diskBuf, aofBuf, snapVars,
                   diskVars, faults, issued, acked, lost>>

\* The constructor, and run() up to the loop: RaftNode loads its file, takes
\* all of it as committed, and will apply all of it again.
Start ==
    /\ mode = "down"
    /\ Recoverable
    /\ mode' = "up"
    /\ kv' = [k \in Keys |-> Recovered(k)]
    /\ rlog' = raftFile
    /\ fresh' = TRUE
    /\ UNCHANGED <<threadVars, lastApplied, applyQ, applied, diskBuf, aofBuf,
                   snapVars, diskVars, faults, issued, acked, lost>>

\* Recovery throws out of the constructor and main returns.
StartFails ==
    /\ mode = "down"
    /\ ~ Recoverable
    /\ UNCHANGED vars

Next ==
    \/ \E w \in Workers : WorkerStep(w) \/ \E r \in Requests : Receive(w, r)
    \/ MainStep
    \/ SnapshotStep \/ ForkFails \/ ChildKilled \/ ChildThrows
    \/ Stop \/ Exit \/ Crash \/ Start \/ StartFails

Spec == Init /\ [][Next]_vars

\* The kernel schedules every thread; the snapshot timer and the operator who
\* starts the server again are not assumed.
Fairness == WF_vars(MainStep) /\ \A w \in Workers : WF_vars(WorkerStep(w))

FairSpec == Spec /\ Fairness

-----------------------------------------------------------------------------
(* Properties.                                                             *)

ThreadTypes ==
    /\ mode \in {"down", "up", "stopping"}
    /\ mpc \in {"drain", "tick", "take", "apply", "thrown"}
    /\ pc \in [Workers -> {"idle", "propose", "disk", "aof", "apply", "reply"}]
    /\ cur \in [Workers -> 0 .. MaxOps]
    /\ spc \in {"idle", "wipe", "write", "trunc"}

LogTypes ==
    /\ rlog \in Seq(Writes) /\ applyQ \in Seq(Writes)
    /\ applied \in Seq(Writes) /\ diskBuf \in Seq(Writes)
    /\ lastApplied \in 0 .. Len(rlog)
    /\ raftFile \in Seq(Writes) /\ aofFile \in Seq(Writes)
    /\ aofBuf \in Seq(Writes)

StoreTypes ==
    /\ kv \in [Keys -> Value \cup {None}]
    /\ snap \in [Keys -> Value \cup {None}]
    /\ image \in [Keys -> Value \cup {None}]
    /\ todo \subseteq Keys

CounterTypes ==
    /\ faults \in 0 .. MaxFaults /\ snaps \in 0 .. MaxSnaps
    /\ replyQ \subseteq Writes /\ acked \subseteq Writes /\ lost \subseteq Writes
    /\ issued \in Seq([cmd : Command, seen : SUBSET Writes])
    /\ Len(issued) <= MaxOps

\* Every variable keeps its type through the threads' steps, faults and
\* restarts; in particular lastApplied never passes the end of the log.
TypeOK ==
    /\ ThreadTypes /\ LogTypes /\ StoreTypes /\ CounterTypes
    /\ frozen \in BOOLEAN /\ fresh \in BOOLEAN

\* What reached, or is about to reach, each of the two log files.
RaftDisk == raftFile \o diskBuf
AofDisk == aofFile \o aofBuf

\* The text a GET returns, and the text a command leaves under its key.
TextOf(v) == IF v = None THEN None ELSE v.text
Leaves(c) == TextOf(c.val)

\* Between two passes of the main loop every write whose reply was sent is in
\* the Raft log file; only a kill between a reply and the tick of the same pass
\* (epoll_step sends replies before it ticks) loses an acknowledged write.  A
\* stop on SIGINT or on an exception in apply loses none.
AckedDurable ==
    acked \ lost \subseteq
        IF mode # "down" /\ mpc = "tick" THEN Range(RaftDisk) ELSE Range(raftFile)

\* The entries that are in the log and not yet on their way to its file.
Unwritten == {cur[w] : w \in {v \in Workers : pc[v] = "disk"}}

\* propose pushes under mtx_ and writes to disk after it: the file and its
\* buffer hold each entry of the in-memory log once, and nothing else, but for
\* the entries of workers between the two steps.
DiskMatchesLog ==
    mode # "down" =>
        /\ Range(RaftDisk) \cap Unwritten = {}
        /\ Range(rlog) = Range(RaftDisk) \cup Unwritten
        /\ IsInjective(RaftDisk)

\* s puts no write before one that was acknowledged before it was received.
KeepsRealTime(s) ==
    \A i, j \in DOMAIN s : i < j => s[j] \notin issued[s[i]].seen

\* Replaying the Raft file, the Raft log or the AOF never reorders writes that
\* a client could order, though workers append to each in any order.
RealTimeOrder ==
    KeepsRealTime(rlog) /\ KeepsRealTime(RaftDisk) /\ KeepsRealTime(AofDisk)

\* A restarted server that has applied its Raft log, and received no write yet,
\* holds for each key what the last entry of the Raft file left, whatever the
\* snapshot and the AOF said.
RecoveredState ==
    (fresh /\ mode = "up" /\ lastApplied = Len(rlog) /\ applyQ = <<>>) =>
        \A k \in Keys :
            WritesTo(raftFile, k) # {} =>
                TextOf(kv[k]) = Leaves(Cmd(raftFile[Max(WritesTo(raftFile, k))]))

\* The main thread applies the log from its first entry on, every entry once
\* and in order, though workers push while it applies.
AppliesLogInOrder ==
    mode = "up" => applied \o applyQ = SubSeq(rlog, 1, lastApplied)

\* A value that is not one token, once it is in the log, stops the server, at
\* once and again after every restart: a server that has applied its log has
\* none in it.  No other entry makes the loop throw (Handler::SET writes the
\* value as text, makeCommand splits it).
OddValuesStop ==
    /\ mpc = "thrown" => \E n \in Range(rlog) : ~ Readable(Cmd(n))
    /\ (mode = "up" /\ lastApplied = Len(rlog) /\ applyQ = <<>>) =>
           \A n \in Range(rlog) : Readable(Cmd(n))

\* Every write received is acknowledged, unless the server leaves its loop.
EveryWriteAnswered ==
    \A n \in Writes : (\E w \in Workers : pc[w] # "idle" /\ cur[w] = n)
                          ~> (n \in acked \/ mode # "up")

\* Every entry of the log is applied, unless the server leaves its loop.
EveryEntryApplied ==
    \A n \in Writes : (mode = "up" /\ n <= Len(rlog))
                          ~> (mode # "up" \/ n <= Len(applied))

-----------------------------------------------------------------------------
(* What the documents, the comments and the tests say, and the code does   *)
(* not do.                                                                 *)

Quiet == mode = "up" /\ \A w \in Workers : pc[w] = "idle"

\* Handler::SET, the Raft apply backs up the optimistic one: once all is
\* applied, the store is what the log says.
StoreFollowsLog ==
    (Quiet /\ lastApplied = Len(rlog) /\ applyQ = <<>>) =>
        \A k \in Keys :
            WritesTo(rlog, k) # {} =>
                TextOf(kv[k]) = Leaves(Cmd(rlog[Max(WritesTo(rlog, k))]))

\* tests/test_AOF.cpp, a key whose last record is a DEL is absent after
\* recovery.
DeletesRecovered ==
    mode = "down" =>
        /\ Recoverable
        /\ \A k \in Keys :
               (WritesTo(aofFile, k) # {}
                  /\ Cmd(aofFile[Max(WritesTo(aofFile, k))]).op = "DEL")
                     => Recovered(k) = None
=============================================================================
