-------------------------------- MODULE Raft --------------------------------
(***************************************************************************)
(* The RaftNodes of one group number on several servers: elections by      *)
(* RequestVote, the log of the node that leads and its file, and what      *)
(* Server::initRaftGroups does to both when the topology changes.  A       *)
(* rebuild destroys the RaftNode and constructs another with the peers of  *)
(* the new topology, which reads the file of the group's number and        *)
(* replays all of it over the store.                                       *)
(*                                                                         *)
(* A server's writes go to one key that it owns whatever the topology, one *)
(* at a time (WritePath has two workers and the steps inside propose), and *)
(* are numbered.  The callback sendCb queues a message when the peer is    *)
(* connected and drops it otherwise; requests are handled by the thread    *)
(* pool, in any order.  (In a server the callback does not return when     *)
(* tick calls it for a connected peer, which is the subject of Threads;    *)
(* here RaftNode has the callback that it expects.)                        *)
(*                                                                         *)
(* AppendEntries is left out: a node sends it to its peers when it leads,  *)
(* and a node that leads has none (LeadersAlone).                          *)
(***************************************************************************)
EXTENDS Integers, Sequences, FiniteSets

CONSTANTS
    Server,     \* UUIDs
    Writers,    \* servers that clients write to
    None,
    MaxTerm,    \* bound on currentTerm
    MaxWrites,  \* bound on the writes of one server
    MaxRebuilds \* bound on the rebuilds of one server

ASSUME RaftAssumption ==
    /\ None \notin Server /\ Writers \subseteq Server
    /\ MaxTerm \in Nat /\ MaxWrites \in Nat /\ MaxRebuilds \in Nat

VARIABLES
    \* RaftNode
    peers, state, currentTerm, votedFor, voteCount, log, lastApplied, diskBuf,
    file,       \* the lines of group_<gi>.log
    net,        \* payloads in message_queues and sockets
    \* the server around it
    store,      \* the key's value: the number of a write, or 0
    stage,      \* how far the worker with the newest write is
    count,      \* writes received
    rebuilds,   \* initRaftGroups run
    \* history
    acked,      \* the newest write that was acknowledged
    unlogged,   \* writes that propose refused, or a rebuild dropped
    grants      \* votes given, also to oneself

node == <<peers, state, currentTerm, votedFor, voteCount>>
disk == <<log, lastApplied, diskBuf, file>>
work == <<store, stage, count, acked, unlogged>>
vars == <<node, disk, net, work, rebuilds, grants>>

Entry == [term : 0 .. MaxTerm, write : 1 .. MaxWrites]

\* The payloads.  A reply's vote is the fourth string that parseParts finds.
Request == [type : {"RAFT_RV"}, from : Server, to : Server, term : 0 .. MaxTerm,
            lastIdx : Nat, lastTerm : 0 .. MaxTerm]
Reply == [type : {"RAFT_RVR"}, from : Server, to : Server, term : 0 .. MaxTerm,
          vote : {"1", "0", "+1", "+0"}]

\* Faulty: one plus sign in front of the vote.
VoteTextOnePlus(granted) == IF granted THEN "1" ELSE "0"

\* The vote as encodeRequestVoteReply writes it and parseParts reads it: the
\* code writes a plus sign at the end of one literal and at the start of the
\* next, and parseParts takes off one.
VoteText(granted) == IF granted THEN "+1" ELSE "+0"

\* The vote as handleRequestVoteReply understands it.
IsGranted(text) == text = "1"

lastLogIndex(s) == Len(log[s])
lastLogTerm(s) == IF log[s] = <<>> THEN 0 ELSE log[s][Len(log[s])].term

\* The quorum of handleRequestVoteReply.
Quorum(s) == Cardinality(peers[s]) \div 2 + 1

Init ==
    \* joinCluster may have found other servers before the first rebuild
    /\ peers \in {f \in [Server -> SUBSET Server] : \A s \in Server : s \notin f[s]}
    /\ state = [s \in Server |-> IF peers[s] = {} THEN "Leader" ELSE "Follower"]
    /\ currentTerm = [s \in Server |-> 0]
    /\ votedFor = [s \in Server |-> None]
    /\ voteCount = [s \in Server |-> 0]
    /\ log = [s \in Server |-> <<>>] /\ lastApplied = [s \in Server |-> 0]
    /\ diskBuf = [s \in Server |-> <<>>] /\ file = [s \in Server |-> <<>>]
    /\ net = {}
    /\ store = [s \in Server |-> 0] /\ stage = [s \in Server |-> "idle"]
    /\ count = [s \in Server |-> 0] /\ rebuilds = [s \in Server |-> 0]
    /\ acked = [s \in Server |-> 0] /\ unlogged = [s \in Server |-> {}]
    /\ grants = {}

-----------------------------------------------------------------------------
(* Elections.                                                              *)

\* A vote, for the history: by which RaftNode of a server, when, for whom.
Granted(s, term, c) == [voter |-> s, life |-> rebuilds[s], term |-> term, for |-> c]

BecomeFollower(s, term) ==
    /\ state' = [state EXCEPT ![s] = "Follower"]
    /\ currentTerm' = [currentTerm EXCEPT ![s] = term]
    /\ voteCount' = [voteCount EXCEPT ![s] = 0]

BecomeCandidate(s) ==
    /\ currentTerm[s] < MaxTerm
    /\ state' = [state EXCEPT ![s] = "Candidate"]
    /\ currentTerm' = [currentTerm EXCEPT ![s] = @ + 1]
    /\ votedFor' = [votedFor EXCEPT ![s] = s]
    /\ voteCount' = [voteCount EXCEPT ![s] = 1]
    /\ grants' = grants \cup {Granted(s, currentTerm[s] + 1, s)}

\* sendRequestVote; reached are the peers that are connected.
SendRequestVote(s, reached) ==
    net' = net \cup
        {[type |-> "RAFT_RV", from |-> s, to |-> p, term |-> currentTerm'[s],
          lastIdx |-> lastLogIndex(s), lastTerm |-> lastLogTerm(s)] : p \in reached}

\* flushDisk, at the start of every tick.
FlushDisk(s) ==
    /\ file' = [file EXCEPT ![s] = @ \o diskBuf[s]]
    /\ diskBuf' = [diskBuf EXCEPT ![s] = <<>>]

\* takePendingApply and the loop of epoll_step that hands its entries to
\* handle_noAOF: the last one decides.
ApplyPending(s) ==
    /\ lastApplied' = [lastApplied EXCEPT ![s] = Len(log[s])]
    /\ store' = [store EXCEPT ![s] =
                    IF lastApplied[s] < Len(log[s]) THEN log[s][Len(log[s])].write ELSE @]

\* epoll_step calls tick and applies what is committed, which is the whole
\* log of a node.  The election timer has not run out, or the node leads.
Tick(s) ==
    /\ FlushDisk(s) /\ ApplyPending(s)
    /\ UNCHANGED <<node, net, log, stage, count, acked, unlogged, rebuilds, grants>>

\* The election timer has run out.
Timeout(s) ==
    /\ state[s] # "Leader"
    /\ FlushDisk(s) /\ ApplyPending(s)
    /\ BecomeCandidate(s)
    /\ \E reached \in SUBSET peers[s] : SendRequestVote(s, reached)
    /\ UNCHANGED <<peers, log, stage, count, acked, unlogged, rebuilds>>

\* The reply of handleRequestVote to m.
VoteReply(m, term, granted) ==
    [type |-> "RAFT_RVR", from |-> m.to, to |-> m.from, term |-> term,
     vote |-> VoteText(granted)]

\* Faulty: an earlier vote is not looked at.
CanVoteAgain(s, m) == m.term >= currentTerm[s]

CanVote(s, m) ==
    \/ m.term > currentTerm[s]      \* becomeFollower forgets the vote
    \/ votedFor[s] \in {None, m.from}

LogOk(s, m) ==
    \/ m.lastTerm > lastLogTerm(s)
    \/ m.lastTerm = lastLogTerm(s) /\ m.lastIdx >= lastLogIndex(s)

\* Another candidate's term is over.
RefuseOld(s, m) ==
    /\ m.term < currentTerm[s]
    /\ net' = (net \ {m}) \cup {VoteReply(m, currentTerm[s], FALSE)}
    /\ UNCHANGED <<node, grants>>

Vote(s, m) ==
    LET granted == CanVote(s, m) /\ LogOk(s, m) IN
    /\ m.term >= currentTerm[s]
    /\ IF m.term > currentTerm[s] THEN BecomeFollower(s, m.term)
       ELSE UNCHANGED <<state, currentTerm, voteCount>>
    /\ votedFor' = [votedFor EXCEPT ![s] = IF granted THEN m.from
                                           ELSE IF m.term > currentTerm[s] THEN None
                                           ELSE @]
    /\ net' = (net \ {m}) \cup {VoteReply(m, m.term, granted)}
    /\ grants' = IF granted THEN grants \cup {Granted(s, m.term, m.from)} ELSE grants
    /\ UNCHANGED peers

HandleRequestVote(s) ==
    /\ \E m \in net : m.type = "RAFT_RV" /\ m.to = s /\ (RefuseOld(s, m) \/ Vote(s, m))
    /\ UNCHANGED <<disk, work, rebuilds>>

\* A candidate counts a vote; neither the term nor the sender is compared.
CountVote(s) ==
    IF voteCount[s] + 1 >= Quorum(s)
    THEN /\ state' = [state EXCEPT ![s] = "Leader"]
         /\ voteCount' = [voteCount EXCEPT ![s] = 0]
    ELSE /\ voteCount' = [voteCount EXCEPT ![s] = @ + 1]
         /\ UNCHANGED state

HandleRequestVoteReply(s) ==
    /\ \E m \in net :
        /\ m.type = "RAFT_RVR" /\ m.to = s
        /\ net' = net \ {m}
        /\ IF state[s] = "Candidate" /\ m.term > currentTerm[s]
           THEN BecomeFollower(s, m.term) /\ votedFor' = [votedFor EXCEPT ![s] = None]
           ELSE /\ IF state[s] = "Candidate" /\ IsGranted(m.vote)
                   THEN CountVote(s) ELSE UNCHANGED <<state, voteCount>>
                /\ UNCHANGED <<currentTerm, votedFor>>
    /\ UNCHANGED <<peers, disk, work, rebuilds, grants>>

-----------------------------------------------------------------------------
(* The log.                                                                *)

\* propose, called by SET: the entry is committed at once, for a leader has
\* no peers.
Propose(s) ==
    LET w == count[s] + 1
        e == [term |-> currentTerm[s], write |-> w]
    IN
    /\ s \in Writers /\ w <= MaxWrites
    /\ stage[s] = "idle"
    /\ count' = [count EXCEPT ![s] = w]
    /\ stage' = [stage EXCEPT ![s] = "proposed"]
    /\ IF state[s] = "Leader"
       THEN /\ log' = [log EXCEPT ![s] = Append(@, e)]
            /\ diskBuf' = [diskBuf EXCEPT ![s] = Append(@, e)]
            /\ UNCHANGED unlogged
       ELSE /\ unlogged' = [unlogged EXCEPT ![s] = @ \cup {w}]
            /\ UNCHANGED <<log, diskBuf>>
    /\ UNCHANGED <<node, lastApplied, file, net, store, acked, rebuilds, grants>>

\* SET stores the value itself and queues the reply.
Store(s) ==
    /\ stage[s] = "proposed"
    /\ store' = [store EXCEPT ![s] = count[s]]
    /\ stage' = [stage EXCEPT ![s] = "queued"]
    /\ UNCHANGED <<node, disk, net, count, acked, unlogged, rebuilds, grants>>

\* The main thread sends the reply.
Acknowledge(s) ==
    /\ stage[s] = "queued"
    /\ acked' = [acked EXCEPT ![s] = count[s]]
    /\ stage' = [stage EXCEPT ![s] = "idle"]
    /\ UNCHANGED <<node, disk, net, store, count, unlogged, rebuilds, grants>>

\* Faulty: the last line is left out.
LoadFromDiskShort(s) == SubSeq(file[s], 1, Len(file[s]) - 1)

\* What loadFromDisk makes of the file.
LoadFromDisk(s) == file[s]

\* initRaftGroups with the peers of the topology of now.  The destroyed
\* RaftNode takes its buffer, term and vote with it.
Rebuild(s) ==
    /\ rebuilds[s] < MaxRebuilds
    /\ \E P \in SUBSET (Server \ {s}) :
        /\ peers' = [peers EXCEPT ![s] = P]
        /\ state' = [state EXCEPT ![s] = IF P = {} THEN "Leader" ELSE "Follower"]
    /\ currentTerm' = [currentTerm EXCEPT ![s] = 0]
    /\ votedFor' = [votedFor EXCEPT ![s] = None]
    /\ voteCount' = [voteCount EXCEPT ![s] = 0]
    /\ log' = [log EXCEPT ![s] = LoadFromDisk(s)]
    /\ lastApplied' = [lastApplied EXCEPT ![s] = 0]
    /\ diskBuf' = [diskBuf EXCEPT ![s] = <<>>]
    /\ unlogged' = [unlogged EXCEPT ![s] =
                        @ \cup {diskBuf[s][i].write : i \in DOMAIN diskBuf[s]}]
    /\ rebuilds' = [rebuilds EXCEPT ![s] = @ + 1]
    /\ UNCHANGED <<file, net, store, stage, count, acked, grants>>

Next == \E s \in Server :
    \/ Tick(s) \/ Timeout(s)
    \/ HandleRequestVote(s) \/ HandleRequestVoteReply(s)
    \/ Propose(s) \/ Store(s) \/ Acknowledge(s)
    \/ Rebuild(s)

Spec == Init /\ [][Next]_vars

-----------------------------------------------------------------------------
(* Properties.                                                             *)

\* The variables have the types of the code's members.
TypeOK ==
    /\ peers \in [Server -> SUBSET Server]
    /\ state \in [Server -> {"Follower", "Candidate", "Leader"}]
    /\ currentTerm \in [Server -> 0 .. MaxTerm]
    /\ votedFor \in [Server -> Server \cup {None}]
    /\ voteCount \in [Server -> Nat]
    /\ log \in [Server -> Seq(Entry)]
    /\ lastApplied \in [Server -> Nat]
    /\ diskBuf \in [Server -> Seq(Entry)] /\ file \in [Server -> Seq(Entry)]
    /\ net \subseteq Request \cup Reply
    /\ store \in [Server -> 0 .. MaxWrites]
    /\ stage \in [Server -> {"idle", "proposed", "queued"}]
    /\ count \in [Server -> 0 .. MaxWrites]
    /\ rebuilds \in [Server -> 0 .. MaxRebuilds]
    /\ acked \in [Server -> 0 .. MaxWrites]
    /\ unlogged \in [Server -> SUBSET (1 .. MaxWrites)]
    /\ grants \subseteq [voter : Server, life : 0 .. MaxRebuilds,
                         term : 0 .. MaxTerm, for : Server]

\* A node that leads has no peers: whatever votes its peers grant, no
\* election is won (handleRequestVoteReply), and AppendEntries is never sent.
LeadersAlone == \A s \in Server : state[s] = "Leader" => peers[s] = {}

\* One RaftNode votes for one candidate in a term at most, its own candidacy
\* included (handleRequestVote, becomeCandidate).  A rebuild forgets term and
\* vote, so that a server may vote again; the number of rebuilds is part of
\* the voter.
OneVotePerTerm == \A g, h \in grants :
    g.voter = h.voter /\ g.life = h.life /\ g.term = h.term => g.for = h.for

\* The store of a server at rest holds its newest acknowledged write, unless
\* propose refused that write (the server had peers, or had lost its lead to
\* a request for votes) or a rebuild came before the tick that would have
\* written it to the file: then a replay of the file may bring back an older
\* one (Handler::SET, initRaftGroups, loadFromDisk, takePendingApply).
UndoneOnlyIfUnlogged == \A s \in Server :
    stage[s] = "idle" /\ lastApplied[s] = Len(log[s]) =>
        store[s] = acked[s] \/ acked[s] \in unlogged[s]
=============================================================================
