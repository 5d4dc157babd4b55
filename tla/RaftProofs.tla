----------------------------- MODULE RaftProofs -----------------------------
(***************************************************************************)
(* Proofs about elections, rebuilds and replays, for any number of         *)
(* servers, writes, terms and rebuilds.                                    *)
(*                                                                         *)
(* LeadersAlone and OneVotePerTerm need no more than what a reply can say  *)
(* and what a node remembers of its votes.  UndoneOnlyIfUnlogged needs the *)
(* log: it is the file followed by the buffer, its last entry is the       *)
(* newest write unless that write is among the unlogged ones, and a store  *)
(* to which the log was applied then holds that write.                     *)
(***************************************************************************)
EXTENDS Raft, SequenceTheorems, TLAPS

-----------------------------------------------------------------------------
(* Types.                                                                  *)

\* A message is handled as what its type says.
LEMMA MessageTypes ==
  ASSUME TypeOK, NEW m \in net
  PROVE /\ m.type = "RAFT_RV" => m \in Request
        /\ m.type = "RAFT_RVR" => m \in Reply
  BY DEF TypeOK, Request, Reply

\* The term of the last entry is a term.
LEMMA LastTermType ==
  ASSUME TypeOK, NEW s \in Server
  PROVE lastLogTerm(s) \in 0 .. MaxTerm /\ lastLogIndex(s) \in Nat
  <1>1. log[s] \in Seq(Entry) /\ 0 \in 0 .. MaxTerm BY RaftAssumption DEF TypeOK
  <1>2. ASSUME log[s] # <<>> PROVE log[s][Len(log[s])] \in Entry BY <1>1, <1>2
  <1> QED BY <1>1, <1>2 DEF lastLogTerm, lastLogIndex, Entry

\* The types hold at the start.
LEMMA InitTypes == Init => TypeOK
  BY RaftAssumption DEF Init, TypeOK

\* What a tick does to file, buffer and store keeps their types.
LEMMA TickTypes ==
  ASSUME TypeOK, NEW s \in Server, FlushDisk(s), ApplyPending(s)
  PROVE /\ file' \in [Server -> Seq(Entry)] /\ diskBuf' \in [Server -> Seq(Entry)]
        /\ lastApplied' \in [Server -> Nat]
        /\ store' \in [Server -> 0 .. MaxWrites]
  <1>1. file' \in [Server -> Seq(Entry)] /\ diskBuf' \in [Server -> Seq(Entry)]
        BY DEF TypeOK, FlushDisk
  <1>2. log[s] \in Seq(Entry) /\ lastApplied[s] \in Nat BY DEF TypeOK
  <1>3. lastApplied' \in [Server -> Nat] BY <1>2 DEF TypeOK, ApplyPending
  <1>4. ASSUME lastApplied[s] < Len(log[s])
        PROVE log[s][Len(log[s])].write \in 0 .. MaxWrites
    <2>1. log[s][Len(log[s])] \in Entry BY <1>2, <1>4
    <2> QED BY <2>1, RaftAssumption DEF Entry
  <1>5. store' \in [Server -> 0 .. MaxWrites] BY <1>4 DEF TypeOK, ApplyPending
  <1> QED BY <1>1, <1>3, <1>5

\* Every step keeps the types.
LEMMA TypesKept == TypeOK /\ [Next]_vars => TypeOK'
  <1> SUFFICES ASSUME TypeOK, [Next]_vars PROVE TypeOK' OBVIOUS
  <1> USE RaftAssumption
  <1>1. ASSUME NEW s \in Server, Tick(s) PROVE TypeOK'
    <2>1. FlushDisk(s) /\ ApplyPending(s) BY <1>1 DEF Tick
    <2>2. /\ file' \in [Server -> Seq(Entry)] /\ diskBuf' \in [Server -> Seq(Entry)]
          /\ lastApplied' \in [Server -> Nat]
          /\ store' \in [Server -> 0 .. MaxWrites]
          BY <2>1, TickTypes
    <2> QED BY <1>1, <2>2, ZenonT(30) DEF Tick, TypeOK, node
  <1>2. ASSUME NEW s \in Server, Timeout(s) PROVE TypeOK'
    <2>1. FlushDisk(s) /\ ApplyPending(s) /\ BecomeCandidate(s) BY <1>2 DEF Timeout
    <2>2. /\ file' \in [Server -> Seq(Entry)] /\ diskBuf' \in [Server -> Seq(Entry)]
          /\ lastApplied' \in [Server -> Nat]
          /\ store' \in [Server -> 0 .. MaxWrites]
          BY <2>1, TickTypes
    <2>3. currentTerm[s] \in 0 .. MaxTerm /\ currentTerm[s] < MaxTerm
          BY <2>1 DEF TypeOK, BecomeCandidate
    <2>4. currentTerm[s] + 1 \in 0 .. MaxTerm BY <2>3
    <2>5. /\ state' \in [Server -> {"Follower", "Candidate", "Leader"}]
          /\ currentTerm' \in [Server -> 0 .. MaxTerm]
          /\ currentTerm'[s] \in 0 .. MaxTerm
          /\ votedFor' \in [Server -> Server \cup {None}]
          /\ voteCount' \in [Server -> Nat]
          BY <2>1, <2>4, ZenonT(30) DEF TypeOK, BecomeCandidate
    <2>6. grants' \subseteq [voter : Server, life : 0 .. MaxRebuilds,
                             term : 0 .. MaxTerm, for : Server]
      <3>1. /\ rebuilds[s] \in 0 .. MaxRebuilds
            /\ grants \subseteq [voter : Server, life : 0 .. MaxRebuilds,
                                 term : 0 .. MaxTerm, for : Server]
            BY DEF TypeOK
      <3>2. grants' = grants \cup {Granted(s, currentTerm[s] + 1, s)}
            BY <2>1 DEF BecomeCandidate
      <3>3. Granted(s, currentTerm[s] + 1, s)
              \in [voter : Server, life : 0 .. MaxRebuilds, term : 0 .. MaxTerm, for : Server]
            BY <2>4, <3>1 DEF Granted
      <3> QED BY <3>1, <3>2, <3>3
    <2>7. net' \subseteq Request \cup Reply
      <3>1. PICK reached \in SUBSET peers[s] : SendRequestVote(s, reached)
            BY <1>2 DEF Timeout
      <3>2. reached \subseteq Server BY <3>1 DEF TypeOK
      <3>3. lastLogTerm(s) \in 0 .. MaxTerm /\ lastLogIndex(s) \in Nat BY LastTermType
      <3>4. ASSUME NEW p \in reached
            PROVE [type |-> "RAFT_RV", from |-> s, to |-> p, term |-> currentTerm'[s],
                   lastIdx |-> lastLogIndex(s), lastTerm |-> lastLogTerm(s)] \in Request
            BY <2>5, <3>2, <3>3 DEF Request
      <3> QED BY <3>1, <3>4 DEF SendRequestVote, TypeOK
    <2> QED BY <1>2, <2>2, <2>5, <2>6, <2>7, ZenonT(30) DEF Timeout, TypeOK
  <1>3. ASSUME NEW s \in Server, HandleRequestVote(s) PROVE TypeOK'
    <2>1. PICK m \in net : m.type = "RAFT_RV" /\ m.to = s /\ (RefuseOld(s, m) \/ Vote(s, m))
          BY <1>3 DEF HandleRequestVote
    <2>2. m \in Request BY <2>1, MessageTypes
    <2>3. m.from \in Server /\ m.term \in 0 .. MaxTerm BY <2>2 DEF Request
    <2>4. ASSUME NEW t \in 0 .. MaxTerm, NEW g \in BOOLEAN
          PROVE VoteReply(m, t, g) \in Reply
          BY <2>1, <2>3 DEF VoteReply, VoteText, Reply
    <2>5. CASE RefuseOld(s, m)
      <3>1. VoteReply(m, currentTerm[s], FALSE) \in Reply BY <2>4, ZenonT(30) DEF TypeOK
      <3> QED BY <1>3, <2>5, <3>1, ZenonT(30)
              DEF HandleRequestVote, RefuseOld, TypeOK, node, disk, work
    <2>6. CASE Vote(s, m)
      <3> DEFINE granted == CanVote(s, m) /\ LogOk(s, m)
      <3>1. VoteReply(m, m.term, granted) \in Reply
        <4>1. CASE granted
          <5>1. VoteReply(m, m.term, granted) = VoteReply(m, m.term, TRUE)
                BY <4>1 DEF VoteReply, VoteText
          <5> QED BY <5>1, <2>3, <2>4, ZenonT(30)
        <4>2. CASE ~ granted
          <5>1. VoteReply(m, m.term, granted) = VoteReply(m, m.term, FALSE)
                BY <4>2 DEF VoteReply, VoteText
          <5> QED BY <5>1, <2>3, <2>4, ZenonT(30)
        <4> QED BY <4>1, <4>2
      <3>2. net' \subseteq Request \cup Reply BY <2>6, <3>1 DEF Vote, TypeOK
      <3>3. Granted(s, m.term, m.from) \in [voter : Server, life : 0 .. MaxRebuilds,
                                            term : 0 .. MaxTerm, for : Server]
            BY <2>3 DEF Granted, TypeOK
      <3>4. grants' \subseteq [voter : Server, life : 0 .. MaxRebuilds,
                               term : 0 .. MaxTerm, for : Server]
            BY <2>6, <3>3, ZenonT(30) DEF Vote, TypeOK
      <3>5. /\ state' \in [Server -> {"Follower", "Candidate", "Leader"}]
            /\ currentTerm' \in [Server -> 0 .. MaxTerm]
            /\ voteCount' \in [Server -> Nat]
        <4>1. \/ BecomeFollower(s, m.term)
              \/ UNCHANGED <<state, currentTerm, voteCount>>
              BY <2>6 DEF Vote
        <4>2. state' \in [Server -> {"Follower", "Candidate", "Leader"}]
              BY <4>1, ZenonT(30) DEF BecomeFollower, TypeOK
        <4>3. currentTerm' \in [Server -> 0 .. MaxTerm]
              BY <2>3, <4>1, ZenonT(30) DEF BecomeFollower, TypeOK
        <4>4. voteCount' \in [Server -> Nat]
          <5>1. voteCount \in [Server -> Nat] BY DEF TypeOK
          <5> QED BY <4>1, <5>1 DEF BecomeFollower
        <4> QED BY <4>2, <4>3, <4>4
      <3>6. votedFor' \in [Server -> Server \cup {None}]
            BY <2>3, <2>6, SMTT(30) DEF Vote, TypeOK
      <3> QED BY <1>3, <2>6, <3>2, <3>4, <3>5, <3>6, ZenonT(30)
              DEF HandleRequestVote, Vote, TypeOK, disk, work
    <2> QED BY <2>1, <2>5, <2>6
  <1>4. ASSUME NEW s \in Server, HandleRequestVoteReply(s) PROVE TypeOK'
    <2>1. PICK m \in net :
            /\ m.type = "RAFT_RVR" /\ m.to = s
            /\ net' = net \ {m}
            /\ IF state[s] = "Candidate" /\ m.term > currentTerm[s]
               THEN BecomeFollower(s, m.term) /\ votedFor' = [votedFor EXCEPT ![s] = None]
               ELSE /\ IF state[s] = "Candidate" /\ IsGranted(m.vote)
                       THEN CountVote(s) ELSE UNCHANGED <<state, voteCount>>
                    /\ UNCHANGED <<currentTerm, votedFor>>
          BY <1>4 DEF HandleRequestVoteReply
    <2>2. m \in Reply BY <2>1, MessageTypes
    <2>3. m.term \in 0 .. MaxTerm BY <2>2 DEF Reply
    <2>4. state' \in [Server -> {"Follower", "Candidate", "Leader"}]
      <3>1. state \in [Server -> {"Follower", "Candidate", "Leader"}] BY DEF TypeOK
      <3>2. \/ state' = [state EXCEPT ![s] = "Follower"]
            \/ state' = [state EXCEPT ![s] = "Leader"]
            \/ state' = state
            BY <2>1 DEF BecomeFollower, CountVote
      <3> QED BY <3>1, <3>2
    <2>5. currentTerm' \in [Server -> 0 .. MaxTerm]
          BY <2>1, <2>3, ZenonT(30) DEF BecomeFollower, TypeOK
    <2>6. votedFor' \in [Server -> Server \cup {None}] BY <2>1, ZenonT(30) DEF TypeOK
    <2>7. voteCount' \in [Server -> Nat]
      <3>1. voteCount \in [Server -> Nat] BY DEF TypeOK
      <3>2. \/ voteCount' = [voteCount EXCEPT ![s] = 0]
            \/ voteCount' = [voteCount EXCEPT ![s] = @ + 1]
            \/ voteCount' = voteCount
            BY <2>1 DEF BecomeFollower, CountVote
      <3> QED BY <3>1, <3>2
    <2> QED BY <1>4, <2>1, <2>4, <2>5, <2>6, <2>7, ZenonT(30) DEF HandleRequestVoteReply, TypeOK, disk, work
  <1>5. ASSUME NEW s \in Server, Propose(s) PROVE TypeOK'
    <2>1. count[s] + 1 \in 1 .. MaxWrites
      <3>1. count[s] \in 0 .. MaxWrites BY DEF TypeOK
      <3>2. count[s] + 1 <= MaxWrites BY <1>5 DEF Propose
      <3> QED BY <3>1, <3>2
    <2>2. [term |-> currentTerm[s], write |-> count[s] + 1] \in Entry
          BY <2>1 DEF Entry, TypeOK
    <2>3. /\ log' \in [Server -> Seq(Entry)] /\ diskBuf' \in [Server -> Seq(Entry)]
          /\ unlogged' \in [Server -> SUBSET (1 .. MaxWrites)]
      <3> DEFINE e == [term |-> currentTerm[s], write |-> count[s] + 1]
      <3>1. CASE state[s] = "Leader"
        <4>1. /\ log' = [log EXCEPT ![s] = Append(@, e)]
              /\ diskBuf' = [diskBuf EXCEPT ![s] = Append(@, e)]
              /\ unlogged' = unlogged
              BY <1>5, <3>1 DEF Propose
        <4>2. e \in Entry BY <2>2
        <4> HIDE DEF e
        <4>3. log' \in [Server -> Seq(Entry)] BY <4>1, <4>2 DEF TypeOK
        <4>4. diskBuf' \in [Server -> Seq(Entry)] BY <4>1, <4>2 DEF TypeOK
        <4> QED BY <4>1, <4>3, <4>4, ZenonT(30) DEF TypeOK
      <3>2. CASE state[s] # "Leader"
        <4>1. /\ unlogged' = [unlogged EXCEPT ![s] = @ \cup {count[s] + 1}]
              /\ log' = log /\ diskBuf' = diskBuf
              BY <1>5, <3>2 DEF Propose
        <4> QED BY <2>1, <4>1, ZenonT(30) DEF TypeOK
      <3> QED BY <3>1, <3>2
    <2>4. /\ count' \in [Server -> 0 .. MaxWrites]
          /\ stage' \in [Server -> {"idle", "proposed", "queued"}]
      <3>1. /\ count' = [count EXCEPT ![s] = count[s] + 1]
            /\ stage' = [stage EXCEPT ![s] = "proposed"]
            BY <1>5 DEF Propose
      <3>2. /\ count \in [Server -> 0 .. MaxWrites]
            /\ stage \in [Server -> {"idle", "proposed", "queued"}]
            BY SMTT(30) DEF TypeOK
      <3>3. count[s] + 1 \in 0 .. MaxWrites BY <2>1, RaftAssumption
      <3>4. count' \in [Server -> 0 .. MaxWrites] BY <3>1, <3>2, <3>3, ZenonT(30)
      <3>5. stage' \in [Server -> {"idle", "proposed", "queued"}]
            BY <3>1, <3>2, ZenonT(30)
      <3> QED BY <3>4, <3>5
    <2> QED BY <1>5, <2>3, <2>4, ZenonT(30) DEF Propose, TypeOK, node
  <1>6. ASSUME NEW s \in Server, Store(s) PROVE TypeOK'
        BY <1>6, ZenonT(30) DEF Store, TypeOK, node, disk
  <1>7. ASSUME NEW s \in Server, Acknowledge(s) PROVE TypeOK'
        BY <1>7, ZenonT(30) DEF Acknowledge, TypeOK, node, disk
  <1>8. ASSUME NEW s \in Server, Rebuild(s) PROVE TypeOK'
    <2>1. {diskBuf[s][i].write : i \in DOMAIN diskBuf[s]} \subseteq 1 .. MaxWrites
      <3>1. diskBuf[s] \in Seq(Entry) BY DEF TypeOK
      <3>2. ASSUME NEW i \in DOMAIN diskBuf[s] PROVE diskBuf[s][i] \in Entry BY <3>1
      <3> QED BY <3>2 DEF Entry
    <2>2. unlogged' \in [Server -> SUBSET (1 .. MaxWrites)]
          BY <1>8, <2>1, ZenonT(30) DEF Rebuild, TypeOK
    <2>3. /\ peers' \in [Server -> SUBSET Server]
          /\ state' \in [Server -> {"Follower", "Candidate", "Leader"}]
      <3>1. PICK P \in SUBSET (Server \ {s}) :
              /\ peers' = [peers EXCEPT ![s] = P]
              /\ state' = [state EXCEPT ![s] = IF P = {} THEN "Leader" ELSE "Follower"]
            BY <1>8, ZenonT(30) DEF Rebuild
      <3>2. peers' \in [Server -> SUBSET Server] BY <3>1, ZenonT(30) DEF TypeOK
      <3>3. state' \in [Server -> {"Follower", "Candidate", "Leader"}] BY <3>1 DEF TypeOK
      <3> QED BY <3>2, <3>3
    <2>4. /\ log' \in [Server -> Seq(Entry)] /\ diskBuf' \in [Server -> Seq(Entry)]
          /\ rebuilds' \in [Server -> 0 .. MaxRebuilds]
      <3>1. /\ log' = [log EXCEPT ![s] = file[s]]
            /\ diskBuf' = [diskBuf EXCEPT ![s] = <<>>]
            /\ rebuilds[s] < MaxRebuilds
            /\ rebuilds' = [rebuilds EXCEPT ![s] = @ + 1]
            BY <1>8 DEF Rebuild, LoadFromDisk
      <3>2. log' \in [Server -> Seq(Entry)] BY <3>1 DEF TypeOK
      <3>3. diskBuf' \in [Server -> Seq(Entry)] BY <3>1 DEF TypeOK
      <3>4. rebuilds' \in [Server -> 0 .. MaxRebuilds]
        <4>1. rebuilds \in [Server -> 0 .. MaxRebuilds] BY DEF TypeOK
        <4>2. rebuilds[s] + 1 \in 0 .. MaxRebuilds BY <3>1, <4>1, RaftAssumption
        <4>3. rebuilds' = [rebuilds EXCEPT ![s] = rebuilds[s] + 1] BY <3>1
        <4> QED BY <4>1, <4>2, <4>3, ZenonT(30)
      <3> QED BY <3>2, <3>3, <3>4
    <2>5. /\ currentTerm' = [currentTerm EXCEPT ![s] = 0]
          /\ votedFor' = [votedFor EXCEPT ![s] = None]
          /\ voteCount' = [voteCount EXCEPT ![s] = 0]
          /\ lastApplied' = [lastApplied EXCEPT ![s] = 0]
          BY <1>8 DEF Rebuild
    <2>6. currentTerm' \in [Server -> 0 .. MaxTerm] BY <2>5 DEF TypeOK
    <2>7. votedFor' \in [Server -> Server \cup {None}] BY <2>5 DEF TypeOK
    <2>8. voteCount' \in [Server -> Nat] /\ lastApplied' \in [Server -> Nat]
          BY <2>5, SMTT(30) DEF TypeOK
    <2> QED BY <1>8, <2>2, <2>3, <2>4, <2>6, <2>7, <2>8, ZenonT(30) DEF Rebuild, TypeOK
  <1>9. CASE UNCHANGED vars BY <1>9, ZenonT(30) DEF vars, node, disk, work, TypeOK
  <1> QED BY <1>1, <1>2, <1>3, <1>4, <1>5, <1>6, <1>7, <1>8, <1>9 DEF Next

\* TypeOK holds always.
THEOREM Types == Spec => []TypeOK
  BY InitTypes, TypesKept, PTL DEF Spec

-----------------------------------------------------------------------------
(* Elections.                                                              *)

\* What a reply says, and what a node knows of the votes it has given: they
\* are not of a later term, and the one of its term is the one it remembers.
VoteInv ==
  /\ \A m \in net : m.type = "RAFT_RVR" => m.vote \in {"+1", "+0"}
  /\ \A g \in grants :
        /\ g.life <= rebuilds[g.voter]
        /\ g.life = rebuilds[g.voter] =>
              /\ g.term <= currentTerm[g.voter]
              /\ g.term = currentTerm[g.voter] => votedFor[g.voter] = g.for
  /\ LeadersAlone
  /\ OneVotePerTerm

\* Nobody has voted at the start, and who has no peers leads.
LEMMA InitVotes == Init => VoteInv
  BY DEF Init, VoteInv, LeadersAlone, OneVotePerTerm

\* A vote that is new in its term, or given again, keeps what is known.
LEMMA NewVote ==
  ASSUME TypeOK, VoteInv, NEW s \in Server, NEW t \in 0 .. MaxTerm, NEW c \in Server,
         grants' \in {grants, grants \cup {Granted(s, t, c)}},
         rebuilds' = rebuilds,
         currentTerm' = [currentTerm EXCEPT ![s] = t],
         t >= currentTerm[s],
         grants' # grants => votedFor'[s] = c,
         grants' # grants => t > currentTerm[s] \/ votedFor[s] \in {None, c},
         \A r \in Server \ {s} : votedFor'[r] = votedFor[r],
         t = currentTerm[s] => votedFor'[s] = votedFor[s] \/ votedFor[s] = None
  PROVE /\ \A g \in grants' :
              /\ g.life <= rebuilds'[g.voter]
              /\ g.life = rebuilds'[g.voter] =>
                    /\ g.term <= currentTerm'[g.voter]
                    /\ g.term = currentTerm'[g.voter] => votedFor'[g.voter] = g.for
        /\ OneVotePerTerm'
  <1> DEFINE new == Granted(s, t, c)
  <1>1. /\ currentTerm \in [Server -> 0 .. MaxTerm] /\ rebuilds \in [Server -> 0 .. MaxRebuilds]
        /\ grants \subseteq [voter : Server, life : 0 .. MaxRebuilds,
                             term : 0 .. MaxTerm, for : Server]
        /\ MaxTerm \in Nat /\ MaxRebuilds \in Nat
        /\ None \notin Server
        BY RaftAssumption, ZenonT(30) DEF TypeOK
  <1>2. new.voter = s /\ new.life = rebuilds[s] /\ new.term = t /\ new.for = c
        BY DEF Granted
  <1>3. ASSUME NEW g \in grants
        PROVE /\ g.voter \in Server /\ g.life \in Nat /\ g.term \in Nat /\ g.for \in Server
              /\ currentTerm[g.voter] \in Nat /\ rebuilds[g.voter] \in Nat
        BY <1>1
  <1>4. ASSUME NEW g \in grants
        PROVE /\ g.life <= rebuilds[g.voter]
              /\ g.life = rebuilds[g.voter] => g.term <= currentTerm[g.voter]
              /\ g.life = rebuilds[g.voter] /\ g.term = currentTerm[g.voter] =>
                    votedFor[g.voter] = g.for
        BY DEF VoteInv
  <1>5. ASSUME NEW g \in grants, g.life = rebuilds[g.voter]
        PROVE /\ g.term <= currentTerm'[g.voter]
              /\ g.term = currentTerm'[g.voter] => votedFor'[g.voter] = g.for
    <2>1. CASE g.voter # s BY <1>1, <1>3, <1>4, <1>5, <2>1
    <2>2. CASE g.voter = s
      <3>1. g.term <= currentTerm[s] /\ currentTerm'[s] = t BY <1>1, <1>4, <1>5, <2>2
      <3>2. g.term <= t BY <1>1, <1>3, <3>1
      <3>3. ASSUME g.term = t PROVE votedFor'[s] = g.for
        <4>1. t = currentTerm[s] BY <1>1, <1>3, <3>1, <3>3
        <4>2. votedFor[s] = g.for BY <1>4, <1>5, <2>2, <3>3, <4>1
        <4>3. votedFor[s] # None BY <1>1, <1>3, <4>2
        <4> QED BY <4>1, <4>2, <4>3
      <3> QED BY <2>2, <3>1, <3>2, <3>3
    <2> QED BY <2>1, <2>2
  <1>6. ASSUME grants' # grants, NEW g \in grants, g.voter = s, g.life = rebuilds[s], g.term = t
        PROVE g.for = c
    <2>1. t <= currentTerm[s] BY <1>4, <1>6
    <2>2. t = currentTerm[s] BY <1>1, <2>1
    <2>3. votedFor[s] = g.for BY <1>4, <1>6, <2>2
    <2>4. votedFor[s] # None BY <1>1, <1>3, <2>3
    <2>5. ~ (t > currentTerm[s]) BY <1>1, <2>2
    <2> QED BY <1>6, <2>3, <2>4, <2>5
  <1>7. \A g \in grants' : g \in grants \/ (g = new /\ grants' # grants) OBVIOUS
  <1> HIDE DEF new
  <1>8. ASSUME NEW g \in grants'
        PROVE /\ g.life <= rebuilds'[g.voter]
              /\ g.life = rebuilds'[g.voter] =>
                    /\ g.term <= currentTerm'[g.voter]
                    /\ g.term = currentTerm'[g.voter] => votedFor'[g.voter] = g.for
    <2>1. CASE g \in grants BY <1>4, <1>5, <2>1
    <2>2. CASE g = new /\ grants' # grants BY <1>1, <1>2, <2>2
    <2> QED BY <1>7, <2>1, <2>2
  <1>9. OneVotePerTerm'
    <2> SUFFICES ASSUME NEW g \in grants', NEW h \in grants',
                        g.voter = h.voter, g.life = h.life, g.term = h.term
                 PROVE g.for = h.for
        BY DEF OneVotePerTerm
    <2>1. CASE g \in grants /\ h \in grants BY <2>1 DEF VoteInv, OneVotePerTerm
    <2>2. CASE g = new /\ h = new BY <2>2
    <2>3. CASE g \in grants /\ h = new /\ grants' # grants BY <1>2, <1>6, <2>3
    <2>4. CASE h \in grants /\ g = new /\ grants' # grants BY <1>2, <1>6, <2>4
    <2> QED BY <1>7, <2>1, <2>2, <2>3, <2>4
  <1> QED BY <1>8, <1>9

\* A step that leaves votes, terms and nodes alone keeps what is known of them.
LEMMA VotesUntouched ==
  ASSUME VoteInv, UNCHANGED <<node, rebuilds, grants>>,
         \A m \in net' : m.type = "RAFT_RVR" => m.vote \in {"+1", "+0"}
  PROVE VoteInv'
  BY DEF VoteInv, node, LeadersAlone, OneVotePerTerm

\* No reply says "1".
LEMMA NoVoteCounts ==
  ASSUME VoteInv, NEW m \in net, m.type = "RAFT_RVR" PROVE ~ IsGranted(m.vote)
  <1>1. m.vote = "+1" \/ m.vote = "+0" BY DEF VoteInv
  <1>2. "+1" # "1" /\ "+0" # "1" OBVIOUS
  <1> QED BY <1>1, <1>2 DEF IsGranted

\* Every step keeps what is known of votes.
LEMMA VotesKept == TypeOK /\ VoteInv /\ [Next]_vars => VoteInv'
  <1> SUFFICES ASSUME TypeOK, VoteInv, [Next]_vars PROVE VoteInv' OBVIOUS
  <1>0. \A m \in net : m.type = "RAFT_RVR" => m.vote \in {"+1", "+0"} BY DEF VoteInv
  <1>1. ASSUME NEW s \in Server, Tick(s) PROVE VoteInv'
        BY <1>0, <1>1, VotesUntouched DEF Tick
  <1>2. ASSUME NEW s \in Server, Timeout(s) PROVE VoteInv'
    <2>1. /\ BecomeCandidate(s) /\ state[s] # "Leader"
          /\ UNCHANGED <<peers, rebuilds>>
          BY <1>2 DEF Timeout
    <2>2. currentTerm[s] \in 0 .. MaxTerm /\ currentTerm[s] < MaxTerm /\ MaxTerm \in Nat
          BY <2>1, RaftAssumption DEF BecomeCandidate, TypeOK
    <2>3. currentTerm[s] + 1 \in 0 .. MaxTerm /\ currentTerm[s] + 1 > currentTerm[s]
          BY <2>2
    <2>4. /\ currentTerm' = [currentTerm EXCEPT ![s] = currentTerm[s] + 1]
          /\ votedFor' = [votedFor EXCEPT ![s] = s]
          /\ grants' = grants \cup {Granted(s, currentTerm[s] + 1, s)}
          /\ state' = [state EXCEPT ![s] = "Candidate"]
          BY <2>1 DEF BecomeCandidate
    <2>5. votedFor \in [Server -> Server \cup {None}]
          /\ state \in [Server -> {"Follower", "Candidate", "Leader"}]
          BY ZenonT(30) DEF TypeOK
    <2>6. votedFor'[s] = s /\ \A r \in Server \ {s} : votedFor'[r] = votedFor[r]
          BY <2>4, <2>5
    <2>7. /\ \A g \in grants' :
                /\ g.life <= rebuilds'[g.voter]
                /\ g.life = rebuilds'[g.voter] =>
                      /\ g.term <= currentTerm'[g.voter]
                      /\ g.term = currentTerm'[g.voter] => votedFor'[g.voter] = g.for
          /\ OneVotePerTerm'
      <3> DEFINE t == currentTerm[s] + 1
      <3>1. /\ t \in 0 .. MaxTerm /\ t > currentTerm[s] /\ t >= currentTerm[s]
            /\ t # currentTerm[s]
            BY <2>2, <2>3
      <3>2. /\ grants' = grants \cup {Granted(s, t, s)}
            /\ currentTerm' = [currentTerm EXCEPT ![s] = t]
            BY <2>4
      <3> HIDE DEF t
      <3> QED BY <2>1, <2>6, <3>1, <3>2, NewVote, ZenonT(30)
    <2>8. LeadersAlone'
      <3> SUFFICES ASSUME NEW r \in Server, state'[r] = "Leader" PROVE peers'[r] = {}
          BY DEF LeadersAlone
      <3>1. r # s BY <2>4, <2>5
      <3>2. state[r] = "Leader" BY <2>4, <2>5, <3>1
      <3> QED BY <2>1, <3>2 DEF VoteInv, LeadersAlone
    <2>9. \A m \in net' : m.type = "RAFT_RVR" => m.vote \in {"+1", "+0"}
      <3>1. PICK reached \in SUBSET peers[s] : SendRequestVote(s, reached)
            BY <1>2 DEF Timeout
      <3>2. ASSUME NEW m \in net', m \notin net PROVE m.type = "RAFT_RV"
            BY <3>1, <3>2 DEF SendRequestVote
      <3>3. "RAFT_RV" # "RAFT_RVR" OBVIOUS
      <3> QED BY <1>0, <3>2, <3>3
    <2> QED BY <2>7, <2>8, <2>9 DEF VoteInv
  <1>3. ASSUME NEW s \in Server, HandleRequestVote(s) PROVE VoteInv'
    <2>1. PICK m \in net : m.type = "RAFT_RV" /\ m.to = s /\ (RefuseOld(s, m) \/ Vote(s, m))
          BY <1>3 DEF HandleRequestVote
    <2>2. m \in Request BY <2>1, MessageTypes
    <2>3. m.from \in Server /\ m.term \in 0 .. MaxTerm BY <2>2 DEF Request
    <2>4. \A t, g : VoteReply(m, t, g).vote \in {"+1", "+0"}
          BY DEF VoteReply, VoteText
    <2>5. \A n \in net' : n.type = "RAFT_RVR" => n.vote \in {"+1", "+0"}
      <3>1. PICK t, g : net' = (net \ {m}) \cup {VoteReply(m, t, g)}
            BY <2>1, ZenonT(30) DEF RefuseOld, Vote
      <3>2. VoteReply(m, t, g).vote \in {"+1", "+0"} BY <2>4
      <3>3. ASSUME NEW n \in net', n \notin net PROVE n = VoteReply(m, t, g)
            BY <3>1, <3>3
      <3> QED BY <1>0, <3>2, <3>3
    <2>6. rebuilds' = rebuilds BY <1>3 DEF HandleRequestVote
    <2>7. CASE RefuseOld(s, m)
          BY <2>5, <2>6, <2>7, VotesUntouched, ZenonT(30) DEF RefuseOld
    <2>8. CASE Vote(s, m)
      <3> DEFINE granted == CanVote(s, m) /\ LogOk(s, m)
      <3>1. /\ m.term >= currentTerm[s]
            /\ votedFor' = [votedFor EXCEPT ![s] = IF granted THEN m.from
                                                   ELSE IF m.term > currentTerm[s] THEN None
                                                   ELSE @]
            /\ grants' = IF granted THEN grants \cup {Granted(s, m.term, m.from)} ELSE grants
            /\ peers' = peers
            BY <2>8 DEF Vote
      <3>2. \/ BecomeFollower(s, m.term)
            \/ m.term <= currentTerm[s] /\ UNCHANGED <<state, currentTerm>>
        <4>1. CASE m.term > currentTerm[s] BY <2>8, <4>1 DEF Vote
        <4>2. CASE ~ (m.term > currentTerm[s])
          <5>1. currentTerm[s] \in 0 .. MaxTerm BY SMTT(30) DEF TypeOK
          <5>2. m.term <= currentTerm[s] BY <2>3, <4>2, <5>1
          <5>3. UNCHANGED <<state, currentTerm>> BY <2>8, <4>2 DEF Vote
          <5> QED BY <5>2, <5>3
        <4> QED BY <4>1, <4>2
      <3>3. /\ currentTerm \in [Server -> 0 .. MaxTerm]
            /\ votedFor \in [Server -> Server \cup {None}]
            /\ state \in [Server -> {"Follower", "Candidate", "Leader"}]
            BY DEF TypeOK
      <3>4. currentTerm' = [currentTerm EXCEPT ![s] = m.term]
        <4>1. CASE BecomeFollower(s, m.term) BY <4>1 DEF BecomeFollower
        <4>2. CASE m.term <= currentTerm[s] /\ UNCHANGED <<state, currentTerm>>
          <5>1. m.term = currentTerm[s] BY <2>3, <3>1, <3>3, <4>2
          <5> QED BY <3>3, <4>2, <5>1
        <4> QED BY <3>2, <4>1, <4>2
      <3>5. CanVote(s, m) => m.term > currentTerm[s] \/ votedFor[s] \in {None, m.from}
            BY DEF CanVote
      <3>6. LeadersAlone'
        <4> SUFFICES ASSUME NEW r \in Server, state'[r] = "Leader" PROVE peers'[r] = {}
            BY DEF LeadersAlone
        <4>1. state[r] = "Leader" BY <3>2, <3>3 DEF BecomeFollower
        <4> QED BY <3>1, <4>1 DEF VoteInv, LeadersAlone
      <3>7. \A r \in Server \ {s} : votedFor'[r] = votedFor[r] BY <3>1, <3>3
      <3>8. granted => votedFor'[s] = m.from BY <3>1, <3>3
      <3>9. m.term = currentTerm[s] => votedFor'[s] = votedFor[s] \/ votedFor[s] = None
        <4> SUFFICES ASSUME m.term = currentTerm[s], votedFor[s] # None
                     PROVE votedFor'[s] = votedFor[s]
            OBVIOUS
        <4>1. ~ (m.term > currentTerm[s]) BY <3>3
        <4>2. CASE granted
          <5>1. votedFor[s] = m.from BY <3>5, <4>1, <4>2
          <5> QED BY <3>8, <4>2, <5>1
        <4>3. CASE ~ granted BY <3>1, <3>3, <4>1, <4>3
        <4> QED BY <4>2, <4>3
      <3>10. /\ \A g \in grants' :
                  /\ g.life <= rebuilds'[g.voter]
                  /\ g.life = rebuilds'[g.voter] =>
                        /\ g.term <= currentTerm'[g.voter]
                        /\ g.term = currentTerm'[g.voter] => votedFor'[g.voter] = g.for
             /\ OneVotePerTerm'
        <4>1. /\ grants' \in {grants, grants \cup {Granted(s, m.term, m.from)}}
              /\ grants' # grants => granted
              BY <3>1
        <4> HIDE DEF granted
        <4>2. /\ grants' # grants => votedFor'[s] = m.from
              /\ grants' # grants => m.term > currentTerm[s] \/ votedFor[s] \in {None, m.from}
              BY <3>5, <3>8, <4>1 DEF granted
        <4> QED BY <2>3, <2>6, <3>1, <3>4, <3>7, <3>9, <4>1, <4>2, NewVote, ZenonT(30)
      <3> QED BY <2>5, <3>6, <3>10 DEF VoteInv
    <2> QED BY <2>1, <2>7, <2>8
  <1>4. ASSUME NEW s \in Server, HandleRequestVoteReply(s) PROVE VoteInv'
    <2>1. PICK m \in net :
            /\ m.type = "RAFT_RVR" /\ m.to = s
            /\ net' = net \ {m}
            /\ IF state[s] = "Candidate" /\ m.term > currentTerm[s]
               THEN BecomeFollower(s, m.term) /\ votedFor' = [votedFor EXCEPT ![s] = None]
               ELSE /\ IF state[s] = "Candidate" /\ IsGranted(m.vote)
                       THEN CountVote(s) ELSE UNCHANGED <<state, voteCount>>
                    /\ UNCHANGED <<currentTerm, votedFor>>
          BY <1>4 DEF HandleRequestVoteReply
    <2>2. m \in Reply /\ ~ IsGranted(m.vote) BY <2>1, MessageTypes, NoVoteCounts
    <2>3. m.term \in 0 .. MaxTerm BY <2>2 DEF Reply
    <2>4. UNCHANGED <<peers, rebuilds, grants>> BY <1>4 DEF HandleRequestVoteReply
    <2>5. \A n \in net' : n.type = "RAFT_RVR" => n.vote \in {"+1", "+0"} BY <1>0, <2>1
    <2>6. CASE state[s] = "Candidate" /\ m.term > currentTerm[s]
      <3>1. /\ state' = [state EXCEPT ![s] = "Follower"]
            /\ currentTerm' = [currentTerm EXCEPT ![s] = m.term]
            /\ votedFor' = [votedFor EXCEPT ![s] = None]
            BY <2>1, <2>6 DEF BecomeFollower
      <3>2. /\ currentTerm \in [Server -> 0 .. MaxTerm] /\ MaxTerm \in Nat
            /\ votedFor \in [Server -> Server \cup {None}]
            /\ state \in [Server -> {"Follower", "Candidate", "Leader"}]
            BY RaftAssumption, SMTT(30) DEF TypeOK
      <3>3. LeadersAlone'
        <4> SUFFICES ASSUME NEW r \in Server, state'[r] = "Leader" PROVE peers'[r] = {}
            BY DEF LeadersAlone
        <4>1. state[r] = "Leader" BY <3>1, <3>2
        <4> QED BY <2>4, <4>1 DEF VoteInv, LeadersAlone
      <3>4. /\ m.term >= currentTerm[s] /\ m.term # currentTerm[s]
            /\ \A r \in Server \ {s} : votedFor'[r] = votedFor[r]
            BY <2>3, <2>6, <3>1, <3>2
      <3>5. /\ \A g \in grants' :
                  /\ g.life <= rebuilds'[g.voter]
                  /\ g.life = rebuilds'[g.voter] =>
                        /\ g.term <= currentTerm'[g.voter]
                        /\ g.term = currentTerm'[g.voter] => votedFor'[g.voter] = g.for
            /\ OneVotePerTerm'
        <4>1. grants' = grants /\ rebuilds' = rebuilds BY <2>4
        <4> QED BY <2>3, <3>1, <3>4, <4>1, NewVote, ZenonT(30)
      <3> QED BY <2>5, <3>3, <3>5 DEF VoteInv
    <2>7. CASE ~ (state[s] = "Candidate" /\ m.term > currentTerm[s])
          BY <2>1, <2>2, <2>4, <2>5, <2>7, VotesUntouched, ZenonT(30) DEF node
    <2> QED BY <2>6, <2>7
  <1>5. ASSUME NEW s \in Server, Propose(s) PROVE VoteInv'
        BY <1>0, <1>5, VotesUntouched DEF Propose
  <1>6. ASSUME NEW s \in Server, Store(s) PROVE VoteInv'
        BY <1>0, <1>6, VotesUntouched DEF Store
  <1>7. ASSUME NEW s \in Server, Acknowledge(s) PROVE VoteInv'
        BY <1>0, <1>7, VotesUntouched DEF Acknowledge
  <1>8. ASSUME NEW s \in Server, Rebuild(s) PROVE VoteInv'
    <2>1. PICK P \in SUBSET (Server \ {s}) :
            /\ peers' = [peers EXCEPT ![s] = P]
            /\ state' = [state EXCEPT ![s] = IF P = {} THEN "Leader" ELSE "Follower"]
          BY <1>8, ZenonT(30) DEF Rebuild
    <2>2. /\ currentTerm' = [currentTerm EXCEPT ![s] = 0]
          /\ votedFor' = [votedFor EXCEPT ![s] = None]
          /\ rebuilds' = [rebuilds EXCEPT ![s] = @ + 1]
          /\ UNCHANGED <<net, grants>>
          BY <1>8 DEF Rebuild
    <2>3. /\ peers \in [Server -> SUBSET Server]
          /\ state \in [Server -> {"Follower", "Candidate", "Leader"}]
          /\ currentTerm \in [Server -> 0 .. MaxTerm]
          /\ votedFor \in [Server -> Server \cup {None}]
          /\ rebuilds \in [Server -> 0 .. MaxRebuilds]
          /\ grants \subseteq [voter : Server, life : 0 .. MaxRebuilds,
                               term : 0 .. MaxTerm, for : Server]
          BY ZenonT(30) DEF TypeOK
    <2>4. LeadersAlone'
      <3> SUFFICES ASSUME NEW r \in Server, state'[r] = "Leader" PROVE peers'[r] = {}
          BY DEF LeadersAlone
      <3>1. CASE r = s
        <4>1. P = {} BY <2>1, <2>3, <3>1
        <4> QED BY <2>1, <2>3, <3>1, <4>1
      <3>2. CASE r # s
        <4>1. state[r] = "Leader" /\ peers'[r] = peers[r] BY <2>1, <2>3, <3>2
        <4> QED BY <4>1 DEF VoteInv, LeadersAlone
      <3> QED BY <3>1, <3>2
    <2>5. ASSUME NEW g \in grants'
          PROVE /\ g.life <= rebuilds'[g.voter]
                /\ g.life = rebuilds'[g.voter] =>
                      /\ g.term <= currentTerm'[g.voter]
                      /\ g.term = currentTerm'[g.voter] => votedFor'[g.voter] = g.for
      <3>1. g \in grants BY <2>2
      <3>2. g.voter \in Server /\ g.life \in Nat /\ rebuilds[g.voter] \in Nat
            BY <2>3, <3>1
      <3>3. g.life <= rebuilds[g.voter] BY <3>1 DEF VoteInv
      <3>4. CASE g.voter = s
        <4>1. rebuilds'[g.voter] = rebuilds[g.voter] + 1 BY <2>2, <2>3, <3>2, <3>4
        <4> QED BY <3>2, <3>3, <4>1
      <3>5. CASE g.voter # s
        <4>1. /\ rebuilds'[g.voter] = rebuilds[g.voter]
              /\ currentTerm'[g.voter] = currentTerm[g.voter]
              /\ votedFor'[g.voter] = votedFor[g.voter]
              BY <2>2, <2>3, <3>2, <3>5
        <4> QED BY <3>1, <4>1 DEF VoteInv
      <3> QED BY <3>4, <3>5
    <2>6. OneVotePerTerm' BY <2>2 DEF VoteInv, OneVotePerTerm
    <2>7. \A m \in net' : m.type = "RAFT_RVR" => m.vote \in {"+1", "+0"} BY <1>0, <2>2
    <2> QED BY <2>4, <2>5, <2>6, <2>7 DEF VoteInv
  <1>9. CASE UNCHANGED vars BY <1>0, <1>9, VotesUntouched DEF vars
  <1> QED BY <1>1, <1>2, <1>3, <1>4, <1>5, <1>6, <1>7, <1>8, <1>9 DEF Next

\* LeadersAlone holds always: no election is won, so that whoever leads was
\* built without peers.
THEOREM NoElectionIsWon == Spec => []LeadersAlone
  <1>1. VoteInv => LeadersAlone BY DEF VoteInv
  <1> QED BY <1>1, InitTypes, TypesKept, InitVotes, VotesKept, PTL DEF Spec

\* OneVotePerTerm holds always: no RaftNode votes for two candidates in a term.
THEOREM NobodyVotesTwice == Spec => []OneVotePerTerm
  <1>1. VoteInv => OneVotePerTerm BY DEF VoteInv
  <1> QED BY <1>1, InitTypes, TypesKept, InitVotes, VotesKept, PTL DEF Spec

-----------------------------------------------------------------------------
(* The log and its replay.                                                 *)

\* What holds of one server's log, file and store.
LogOf(s) ==
  /\ log[s] = file[s] \o diskBuf[s]
  /\ lastApplied[s] <= Len(log[s])
  /\ \A i \in 1 .. Len(log[s]) : log[s][i].write <= count[s]
  /\ stage[s] = "idle" => acked[s] = count[s]
  /\ \/ count[s] = 0
     \/ count[s] \in unlogged[s]
     \/ log[s] # <<>> /\ log[s][Len(log[s])].write = count[s]
  /\ (/\ count[s] \notin unlogged[s] /\ stage[s] # "proposed"
      /\ lastApplied[s] = Len(log[s])) => store[s] = count[s]

LogInv == \A s \in Server : LogOf(s)

\* Nothing is written at the start.
LEMMA InitLog == Init => LogInv
  <1> SUFFICES ASSUME Init, NEW s \in Server PROVE LogOf(s) BY DEF LogInv
  <1>1. /\ log[s] = <<>> /\ file[s] = <<>> /\ diskBuf[s] = <<>> /\ lastApplied[s] = 0
        /\ count[s] = 0 /\ acked[s] = 0 /\ store[s] = 0
        BY DEF Init
  <1>2. file[s] \o diskBuf[s] = <<>> /\ Len(log[s]) = 0 BY <1>1
  <1> QED BY <1>1, <1>2 DEF LogOf

\* An element appended to the second of two sequences.
LEMMA AppendToConcat ==
  \A a, b \in Seq(Entry), x \in Entry : Append(a \o b, x) = a \o Append(b, x)
  <1> SUFFICES ASSUME NEW a \in Seq(Entry), NEW b \in Seq(Entry), NEW x \in Entry
               PROVE Append(a \o b, x) = a \o Append(b, x)
      OBVIOUS
  <1>1. <<x>> \in Seq(Entry) OBVIOUS
  <1>2. Append(a \o b, x) = (a \o b) \o <<x>> BY AppendIsConcat, ConcatProperties
  <1>3. Append(b, x) = b \o <<x>> BY AppendIsConcat
  <1> QED BY <1>1, <1>2, <1>3, ConcatAssociative

\* The elements of a concatenation.
LEMMA ConcatElements ==
  ASSUME NEW S, NEW a \in Seq(S), NEW b \in Seq(S)
  PROVE /\ Len(a \o b) = Len(a) + Len(b)
        /\ \A i \in 1 .. Len(a) : i \in 1 .. Len(a \o b) /\ (a \o b)[i] = a[i]
        /\ b # <<>> => (a \o b)[Len(a \o b)] = b[Len(b)]
  <1>1. /\ Len(a) \in Nat /\ Len(b) \in Nat /\ Len(a \o b) = Len(a) + Len(b)
        /\ \A i \in 1 .. Len(a) + Len(b) :
              (a \o b)[i] = IF i <= Len(a) THEN a[i] ELSE b[i - Len(a)]
        BY ConcatProperties
  <1>2. \A i \in 1 .. Len(a) : i \in 1 .. Len(a \o b) /\ (a \o b)[i] = a[i] BY <1>1
  <1>3. ASSUME b # <<>> PROVE (a \o b)[Len(a \o b)] = b[Len(b)]
    <2>1. Len(b) > 0 BY <1>3
    <2> DEFINE n == Len(a) + Len(b)
    <2>2. n \in 1 .. Len(a) + Len(b) /\ ~ (n <= Len(a)) /\ n - Len(a) = Len(b)
          BY <1>1, <2>1
    <2>3. (a \o b)[n] = b[n - Len(a)] BY <1>1, <2>2
    <2> QED BY <1>1, <2>2, <2>3
  <1> QED BY <1>1, <1>2, <1>3

\* What LogOf looks at.
Own(s) == <<log[s], file[s], diskBuf[s], lastApplied[s], count[s], stage[s],
            acked[s], unlogged[s], store[s]>>

\* It is enough to look at the server that takes the step.
LEMMA OnlyOne ==
  ASSUME LogInv, NEW s \in Server, LogOf(s)',
         \A r \in Server \ {s} : Own(r)' = Own(r)
  PROVE LogInv'
  <1> SUFFICES ASSUME NEW r \in Server \ {s} PROVE LogOf(r)' BY DEF LogInv
  <1>1. /\ log'[r] = log[r] /\ file'[r] = file[r] /\ diskBuf'[r] = diskBuf[r]
        /\ lastApplied'[r] = lastApplied[r] /\ count'[r] = count[r]
        /\ stage'[r] = stage[r] /\ acked'[r] = acked[r]
        /\ unlogged'[r] = unlogged[r] /\ store'[r] = store[r]
        BY ZenonT(30) DEF Own
  <1>2. LogOf(r) BY DEF LogInv
  <1> QED BY <1>1, <1>2, ZenonT(30) DEF LogOf

\* The numbers and sequences of one server.
LEMMA OwnTypes ==
  ASSUME TypeOK, NEW s \in Server
  PROVE /\ log[s] \in Seq(Entry) /\ file[s] \in Seq(Entry) /\ diskBuf[s] \in Seq(Entry)
        /\ lastApplied[s] \in Nat /\ count[s] \in Nat /\ store[s] \in Nat
        /\ unlogged[s] \subseteq 1 .. MaxWrites
        /\ Len(log[s]) \in Nat
        /\ \A i \in 1 .. Len(log[s]) : log[s][i].write \in Nat \ {0}
  <1>1. /\ log[s] \in Seq(Entry) /\ file[s] \in Seq(Entry) /\ diskBuf[s] \in Seq(Entry)
        /\ lastApplied[s] \in Nat /\ count[s] \in Nat /\ store[s] \in Nat
        /\ unlogged[s] \subseteq 1 .. MaxWrites
        BY RaftAssumption, SMTT(30) DEF TypeOK
  <1>2. ASSUME NEW i \in 1 .. Len(log[s]) PROVE log[s][i].write \in Nat \ {0}
    <2>1. log[s][i] \in Entry BY <1>1
    <2> QED BY <2>1, RaftAssumption DEF Entry
  <1> QED BY <1>1, <1>2

\* A tick writes the buffer and applies the log.
LEMMA TickLog ==
  ASSUME TypeOK, LogInv, NEW s \in Server, FlushDisk(s), ApplyPending(s),
         UNCHANGED <<log, stage, count, acked, unlogged>>
  PROVE LogInv'
  <1>1. LogOf(s) BY DEF LogInv
  <1>2. /\ file \in [Server -> Seq(Entry)] /\ diskBuf \in [Server -> Seq(Entry)]
        /\ lastApplied \in [Server -> Nat] /\ store \in [Server -> 0 .. MaxWrites]
        BY DEF TypeOK
  <1>3. /\ file'[s] = file[s] \o diskBuf[s] /\ diskBuf'[s] = <<>>
        /\ lastApplied'[s] = Len(log[s])
        /\ store'[s] = IF lastApplied[s] < Len(log[s])
                       THEN log[s][Len(log[s])].write ELSE store[s]
        BY <1>2 DEF FlushDisk, ApplyPending
  <1>4. \A r \in Server \ {s} : Own(r)' = Own(r)
        BY <1>2 DEF FlushDisk, ApplyPending, Own
  <1>5. LogOf(s)'
    <2>1. log'[s] = file'[s] \o diskBuf'[s]
      <3>1. log[s] \in Seq(Entry) BY OwnTypes
      <3>2. log[s] \o <<>> = log[s] BY <3>1
      <3> QED BY <1>1, <1>3, <3>2 DEF LogOf
    <2>2. ASSUME count[s] \notin unlogged[s], stage[s] # "proposed"
          PROVE store'[s] = count[s]
      <3>1. CASE lastApplied[s] < Len(log[s])
        <4>1. Len(log[s]) \in 1 .. Len(log[s]) BY <3>1, OwnTypes
        <4>2. log[s][Len(log[s])].write \in Nat \ {0}
              /\ log[s][Len(log[s])].write <= count[s]
              BY <1>1, <4>1, OwnTypes, ZenonT(30) DEF LogOf
        <4>3. count[s] # 0 BY <4>2, OwnTypes
        <4>4. log[s][Len(log[s])].write = count[s] BY <1>1, <2>2, <4>3, ZenonT(30) DEF LogOf
        <4> QED BY <1>3, <3>1, <4>4
      <3>2. CASE ~ (lastApplied[s] < Len(log[s]))
        <4>0. lastApplied[s] <= Len(log[s]) BY <1>1, ZenonT(30) DEF LogOf
        <4>1. lastApplied[s] = Len(log[s]) BY <3>2, <4>0, OwnTypes
        <4> QED BY <1>1, <1>3, <2>2, <3>2, <4>1, ZenonT(30) DEF LogOf
      <3> QED BY <3>1, <3>2
    <2>3. lastApplied'[s] <= Len(log'[s]) BY <1>3, OwnTypes
    <2> QED BY <1>1, <2>1, <2>2, <2>3, ZenonT(30) DEF LogOf
  <1> QED BY <1>4, <1>5, OnlyOne

\* propose puts the write at the end of log and buffer, or refuses it.
LEMMA ProposeLog ==
  ASSUME TypeOK, LogInv, NEW s \in Server, Propose(s)
  PROVE LogInv'
  <1> DEFINE w == count[s] + 1
             e == [term |-> currentTerm[s], write |-> w]
  <1>1. LogOf(s) BY DEF LogInv
  <1>2. /\ log \in [Server -> Seq(Entry)] /\ diskBuf \in [Server -> Seq(Entry)]
        /\ count \in [Server -> 0 .. MaxWrites]
        /\ stage \in [Server -> {"idle", "proposed", "queued"}]
        /\ unlogged \in [Server -> SUBSET (1 .. MaxWrites)]
        BY SMTT(30) DEF TypeOK
  <1>3. /\ count' = [count EXCEPT ![s] = w]
        /\ stage' = [stage EXCEPT ![s] = "proposed"]
        /\ UNCHANGED <<lastApplied, file, store, acked>>
        BY DEF Propose
  <1>4. count'[s] = w /\ stage'[s] = "proposed" BY <1>2, <1>3
  <1>5. CASE state[s] = "Leader"
    <2>1. /\ log' = [log EXCEPT ![s] = Append(log[s], e)]
          /\ diskBuf' = [diskBuf EXCEPT ![s] = Append(diskBuf[s], e)]
          /\ unlogged' = unlogged
          BY <1>5 DEF Propose
    <2>2. log'[s] = Append(log[s], e) /\ diskBuf'[s] = Append(diskBuf[s], e)
          BY <1>2, <2>1, SMTT(30)
    <2>3. \A r \in Server \ {s} : Own(r)' = Own(r)
          BY <1>2, <1>3, <2>1 DEF Own
    <2>4. e.write = w /\ w \in Nat /\ count[s] \in Nat /\ count[s] <= w BY OwnTypes
    <2> HIDE DEF e
    <2>5. log'[s] = file'[s] \o diskBuf'[s]
      <3>1. /\ log[s] = file[s] \o diskBuf[s] /\ file'[s] = file[s]
            /\ file[s] \in Seq(Entry) /\ diskBuf[s] \in Seq(Entry)
            BY <1>1, <1>3, OwnTypes DEF LogOf
      <3>2. e \in Entry
        <4>1. w \in 1 .. MaxWrites
          <5>1. w <= MaxWrites BY DEF Propose
          <5> QED BY <2>4, <5>1, OwnTypes, RaftAssumption
        <4> QED BY <4>1 DEF e, Entry, TypeOK
      <3>3. Append(file[s] \o diskBuf[s], e) = file[s] \o Append(diskBuf[s], e)
        <4>1. file[s] \in Seq(Entry) /\ diskBuf[s] \in Seq(Entry) BY <3>1
        <4> QED BY <4>1, <3>2, AppendToConcat, ZenonT(30)
      <3> QED BY <2>2, <3>1, <3>3, SMTT(30)
    <2>6. Len(log'[s]) = Len(log[s]) + 1 /\ log'[s][Len(log'[s])] = e
          BY <2>2, OwnTypes
    <2>7. lastApplied'[s] <= Len(log'[s])
      <3>1. lastApplied[s] <= Len(log[s]) BY <1>1, ZenonT(30) DEF LogOf
      <3> QED BY <1>3, <2>6, <3>1, OwnTypes
    <2>8. ASSUME NEW i \in 1 .. Len(log'[s]) PROVE log'[s][i].write <= w
      <3>1. CASE i = Len(log'[s]) BY <2>4, <2>6, <3>1
      <3>2. CASE i # Len(log'[s])
        <4>1. i \in 1 .. Len(log[s]) BY <2>6, <3>2, OwnTypes
        <4>2. log'[s][i] = log[s][i] BY <2>2, <4>1, OwnTypes
        <4>3. log[s][i].write <= count[s] /\ log[s][i].write \in Nat
              BY <1>1, <4>1, OwnTypes, ZenonT(30) DEF LogOf
        <4> QED BY <2>4, <4>2, <4>3
      <3> QED BY <3>1, <3>2
    <2>9. log'[s] # <<>> /\ log'[s][Len(log'[s])].write = w
          BY <2>2, <2>4, <2>6, OwnTypes, SMTT(30)
    <2>10. LogOf(s)' BY <1>4, <2>5, <2>7, <2>8, <2>9, ZenonT(30) DEF LogOf
    <2> QED BY <2>3, <2>10, OnlyOne
  <1>6. CASE state[s] # "Leader"
    <2>1. /\ unlogged' = [unlogged EXCEPT ![s] = @ \cup {w}]
          /\ log' = log /\ diskBuf' = diskBuf
          BY <1>6 DEF Propose
    <2>2. w \in unlogged'[s] BY <1>2, <2>1, SMTT(30)
    <2>3. \A r \in Server \ {s} : Own(r)' = Own(r)
          BY <1>2, <1>3, <2>1, SMTT(30) DEF Own
    <2>4. ASSUME NEW i \in 1 .. Len(log[s]) PROVE log[s][i].write <= w
      <3>1. log[s][i].write <= count[s] /\ log[s][i].write \in Nat
            BY <1>1, OwnTypes, ZenonT(30) DEF LogOf
      <3> QED BY <3>1, OwnTypes
    <2> HIDE DEF w
    <2>5. LogOf(s)' BY <1>1, <1>3, <1>4, <2>1, <2>2, <2>4, ZenonT(30) DEF LogOf
    <2> QED BY <2>3, <2>5, OnlyOne
  <1> QED BY <1>5, <1>6

\* A rebuild reads the file; what was in the buffer is unlogged from then on.
LEMMA RebuildLog ==
  ASSUME TypeOK, LogInv, NEW s \in Server, Rebuild(s)
  PROVE LogInv'
  <1>1. LogOf(s) BY DEF LogInv
  <1>2. /\ log \in [Server -> Seq(Entry)] /\ diskBuf \in [Server -> Seq(Entry)]
        /\ lastApplied \in [Server -> Nat]
        /\ unlogged \in [Server -> SUBSET (1 .. MaxWrites)]
        BY SMTT(30) DEF TypeOK
  <1> DEFINE lost == {diskBuf[s][i].write : i \in DOMAIN diskBuf[s]}
  <1>3. /\ log' = [log EXCEPT ![s] = file[s]]
        /\ lastApplied' = [lastApplied EXCEPT ![s] = 0]
        /\ diskBuf' = [diskBuf EXCEPT ![s] = <<>>]
        /\ unlogged' = [unlogged EXCEPT ![s] = unlogged[s] \cup lost]
        /\ UNCHANGED <<file, store, stage, count, acked>>
        BY DEF Rebuild, LoadFromDisk
  <1>4. /\ log'[s] = file[s] /\ lastApplied'[s] = 0 /\ diskBuf'[s] = <<>>
        /\ unlogged'[s] = unlogged[s] \cup lost
        BY <1>2, <1>3, SMTT(30)
  <1>5. \A r \in Server \ {s} : Own(r)' = Own(r) BY <1>2, <1>3 DEF Own
  <1>6. /\ file[s] \in Seq(Entry) /\ diskBuf[s] \in Seq(Entry)
        /\ log[s] = file[s] \o diskBuf[s]
        BY <1>1, OwnTypes DEF LogOf
  <1>7. /\ Len(file[s]) \in Nat /\ Len(log[s]) = Len(file[s]) + Len(diskBuf[s])
        /\ Len(diskBuf[s]) \in Nat
        BY <1>6
  <1>8. log'[s] = file'[s] \o diskBuf'[s]
    <2>1. file[s] \o <<>> = file[s] BY <1>6
    <2> QED BY <1>3, <1>4, <2>1, ZenonT(30)
  <1>9. ASSUME NEW i \in 1 .. Len(file[s]) PROVE file[s][i].write <= count[s]
    <2>0. /\ i \in 1 .. Len(file[s] \o diskBuf[s])
          /\ (file[s] \o diskBuf[s])[i] = file[s][i]
      <3>1. file[s] \in Seq(Entry) /\ diskBuf[s] \in Seq(Entry) BY <1>6
      <3> QED BY <3>1, ConcatElements, ZenonT(30)
    <2>1. i \in 1 .. Len(log[s]) BY <1>6, <2>0, ZenonT(30)
    <2>2. log[s][i] = file[s][i] BY <1>6, <2>0, ZenonT(30)
    <2> QED BY <1>1, <2>1, <2>2, ZenonT(30) DEF LogOf
  <1>10. ASSUME count[s] # 0, count[s] \notin unlogged'[s]
         PROVE file[s] # <<>> /\ file[s][Len(file[s])].write = count[s]
    <2>1. count[s] \notin unlogged[s] /\ count[s] \notin lost BY <1>4, <1>10
    <2>2. log[s] # <<>> /\ log[s][Len(log[s])].write = count[s]
          BY <1>1, <1>10, <2>1, ZenonT(30) DEF LogOf
    <2>3. diskBuf[s] = <<>>
      <3> SUFFICES ASSUME diskBuf[s] # <<>> PROVE FALSE OBVIOUS
      <3>1. Len(diskBuf[s]) \in DOMAIN diskBuf[s] BY <1>6
      <3>2. log[s][Len(log[s])] = diskBuf[s][Len(diskBuf[s])]
        <4> DEFINE both == file[s] \o diskBuf[s]
        <4>1. both[Len(both)] = diskBuf[s][Len(diskBuf[s])]
          <5>1. file[s] \in Seq(Entry) /\ diskBuf[s] \in Seq(Entry) BY <1>6
          <5> QED BY <5>1, ConcatElements, ZenonT(30)
        <4>2. log[s] = both BY <1>6
        <4> HIDE DEF both
        <4> QED BY <4>1, <4>2, ZenonT(30)
      <3> QED BY <2>1, <2>2, <3>1, <3>2
    <2>4. log[s] = file[s] BY <1>6, <2>3
    <2> QED BY <2>2, <2>4
  <1> HIDE DEF lost
  <1>11. ASSUME count[s] \notin unlogged'[s], stage[s] # "proposed", Len(file[s]) = 0
         PROVE store[s] = count[s]
    <2>1. count[s] = 0 BY <1>6, <1>10, <1>11
    <2>2. log[s] = <<>>
      <3> SUFFICES ASSUME log[s] # <<>> PROVE FALSE OBVIOUS
      <3>1. Len(log[s]) \in 1 .. Len(log[s]) BY OwnTypes
      <3>2. log[s][Len(log[s])].write <= 0 /\ log[s][Len(log[s])].write \in Nat \ {0}
            BY <1>1, <2>1, <3>1, OwnTypes, ZenonT(30) DEF LogOf
      <3> QED BY <3>2
    <2>3. lastApplied[s] = Len(log[s])
      <3>1. lastApplied[s] <= Len(log[s]) BY <1>1, ZenonT(30) DEF LogOf
      <3> QED BY <2>2, <3>1, OwnTypes
    <2>4. count[s] \notin unlogged[s] BY <1>4, <1>11
    <2> QED BY <1>1, <1>11, <2>3, <2>4 DEF LogOf
  <1>12. LogOf(s)'
    <2>1. lastApplied'[s] <= Len(log'[s]) BY <1>4, <1>7
    <2> QED BY <1>1, <1>3, <1>4, <1>8, <1>9, <1>10, <1>11, <2>1, ZenonT(30) DEF LogOf
  <1> QED BY <1>5, <1>12, OnlyOne

\* Every step keeps what is known of log and store.
LEMMA LogKept == TypeOK /\ LogInv /\ [Next]_vars => LogInv'
  <1> SUFFICES ASSUME TypeOK, LogInv, [Next]_vars PROVE LogInv' OBVIOUS
  <1>1. ASSUME UNCHANGED <<disk, work>> PROVE LogInv'
        BY <1>1, ZenonT(30) DEF disk, work, LogInv, LogOf
  <1>2. ASSUME NEW s \in Server, Tick(s) PROVE LogInv' BY <1>2, TickLog DEF Tick
  <1>3. ASSUME NEW s \in Server, Timeout(s) PROVE LogInv' BY <1>3, TickLog DEF Timeout
  <1>4. ASSUME NEW s \in Server, HandleRequestVote(s) PROVE LogInv'
        BY <1>1, <1>4 DEF HandleRequestVote
  <1>5. ASSUME NEW s \in Server, HandleRequestVoteReply(s) PROVE LogInv'
        BY <1>1, <1>5 DEF HandleRequestVoteReply
  <1>6. ASSUME NEW s \in Server, Store(s) PROVE LogInv'
    <2>1. LogOf(s) BY DEF LogInv
    <2>2. /\ store \in [Server -> 0 .. MaxWrites]
          /\ stage \in [Server -> {"idle", "proposed", "queued"}]
          BY DEF TypeOK
    <2>3. /\ store' = [store EXCEPT ![s] = count[s]]
          /\ stage' = [stage EXCEPT ![s] = "queued"]
          /\ UNCHANGED <<disk, count, acked, unlogged>>
          BY <1>6 DEF Store
    <2>4. store'[s] = count[s] /\ stage'[s] = "queued" BY <2>2, <2>3, SMTT(30)
    <2>5. \A r \in Server \ {s} : Own(r)' = Own(r) BY <2>2, <2>3 DEF Own, disk
    <2>6. LogOf(s)' BY <2>1, <2>3, <2>4, ZenonT(30) DEF LogOf, disk
    <2> QED BY <2>5, <2>6, OnlyOne
  <1>7. ASSUME NEW s \in Server, Acknowledge(s) PROVE LogInv'
    <2>1. LogOf(s) BY DEF LogInv
    <2>2. /\ acked \in [Server -> 0 .. MaxWrites]
          /\ stage \in [Server -> {"idle", "proposed", "queued"}]
          BY DEF TypeOK
    <2>3. /\ stage[s] = "queued"
          /\ acked' = [acked EXCEPT ![s] = count[s]]
          /\ stage' = [stage EXCEPT ![s] = "idle"]
          /\ UNCHANGED <<disk, store, count, unlogged>>
          BY <1>7 DEF Acknowledge
    <2>4. acked'[s] = count[s] /\ stage[s] # "proposed" BY <2>2, <2>3
    <2>5. \A r \in Server \ {s} : Own(r)' = Own(r) BY <2>2, <2>3 DEF Own, disk
    <2>6. LogOf(s)' BY <2>1, <2>3, <2>4, ZenonT(30) DEF LogOf, disk
    <2> QED BY <2>5, <2>6, OnlyOne
  <1>8. CASE UNCHANGED vars BY <1>1, <1>8 DEF vars
  <1> QED BY <1>2, <1>3, <1>4, <1>5, <1>6, <1>7, <1>8, ProposeLog, RebuildLog DEF Next

\* UndoneOnlyIfUnlogged holds always: a write that reached the file is not
\* undone by a rebuild.
THEOREM LoggedWritesStay == Spec => []UndoneOnlyIfUnlogged
  <1>1. LogInv => UndoneOnlyIfUnlogged
    <2> SUFFICES ASSUME LogInv, NEW s \in Server,
                        stage[s] = "idle", lastApplied[s] = Len(log[s]),
                        acked[s] \notin unlogged[s]
                 PROVE store[s] = acked[s]
        BY DEF UndoneOnlyIfUnlogged
    <2>1. LogOf(s) BY DEF LogInv
    <2>2. stage[s] # "proposed" OBVIOUS
    <2> QED BY <2>1, <2>2, ZenonT(30) DEF LogOf
  <1> QED BY <1>1, InitTypes, TypesKept, InitLog, LogKept, PTL DEF Spec
=============================================================================
