------------------------------ MODULE JoinSteps ------------------------------
(***************************************************************************)
(* The invariants of joins, and what single steps do to them, for every    *)
(* number of servers and keys, every ring and every bound on joins and     *)
(* faults.                                                                 *)
(*                                                                         *)
(* What the messages under way say is as much part of the invariants as    *)
(* the state of the servers.  Types holds always.  Calm, Lone and Solo are *)
(* about behaviours without rough faults, without crossed joins, and       *)
(* without either; Solo follows one join from the question to the moment   *)
(* its news have reached every server.  Cross is about joins that cross,   *)
(* without faults.  Here every step keeps Types, Calm, Lone and Cross, and *)
(* the news of a single join spread; JoinProofs does the rest.             *)
(*                                                                         *)
(* What holds of each handler is a step of the lemma about all of them:    *)
(* TypesStep, CalmLone, CrossStep, FloodHandle.                            *)
(***************************************************************************)
EXTENDS Routing, TLAPS

-----------------------------------------------------------------------------
(* The invariants.                                                         *)

News == {"NODEIN", "NODEIN new"}

Kinds == {"GETNETWORK", "NETWORK", "HELLO", "OK", "NODEIN", "NODEIN new", "PUSH",
          "SET", "SYNCDONE", "NODEOUT"}

Ids == Server \cup {-s : s \in Server}

Message ==
    [kind : Kinds, from : Server, to : Server, who : SUBSET Ids, keys : SUBSET Keys]

\* Messages go from one server to another, news are about one server that has
\* heard of itself, and nobody takes itself in.
Good(m) ==
    /\ m \in Message
    /\ m.kind # "PUSH" => m.from # m.to
    /\ m.kind \in {"NETWORK", "PUSH"} => m.who \subseteq Server
    /\ m.kind \in News => \E n \in Server : m.who = {n} /\ n \in gossip[n]
    /\ m.kind = "NODEIN new" => m.to \notin m.who

MailTypes == \A m \in Mail : Good(m)

\* Nobody connects to itself.
OtherPeer ==
    \A s \in Server :
        /\ main[s] \in {"asks", "greets", "connects"} => peer[s] # s
        /\ s \notin Range(connects[s])

HistoryTypes ==
    /\ gossip \in [Server -> SUBSET Ids]
    /\ counted \in [Server -> SUBSET Server] /\ early \in [Server -> SUBSET Keys]
    /\ done \in [Server -> [Server -> Nat]] /\ crossed \in BOOLEAN
    /\ case \in Cases

Bagged == net \in [Mail -> Nat \ {0}]

Types == TypeOK /\ HistoryTypes /\ Bagged /\ MailTypes /\ OtherPeer

\* The servers that news under way are about, or that somebody will connect to.
Named ==
    {n \in Server : \/ \E m \in Mail : m.kind \in News /\ n \in m.who
                    \/ \E s \in Server : n \in Range(connects[s])}

\* While all faults were calm, only their servers are down, and no server is
\* about to connect to one that is.
Calm ==
    (\A f \in faults : f[2] = "calm") =>
        /\ \A s \in Server : main[s] = "down" => \E f \in faults : f[1] = s
        /\ \A n \in Named : main[n] \notin Away

\* All that is under way is about j, and others wait only for it.
Only(j) ==
    /\ Named \subseteq {j}
    /\ \A s \in Server : /\ main[s] = "connects" => peer[s] = j
                         /\ main[s] \in {"asks", "greets"} => s = j
    /\ main[j] \in {"asks", "greets"} =>
           Named = {} /\ \A s \in Server : main[s] # "connects"

Lone == ~ crossed => \E j \in Server : Only(j)

-----------------------------------------------------------------------------
(* One join among servers that run.                                        *)

Started == {s \in Server : main[s] # "off"}

\* A server that has not started.
Blank(s) ==
    topo[s] = {s} /\ conn[s] = {} /\ gossip[s] = {} /\ connects[s] = <<>>

\* The servers C know each other, and j to the extent that they heard of it.
Cluster(C, j) ==
    \A c \in C :
        /\ main[c] \in {"up", "connects"}
        /\ gossip[c] \subseteq C \cup {j}
        /\ topo[c] = C \cup (gossip[c] \cap {j})
        /\ C \ {c} \subseteq conn[c] /\ conn[c] \subseteq C \cup {j}

\* Nobody is about to connect.
Still == \A s \in Server : connects[s] = <<>> /\ main[s] # "connects"

Settled ==
    /\ Mail = {} /\ Still
    /\ \A s \in Started : /\ main[s] = "up" /\ gossip[s] \subseteq Started
                          /\ topo[s] = Started /\ conn[s] = Started \ {s}

\* m is under way, and nothing else.
Single(m) == Mail = {m} /\ net[m] = 1

Asks(j, C) ==
    /\ main[j] = "asks" /\ peer[j] \in C /\ Blank(j) /\ Still
    /\ \A c \in C : j \notin gossip[c] /\ j \notin conn[c]
    /\ \/ Single(Tell("GETNETWORK", j, peer[j]))
       \/ Single(Msg("NETWORK", peer[j], j, C, {}))

Greets(j, C) ==
    /\ main[j] = "greets" /\ peer[j] \in C /\ gossip[j] = {} /\ Still
    /\ topo[j] = C \cup {j} /\ conn[j] = {peer[j]} /\ counted[j] = C
    /\ \A c \in C : j \notin gossip[c] /\ (j \in conn[c] => c = peer[j])
    /\ Single(Tell("HELLO", j, peer[j])) \/ Single(Tell("OK", peer[j], j))

\* News of j are on their way to s.
Told(s) == \E m \in Mail : m.kind \in News /\ m.to = s

\* The server b that j greeted tells all others.
Spreads(j, C, b) ==
    /\ j \in gossip[b] \/ Told(b)
    /\ j \in gossip[b] => \A c \in C : j \in gossip[c] \/ Told(c)

\* One that has heard of j is connected to it, or connects.
Connects(j, c) ==
    /\ j \in gossip[c] => \/ j \in conn[c] \/ j \in Range(connects[c])
                          \/ main[c] = "connects"
    /\ connects[c] # <<>> \/ main[c] = "connects" => j \in gossip[c]
    /\ Range(connects[c]) \subseteq {j}
    /\ j \in conn[c] => c \in conn[j]
    /\ main[c] = "connects" => /\ peer[c] = j
                               /\ Tell("HELLO", c, j) \in Mail \/ c \in conn[j]

\* What is under way while the news spread.
Carried(m, j, C) ==
    /\ m.kind \notin {"GETNETWORK", "NETWORK", "NODEOUT"}
    /\ m.kind \in News \cup {"PUSH"} => m.who = {j}
    /\ m.kind = "PUSH" => m.to \in C
    /\ m.kind \in {"HELLO", "SET", "SYNCDONE"} => m.to = j /\ m.from \in C

-----------------------------------------------------------------------------
(* One push for each of at most two servers.                               *)

Few(C) == \A x, y, z \in C : x = y \/ y = z \/ x = z

\* The steps of the push of t to j.  j told b, and b the other server.
In(j, b, t) == Msg("NODEIN", IF t = b THEN j ELSE b, t, {j}, {})
New(j, b, t) == Msg("NODEIN new", IF t = b THEN j ELSE b, t, {j}, {})
Pushes(j, t) == Msg("PUSH", t, t, {j}, {})
Done(j, t) == Tell("SYNCDONE", t, j)

\* News that t will find to be new, and a connect under way.
Unheard(j, b, t) == IF j \in gossip[t] THEN 0 ELSE Copies(In(j, b, t))
Connecting(t) == IF main[t] = "connects" THEN 1 ELSE 0

\* The pushes of t to j that are under way, or over.
Work(j, b, t) ==
    Unheard(j, b, t) + Copies(New(j, b, t)) + Len(connects[t]) + Connecting(t)
        + Copies(Pushes(j, t)) + Copies(Done(j, t)) + done[j][t]

OfPush(j, C, b, m) ==
    /\ m.kind = "NODEIN" /\ m.to \in C /\ j \notin gossip[m.to] => m = In(j, b, m.to)
    /\ m.kind = "NODEIN new" => m = New(j, b, m.to)
    /\ m.kind = "PUSH" => m = Pushes(j, m.to)
    /\ m.kind = "SYNCDONE" => m = Done(j, m.from)

OnePush(j, C, b) ==
    /\ \A t \in C : /\ Work(j, b, t) <= 1
                    /\ New(j, b, t) \in Mail => j \notin gossip[t]
                    /\ t # b /\ j \notin gossip[b] => Work(j, b, t) = 0 /\ j \notin gossip[t]
    /\ \A m \in Mail : OfPush(j, C, b, m)

-----------------------------------------------------------------------------
(* The whole of one join.                                                  *)

Floods(j, C) ==
    /\ main[j] = "up" /\ j \in gossip[j] /\ gossip[j] \subseteq C \cup {j}
    /\ connects[j] = <<>> /\ topo[j] = C \cup {j} /\ conn[j] \subseteq C
    /\ counted[j] = C /\ peer[j] \in C
    /\ Spreads(j, C, peer[j])
    /\ \A m \in Mail : Carried(m, j, C)
    /\ \A c \in C : Connects(j, c)

Joins(j, C) ==
    /\ Started = C \cup {j} /\ j \notin C /\ Cluster(C, j)
    /\ Asks(j, C) \/ Greets(j, C) \/ Floods(j, C)
    /\ Few(C) /\ Floods(j, C) => OnePush(j, C, peer[j])

\* What a server knows of those that push their data to it.
Books(s) ==
    /\ ~ Doubled(s) =>
           /\ pending[s] = Cardinality({t \in counted[s] : done[s][t] = 0})
           /\ syncing[s] \/ pending[s] = 0
    /\ main[s] \in {"off", "asks", "greets"} => \A t \in Server : done[s][t] = 0
    /\ early[s] # {} => Doubled(s)
    /\ Few(counted[s]) => ~ Doubled(s)

Solo ==
    ~ crossed /\ faults = {} =>
        /\ \A s \in Server \ Started : Blank(s)
        /\ \A s \in Server : Books(s)
        /\ Settled \/ \E j \in Server, C \in SUBSET Server : Joins(j, C)

\* How the servers of a set are counted: CountsHold.
Counts ==
    \A S \in SUBSET Server :
        /\ Cardinality(S) \in Nat /\ (Cardinality(S) = 0 <=> S = {})
        /\ \A x \in S : Cardinality(S \ {x}) = Cardinality(S) - 1

-----------------------------------------------------------------------------
(* Messages under way.                                                     *)

\* What is under way after one of each message of M is gone and S was sent.
LEMMA Exchanging ==
    ASSUME NEW S, NEW M \in SUBSET Mail, Exchange(M, S), Bagged
    PROVE  /\ Bagged' /\ Mail' \subseteq Mail \cup Taken(S)
           /\ Mail \ M \subseteq Mail' /\ Taken(S) \subseteq Mail'
           /\ \A x : Copies(x)' = Copies(x) + (IF x \in Taken(S) THEN 1 ELSE 0)
                                    - (IF x \in M THEN 1 ELSE 0)
<1>1. PICK T : T = Taken(S)
  BY Zenon
<1>2. PICK R : R = {x \in Mail : x \in M => net[x] > 1}
  BY Zenon
<1>3. net' = [x \in R \cup T |-> Copies(x) + (IF x \in T THEN 1 ELSE 0)
                                         - (IF x \in M THEN 1 ELSE 0)]
  BY <1>1, <1>2, Zenon DEF Exchange
<1>4. Mail' = R \cup T
  BY <1>3, Zenon DEF Mail
<1>5. \A x : /\ Copies(x) \in Nat /\ (x \in Mail => Copies(x) = net[x] /\ Copies(x) > 0)
             /\ (x \notin Mail => Copies(x) = 0)
  BY DEF Copies, Bagged
<1>6. \A x \in Mail' : net'[x] = Copies(x) + (IF x \in T THEN 1 ELSE 0)
                                         - (IF x \in M THEN 1 ELSE 0)
  BY <1>3, <1>4, Zenon
<1>7. \A x : Copies(x)' = Copies(x) + (IF x \in T THEN 1 ELSE 0)
                             - (IF x \in M THEN 1 ELSE 0)
  <2>1. \A x : Copies(x)' = IF x \in Mail' THEN net'[x] ELSE 0
    BY Zenon DEF Copies
  <2>2. \A x : x \notin Mail' => /\ x \notin T
                                /\ \/ x \notin Mail /\ x \notin M
                                   \/ x \in M /\ Copies(x) = 1
    BY <1>2, <1>4, <1>5
  <2>3. QED
    BY <1>5, <1>6, <2>1, <2>2
<1>8. Bagged'
  <2>1. \A x \in Mail' : net'[x] \in Nat \ {0}
    BY <1>2, <1>4, <1>5, <1>6
  <2>2. net' = [x \in Mail' |-> net'[x]]
    BY <1>3, <1>4, Zenon
  <2>3. QED
    BY <2>1, <2>2, Zenon DEF Bagged
<1>9. QED
  BY <1>1, <1>2, <1>4, <1>7, <1>8, Zenon

\* What is under way after a send.
LEMMA Sending ==
    ASSUME NEW S, Send(S), Bagged
    PROVE  /\ Bagged' /\ Mail' = Mail \cup Taken(S)
           /\ \A x : Copies(x)' = Copies(x) + (IF x \in Taken(S) THEN 1 ELSE 0)
<1>1. \A x : Copies(x) \in Int
  BY DEF Bagged, Copies
<1>2. Exchange({}, S) /\ {} \in SUBSET Mail
  BY Zenon DEF Send
<1>3. /\ Bagged' /\ Mail' \subseteq Mail \cup Taken(S)
      /\ Mail \ {} \subseteq Mail' /\ Taken(S) \subseteq Mail'
      /\ \A x : Copies(x)' = Copies(x) + (IF x \in Taken(S) THEN 1 ELSE 0)
                               - (IF x \in {} THEN 1 ELSE 0)
  BY <1>2, Exchanging, Zenon
<1>4. QED
  BY <1>1, <1>3

\* What is under way after a message was taken and answered.
LEMMA Answering ==
    ASSUME NEW S, NEW m \in Mail, Answer(m, S), Bagged
    PROVE  /\ Bagged' /\ Mail' \subseteq Mail \cup Taken(S)
           /\ Mail \ {m} \subseteq Mail' /\ Taken(S) \subseteq Mail'
           /\ \A x : Copies(x)' = Copies(x) + (IF x \in Taken(S) THEN 1 ELSE 0)
                                    - (IF x = m THEN 1 ELSE 0)
<1>1. Exchange({m}, S) /\ {m} \in SUBSET Mail
  BY Zenon DEF Answer
<1>2. /\ Bagged' /\ Mail' \subseteq Mail \cup Taken(S)
      /\ Mail \ {m} \subseteq Mail' /\ Taken(S) \subseteq Mail'
      /\ \A x : Copies(x)' = Copies(x) + (IF x \in Taken(S) THEN 1 ELSE 0)
                               - (IF x \in {m} THEN 1 ELSE 0)
  BY <1>1, Exchanging, Zenon
<1>3. QED
  BY <1>2, Zenon

\* What is under way after a message was taken.
LEMMA Consuming ==
    ASSUME NEW m \in Mail, Answer(m, {}), Bagged
    PROVE  /\ Bagged' /\ Mail' \subseteq Mail /\ Mail \ {m} \subseteq Mail'
           /\ \A x : Copies(x)' = Copies(x) - (IF x = m THEN 1 ELSE 0)
<1>1. Taken({}) = {}
  BY Zenon DEF Taken
<1>2. /\ Bagged' /\ Mail' \subseteq Mail \cup Taken({}) /\ Mail \ {m} \subseteq Mail'
      /\ \A x : Copies(x)' = Copies(x) + (IF x \in Taken({}) THEN 1 ELSE 0)
                                - (IF x = m THEN 1 ELSE 0)
  BY Answering, Zenon
<1>3. \A x : Copies(x) \in Int
  BY DEF Bagged, Copies
<1>4. QED
  BY <1>1, <1>2, <1>3

\* What has come with the answer is dropped, and the announcement is sent.
LEMMA Announced ==
    ASSUME NEW j, Announce(j), Bagged
    PROVE  Bagged' /\ Mail' \subseteq Mail \cup {Msg("NODEIN", j, peer[j], {j}, {})}
<1>1. PICK n : n = Msg("NODEIN", j, peer[j], {j}, {})
  BY Zenon
<1>2. PICK M \in SUBSET OnLink(j) : Exchange(M, {n})
  BY <1>1, Zenon DEF Announce
<1>3. M \in SUBSET Mail
  BY <1>2, Zenon DEF OnLink
<1>4. Bagged' /\ Mail' \subseteq Mail \cup Taken({n})
  BY <1>2, <1>3, Exchanging, Zenon
<1>5. QED
  BY <1>1, <1>4, Zenon DEF Taken

\* A process that ends takes what was sent to it with it.
LEMMA Stopping ==
    ASSUME NEW s, NEW sent, Stop(s, sent), Bagged
    PROVE  Bagged' /\ Mail' \subseteq {m \in Mail : m.to # s} \cup sent
<1>1. PICK lost :
          net' = [m \in ({x \in Mail : x.to # s} \cup Taken(sent)) \ lost |->
                     Copies(m) + (IF m \in Taken(sent) THEN 1 ELSE 0)]
  BY Zenon DEF Stop
<1>2. PICK R : R = ({x \in Mail : x.to # s} \cup Taken(sent)) \ lost
  BY Zenon
<1>3. net' = [m \in R |-> Copies(m) + (IF m \in Taken(sent) THEN 1 ELSE 0)]
  BY <1>1, <1>2, Zenon
<1>4. Mail' = R
  BY <1>3, Zenon DEF Mail
<1>5. \A m \in R : Copies(m) + (IF m \in Taken(sent) THEN 1 ELSE 0) \in Nat \ {0}
  BY <1>2 DEF Copies, Bagged
<1>6. Bagged'
  BY <1>3, <1>4, <1>5, Zenon DEF Bagged
<1>7. QED
  BY <1>2, <1>4, <1>6, Zenon DEF Taken

-----------------------------------------------------------------------------
(* Types.                                                                  *)

\* News are news for the worker that has looked for the gossip.
LEMMA NewsFields ==
    ASSUME NEW m \in Message
    PROVE  LET n == [m EXCEPT !.kind = "NODEIN new"]
           IN  /\ n \in Message /\ n.kind = "NODEIN new" /\ n.from = m.from
               /\ n.to = m.to /\ n.who = m.who
  BY Zenon DEF Message, Kinds

\* What depends on the servers alone.
ServerTypes == TypeOK /\ HistoryTypes /\ OtherPeer

\* What sendDataToNode sends.
LEMMA DataMessages ==
    ASSUME Types, NEW s \in Server, NEW n \in Server, n # s, NEW T,
           NEW m \in SendDataToNode(s, n, T)
    PROVE  /\ m \in Message /\ m.kind \in {"SET", "SYNCDONE"}
           /\ m.from = s /\ m.to = n /\ m.keys \subseteq store[s]
<1>1. \A k \in store[s] : k \in Keys /\ {k} \in SUBSET Keys /\ {} \in SUBSET Ids
  BY Zenon DEF Types, TypeOK
<1>2. CASE m = Tell("SYNCDONE", s, n)
  <2>1. /\ m \in Message /\ m.kind = "SYNCDONE" /\ m.from = s /\ m.to = n
        /\ m.keys = {}
    BY <1>2, Zenon DEF Tell, Msg, Message, Kinds
  <2>2. QED
    BY <2>1, Zenon
<1>3. CASE \E k \in store[s] : m = Msg("SET", s, n, {}, {k})
  <2>1. PICK k \in store[s] : m = Msg("SET", s, n, {}, {k})
    BY <1>3, Zenon
  <2>2. m \in Message /\ m.kind = "SET" /\ m.from = s /\ m.to = n /\ m.keys = {k}
    BY <1>1, <2>1, Zenon DEF Msg, Message, Kinds
  <2>3. QED
    BY <2>2, Zenon
<1>4. QED
  BY <1>2, <1>3, Zenon DEF SendDataToNode

\* At the beginning nothing is under way.
LEMMA InitTypes == Init => Types
<1> SUFFICES ASSUME Init
             PROVE  Types
  BY Zenon
<1>1. case \in Cases /\ case.founders \in SUBSET Server
  BY JoinAssumption, Zenon DEF Init
<1>2. TypeOK
  BY <1>1, SMTT(30) DEF Init, TypeOK, Away
<1>3. HistoryTypes
  <2>1. crossed \in BOOLEAN
    BY Zenon DEF Init
  <2>2. /\ gossip \in [Server -> SUBSET Ids] /\ counted \in [Server -> SUBSET Server]
        /\ early \in [Server -> SUBSET Keys] /\ done \in [Server -> [Server -> Nat]]
    BY Zenon DEF Init
  <2>3. QED
    BY <1>1, <2>1, <2>2, Zenon DEF HistoryTypes
<1>4. Mail = {}
  BY DEF Init, Mail
<1>7. Bagged
  BY DEF Init, Mail, Bagged
<1>5. OtherPeer
  BY SMTT(30) DEF Init, OtherPeer, Range
<1>6. QED
  BY <1>2, <1>3, <1>4, <1>5, <1>7, Zenon DEF Types, MailTypes

\* The announcement of a server that has heard of itself.
LEMMA Announcing ==
    ASSUME NEW s \in Server, NEW t \in Server, s # t, NEW n \in Server,
           NEW m, m = Msg("NODEIN", s, t, {n}, {})
    PROVE  /\ m \in Message /\ m.kind = "NODEIN" /\ m.from = s /\ m.to = t
           /\ m.who = {n} /\ (n \in gossip[n] => Good(m)) /\ (n \in gossip'[n] => Good(m)')
<1>1. /\ m \in Message /\ m.kind = "NODEIN" /\ m.from = s /\ m.to = t /\ m.who = {n}
  BY Zenon DEF Msg, Message, Kinds, Ids
<1>2. QED
  BY <1>1, Zenon DEF Good, News

\* What a server tells about x.
LEMMA TellingAll ==
    ASSUME Types, NEW s \in Server, NEW m, NEW x \in Server, m.who = {x},
           NEW n \in NodeInTell(s, m)
    PROVE  /\ n \in Message /\ n.kind = "NODEIN" /\ n.from = s /\ n.who = {x}
           /\ n.to \in conn[s]
           /\ (x \in gossip[x] => Good(n)) /\ (x \in gossip'[x] => Good(n)')
<1>1. PICK t \in conn[s] : n = Msg("NODEIN", s, t, {x}, {})
  BY Zenon DEF NodeInTell
<1>2. t \in Server /\ t # s
  BY Zenon DEF Types, TypeOK
<1>3. QED
  BY <1>1, <1>2, Announcing

\* What NodeInNew does to the server it is about.
LEMMA TakenIn ==
    ASSUME Types, NEW m \in Mail, NodeInNew(m.to, m)
    PROVE  \E x \in Server :
               /\ m.who = {x} /\ x # m.to /\ x \in gossip[x]
               /\ gossip' = [gossip EXCEPT ![m.to] = @ \cup {x}]
               /\ topo' = [topo EXCEPT ![m.to] = @ \cup {x}]
               /\ connects' = [connects EXCEPT ![m.to] = NodeInConnect(m.to, x)]
               /\ Answer(m, NodeInTell(m.to, m) \cup
                              (IF x \in conn[m.to] THEN SendDataToNode(m.to, x, topo'[m.to])
                               ELSE {}))
<1>1. m.kind = "NODEIN new"
  BY Zenon DEF NodeInNew, Arrived
<1>2. Good(m)
  BY Zenon DEF Types, MailTypes
<1>3. PICK x \in Server : m.who = {x} /\ x \in gossip[x] /\ x # m.to
  BY <1>1, <1>2, Zenon DEF Good, News
<1>4. /\ gossip' = [gossip EXCEPT ![m.to] = @ \cup {x}]
      /\ topo' = [topo EXCEPT ![m.to] = @ \cup {x}]
  BY <1>3, Zenon DEF NodeInNew
<1>5. PICK n \in m.who :
          /\ Answer(m, NodeInTell(m.to, m) \cup
                       (IF n \in conn[m.to] THEN SendDataToNode(m.to, n, topo'[m.to])
                        ELSE {}))
          /\ connects' = [connects EXCEPT ![m.to] = NodeInConnect(m.to, n)]
  BY Zenon DEF NodeInNew
<1>6. n = x
  BY <1>3, <1>5, Zenon
<1>7. QED
  BY <1>3, <1>4, <1>5, <1>6, Zenon

\* What is said of a server that leaves.
LEMMA Leaving ==
    ASSUME Types, NEW s \in Server, NEW who \in SUBSET Ids,
           NEW n \in {Msg("NODEOUT", s, t, who, {}) : t \in conn[s]}
    PROVE  /\ n \in Message /\ n.kind = "NODEOUT" /\ n.from = s /\ n.to \in conn[s]
           /\ Good(n) /\ Good(n)'
<1>1. PICK t \in conn[s] : n = Msg("NODEOUT", s, t, who, {})
  BY Zenon
<1>2. t \in Server /\ t # s
  BY Zenon DEF Types, TypeOK
<1>3. n \in Message /\ n.kind = "NODEOUT" /\ n.from = s /\ n.to = t
  BY <1>1, <1>2, Zenon DEF Msg, Message, Kinds
<1>4. QED
  BY <1>2, <1>3, Zenon DEF Good, News

\* What gracefulShutdown sends, with the servers T left on the ring.
Words(s, T, K) ==
    {Msg("NODEOUT", s, t, {-s}, {}) : t \in conn[s]}
        \cup {Msg("SET", s, Owner(k, T), {}, {k}) : k \in K}

\* What a server sends at its shutdown is good.
LEMMA LastWords ==
    ASSUME Types, NEW s \in Server, NEW T, NEW K \in SUBSET store[s],
           \A k \in K : Owner(k, T) \in conn[s],
           NEW n \in Words(s, T, K)
    PROVE  Good(n) /\ n.kind \in {"NODEOUT", "SET"} /\ n.from = s
<1>1. CASE n \in {Msg("NODEOUT", s, t, {-s}, {}) : t \in conn[s]}
  <2>1. {-s} \in SUBSET Ids
    BY Zenon DEF Ids
  <2>2. QED
    BY <1>1, <2>1, Leaving
<1>2. CASE n \in {Msg("SET", s, Owner(k, T), {}, {k}) : k \in K}
  <2>1. PICK k \in K : n = Msg("SET", s, Owner(k, T), {}, {k})
    BY <1>2, Zenon
  <2>2. PICK t \in conn[s] : t = Owner(k, T)
    BY Zenon
  <2>3. t \in Server /\ t # s /\ k \in Keys /\ n = Msg("SET", s, t, {}, {k})
    BY <2>1, <2>2, Zenon DEF Types, TypeOK
  <2>4. n \in Message /\ n.kind = "SET" /\ n.from = s /\ n.to = t
    BY <2>3, Zenon DEF Msg, Message, Kinds
  <2>5. QED
    BY <2>3, <2>4, Zenon DEF Good, News
<1>3. QED
  BY <1>1, <1>2, Zenon DEF Words

\* A shutdown is a stop after some good messages.
LEMMA ShutdownStops ==
    ASSUME Types, NEW s \in Server, GracefulShutdown(s)
    PROVE  \E sent : /\ Stop(s, sent) /\ \A m \in sent : Good(m) /\ m.from = s
                     /\ \A m \in sent : m.kind \in {"NODEOUT", "SET"}
<1> PICK T : T = topo[s] \ {s}
  BY Zenon
<1> PICK K : K = {k \in store[s] : T # {} /\ Owner(k, T) \in conn[s]}
  BY Zenon
<1> PICK sent : sent = Words(s, T, K)
  BY Zenon
<1>1. Stop(s, sent)
  BY Zenon DEF GracefulShutdown, Words
<1>2. \A m \in sent : Good(m) /\ m.from = s /\ m.kind \in {"NODEOUT", "SET"}
  <2> TAKE m \in sent
  <2>1. K \in SUBSET store[s] /\ \A k \in K : Owner(k, T) \in conn[s]
    BY Zenon
  <2>2. QED
    BY <2>1, LastWords, Zenon
<1>3. QED
  BY <1>1, <1>2, Zenon

\* One step of one action.
LEMMA TypesStep == Counts /\ Types /\ [Next]_vars => Types'
\* Messages stay well formed while gossip is only added.
<1>MailKept. ASSUME MailTypes, \A m \in Mail' : m \in Mail \/ Good(m)',
                    \A n \in Server : gossip[n] \subseteq gossip'[n]
             PROVE  MailTypes'
  <2> USE <1>MailKept
  <2>1. ASSUME NEW m \in Mail
        PROVE  Good(m)'
    <3>1. Good(m)
      BY Zenon DEF MailTypes
    <3>2. m.kind \in News => \E n \in Server : m.who = {n} /\ n \in gossip'[n]
      BY <3>1, Zenon DEF Good
    <3>3. QED
      BY <3>1, <3>2, Zenon DEF Good
  <2>2. QED
    BY <2>1, Zenon DEF MailTypes

\* A step that changes neither the servers nor their histories.
<1>SameTypes.
      ASSUME Types, UNCHANGED <<main, peer, views, connects, sync, counted, early>>,
             UNCHANGED <<case, crossed>>, store' \in [Server -> SUBSET Keys]
      PROVE  ServerTypes'
  <2> USE <1>SameTypes
  <2>1. TypeOK' /\ HistoryTypes'
    BY Zenon DEF Types, TypeOK, HistoryTypes, views, sync
  <2>2. OtherPeer'
    BY Zenon DEF Types, OtherPeer, views, sync, Range
  <2>3. QED
    BY <2>1, <2>2, Zenon DEF ServerTypes

\* Handlers that only answer.
<1>AnswerTypes.
      ASSUME Types, NEW m \in Mail,
             \/ GetNetwork(m.to, m) \/ Ok(m.to, m) \/ NodeIn(m.to, m) \/ Push(m.to, m)
      PROVE  Types'
  <2> USE <1>AnswerTypes
  <2>1. Good(m) /\ m \in Message /\ m.from \in Server /\ m.to \in Server
    BY Zenon DEF Types, MailTypes, Good, Message
  <2>2. /\ ServerTypes' /\ gossip' = gossip
        /\ \A n \in Server : gossip[n] \subseteq gossip'[n]
    <3>1. UNCHANGED <<main, peer, views, connects, sync, store, past>>
      BY Zenon DEF GetNetwork, Ok, NodeIn, Push
    <3>2. QED
      BY <3>1, <1>SameTypes, Zenon DEF past, views, Types, TypeOK
  <2>3. CASE GetNetwork(m.to, m)
    <3> PICK n : n = Msg("NETWORK", m.to, m.from, topo[m.to], {})
      BY Zenon
    <3>1. Bagged' /\ Mail' \subseteq Mail \cup {n}
      BY <2>3, Answering, Zenon DEF GetNetwork, Taken, Types
    <3>2. m.from # m.to /\ topo[m.to] \subseteq Server
      BY <2>1, <2>3, Zenon DEF GetNetwork, Arrived, Good, Types, TypeOK
    <3>3. /\ n \in Message /\ n.kind = "NETWORK" /\ n.from = m.to /\ n.to = m.from
          /\ n.who = topo[m.to]
      BY <2>1, <3>2, Zenon DEF Msg, Message, Kinds, Ids
    <3>4. Good(n)'
      BY <3>2, <3>3, Zenon DEF Good, News
    <3>5. MailTypes'
      BY <2>2, <3>1, <3>4, <1>MailKept, Zenon DEF Types
    <3>6. QED
      BY <2>2, <3>1, <3>5, Zenon DEF Types, ServerTypes
  <2>4. CASE Ok(m.to, m)
    <3>1. Bagged' /\ Mail' \subseteq Mail
      BY <2>4, Consuming, Zenon DEF Ok, Types
    <3>2. MailTypes'
      BY <2>2, <3>1, <1>MailKept, Zenon DEF Types
    <3>3. QED
      BY <2>2, <3>1, <3>2, Zenon DEF Types, ServerTypes
  <2>5. CASE NodeIn(m.to, m)
    <3> PICK n : n = [m EXCEPT !.kind = "NODEIN new"]
      BY Zenon
    <3>1. m.kind = "NODEIN"
      BY <2>5, Zenon DEF NodeIn, Arrived
    <3>2. PICK x \in Server : m.who = {x} /\ x \in gossip[x]
      BY <2>1, <3>1, Zenon DEF Good, News
    <3>3. CASE FindGossip(m.to, m)
      <4>0. Answer(m, {})
        BY <2>5, <3>3, Zenon DEF NodeIn
      <4>1. Bagged' /\ Mail' \subseteq Mail
        BY <4>0, Consuming, Zenon DEF Types
      <4>2. MailTypes'
        BY <2>2, <4>1, <1>MailKept, Zenon DEF Types
      <4>3. QED
        BY <2>2, <4>1, <4>2, Zenon DEF Types, ServerTypes
    <3>4. CASE ~ FindGossip(m.to, m)
      <4>1. Bagged' /\ Mail' \subseteq Mail \cup {n}
        BY <2>5, <3>4, Answering, Zenon DEF NodeIn, Taken, Types
      <4>2. m.to \notin m.who
        BY <3>2, <3>4, Zenon DEF FindGossip
      <4>3. /\ n \in Message /\ n.kind = "NODEIN new" /\ n.from = m.from
            /\ n.to = m.to /\ n.who = m.who
        BY <2>1, NewsFields, Zenon
      <4>4. Good(n)
        BY <2>1, <3>1, <3>2, <4>2, <4>3, Zenon DEF Good, News
      <4>5. Good(n)'
        BY <2>2, <4>4, Zenon DEF Good
      <4>6. MailTypes'
        BY <2>2, <4>1, <4>5, <1>MailKept, Zenon DEF Types
      <4>7. QED
        BY <2>2, <4>1, <4>6, Zenon DEF Types, ServerTypes
    <3>5. QED
      BY <3>3, <3>4, Zenon
  <2>6. CASE Push(m.to, m)
    <3>1. PICK n \in m.who :
              Answer(m, IF n \in conn[m.to] THEN SendDataToNode(m.to, n, topo[m.to])
                        ELSE {})
      BY <2>6, Zenon DEF Push
    <3> PICK S : S = IF n \in conn[m.to] THEN SendDataToNode(m.to, n, topo[m.to]) ELSE {}
      BY Zenon
    <3>2. Bagged' /\ Mail' \subseteq Mail \cup S
      BY <3>1, Answering, Zenon DEF Taken, Types
    <3>3. n \in Server
      BY <2>1, <2>6, Zenon DEF Push, Arrived, Good
    <3>4. ASSUME NEW x \in S
          PROVE  Good(x)'
      <4>1. n \in conn[m.to] /\ n # m.to /\ x \in SendDataToNode(m.to, n, topo[m.to])
        BY <2>1, Zenon DEF Types, TypeOK
      <4>2. /\ x \in Message /\ x.kind \in {"SET", "SYNCDONE"}
            /\ x.from = m.to /\ x.to = n
        BY <2>1, <3>3, <4>1, DataMessages
      <4>3. QED
        BY <4>1, <4>2, Zenon DEF Good, News
    <3>5. MailTypes'
      BY <2>2, <3>2, <3>4, <1>MailKept, Zenon DEF Types
    <3>6. QED
      BY <2>2, <3>2, <3>5, Zenon DEF Types, ServerTypes
  <2>7. QED
    BY <2>3, <2>4, <2>5, <2>6, Zenon

\* Messages of one join, and of its answers.
<1>Telling. ASSUME NEW s \in Server, NEW t \in Server, s # t,
                   NEW kind \in {"GETNETWORK", "HELLO", "OK"}, NEW m, m = Tell(kind, s, t)
            PROVE  Good(m) /\ Good(m)' /\ m.kind = kind /\ m.from = s /\ m.to = t
  <2> USE <1>Telling
  <2>1. m \in Message /\ m.kind = kind /\ m.from = s /\ m.to = t
    BY Zenon DEF Tell, Msg, Message, Kinds
  <2>2. QED
    BY <2>1, Zenon DEF Good, News

\* The question of a new server keeps the types.
<1>AskTypes. ASSUME Types, NEW j \in Server, NEW b \in Server, Ask(j, b)
             PROVE  Types'
  <2> USE <1>AskTypes
  <2>1. j # b
    BY Zenon DEF Ask, Away
  <2>2. TypeOK'
    BY Zenon DEF Ask, Types, TypeOK, views, sync
  <2>3. HistoryTypes'
    <3>1. crossed' \in BOOLEAN
      BY Zenon DEF Ask
    <3>2. QED
      BY <3>1, Zenon DEF Ask, Types, HistoryTypes, views, sync
  <2>4. OtherPeer'
    <3>1. \A s \in Server : /\ s # j => main'[s] = main[s] /\ peer'[s] = peer[s]
                            /\ s = j => peer'[s] = b
      BY Zenon DEF Ask, Types, TypeOK
    <3>2. connects' = connects
      BY Zenon DEF Ask
    <3>3. QED
      BY <2>1, <3>1, <3>2, Zenon DEF Types, OtherPeer
  <2>5. MailTypes' /\ Bagged'
    <3> PICK n : n = Tell("GETNETWORK", j, b)
      BY Zenon
    <3>1. Bagged' /\ Mail' \subseteq Mail \cup {n}
      BY Sending DEF Ask, Taken, Types
    <3>2. Good(n)'
      BY <2>1, <1>Telling
    <3>3. QED
      BY <3>1, <3>2, <1>MailKept, Zenon DEF Types, Ask, views
  <2>6. QED
    BY <2>2, <2>3, <2>4, <2>5, Zenon DEF Types

\* So does its announcement.
<1>AnnounceTypes. ASSUME Types, NEW j \in Server, Announce(j)
                  PROVE  Types'
  <2> USE <1>AnnounceTypes
  <2>1. peer[j] \in Server /\ peer[j] # j
    BY Zenon DEF Announce, Types, TypeOK, OtherPeer
  <2>2. TypeOK'
    BY Zenon DEF Announce, Types, TypeOK, sync
  <2>3. /\ gossip' \in [Server -> SUBSET Ids] /\ j \in gossip'[j]
        /\ \A n \in Server : gossip[n] \subseteq gossip'[n]
    BY Zenon DEF Announce, Types, HistoryTypes, Ids
  <2>4. HistoryTypes'
    BY <2>3, Zenon DEF Announce, Types, HistoryTypes, sync, past
  <2>5. OtherPeer'
    <3>1. \A s \in Server : main'[s] = main[s] \/ main'[s] = "up"
      BY Zenon DEF Announce, Types, TypeOK
    <3>2. connects' = connects /\ peer' = peer
      BY Zenon DEF Announce
    <3>3. QED
      BY <3>1, <3>2, Zenon DEF Types, OtherPeer
  <2>6. MailTypes' /\ Bagged'
    <3>0. PICK n : n = Msg("NODEIN", j, peer[j], {j}, {})
      BY Zenon
    <3>1. Bagged' /\ Mail' \subseteq Mail \cup {n}
      BY <3>0, Announced, Zenon DEF Types
    <3>2. Good(n)'
      BY <2>1, <2>3, <3>0, Announcing
    <3>3. \A m \in Mail' : m \in Mail \/ Good(m)'
      BY <3>1, <3>2, Zenon
    <3>4. QED
      BY <2>3, <3>1, <3>3, <1>MailKept, Zenon DEF Types
  <2>7. QED
    BY <2>2, <2>4, <2>5, <2>6, Zenon DEF Types

\* A step whose new messages are good.
<1>TypesKept. ASSUME Types, TypeOK', HistoryTypes', OtherPeer', Bagged',
                     \A m \in Mail' : m \in Mail \/ Good(m)',
                     \A n \in Server : gossip[n] \subseteq gossip'[n]
              PROVE  Types'
  <2> USE <1>TypesKept
  <2>1. MailTypes'
    BY <1>MailKept, Zenon DEF Types
  <2>2. QED
    BY <2>1, Zenon DEF Types

\* A greeting keeps the types.
<1>HelloTypes. ASSUME Types, NEW m \in Mail, Hello(m.to, m)
               PROVE  Types'
  <2> USE <1>HelloTypes
  <2>1. Good(m) /\ m \in Message /\ m.from \in Server /\ m.to \in Server
    BY Zenon DEF Types, MailTypes, Good, Message
  <2>2. m.from # m.to
    BY <2>1, Zenon DEF Good, Hello, Arrived
  <2>3. TypeOK'
    BY <2>1, <2>2, Zenon DEF Hello, Types, TypeOK, sync
  <2>4. HistoryTypes' /\ OtherPeer'
    BY Zenon DEF Hello, Types, HistoryTypes, OtherPeer, sync, past, Range
  <2> PICK n : n = Tell("OK", m.to, m.from)
    BY Zenon
  <2>5. Bagged' /\ Mail' \subseteq Mail \cup {n}
    BY Answering, Zenon DEF Hello, Taken, Types
  <2>6. Good(n)'
    BY <2>1, <2>2, <1>Telling
  <2>7. gossip' = gossip
    BY Zenon DEF Hello
  <2>8. QED
    BY <2>3, <2>4, <2>5, <2>6, <2>7, <1>TypesKept, Zenon DEF Types

\* A server that takes another one in keeps the types.
<1>NodeInNewTypes. ASSUME Types, NEW m \in Mail, NodeInNew(m.to, m)
                   PROVE  Types'
  <2> USE <1>NodeInNewTypes
  <2>1. Good(m) /\ m \in Message /\ m.from \in Server /\ m.to \in Server
    BY Zenon DEF Types, MailTypes, Good, Message
  <2>2. PICK x \in Server :
            /\ m.who = {x} /\ x # m.to /\ x \in gossip[x]
            /\ gossip' = [gossip EXCEPT ![m.to] = @ \cup {x}]
            /\ topo' = [topo EXCEPT ![m.to] = @ \cup {x}]
            /\ connects' = [connects EXCEPT ![m.to] = NodeInConnect(m.to, x)]
            /\ Answer(m, NodeInTell(m.to, m) \cup
                           (IF x \in conn[m.to] THEN SendDataToNode(m.to, x, topo'[m.to])
                            ELSE {}))
    BY TakenIn, Zenon
  <2>3. UNCHANGED <<main, peer, conn, sync, store, past>>
    BY Zenon DEF NodeInNew
  <2>4. /\ connects' \in [Server -> Seq(Server)]
        /\ \A s \in Server : Range(connects'[s]) \subseteq Range(connects[s]) \cup {x}
        /\ \A s \in Server : s # m.to => connects'[s] = connects[s]
    <3>1. connects[m.to] \in Seq(Server)
      BY <2>1, Zenon DEF Types, TypeOK
    <3>2. NodeInConnect(m.to, x) \in Seq(Server)
      BY <2>2, <3>1 DEF NodeInConnect
    <3>3. Range(NodeInConnect(m.to, x)) \subseteq Range(connects[m.to]) \cup {x}
      BY <2>2, <3>1 DEF NodeInConnect, Range
    <3>4. QED
      BY <2>1, <2>2, <3>2, <3>3, Zenon DEF Types, TypeOK
  <2>5. TypeOK'
    BY <2>1, <2>2, <2>3, <2>4 DEF Types, TypeOK, sync
  <2>6. HistoryTypes' /\ \A n \in Server : gossip[n] \subseteq gossip'[n]
    BY <2>1, <2>2, <2>3, Zenon DEF Types, HistoryTypes, sync, past, Ids
  <2>7. OtherPeer'
    BY <2>1, <2>2, <2>3, <2>4, Zenon DEF Types, OtherPeer
  <2> PICK S : S = NodeInTell(m.to, m) \cup
                     (IF x \in conn[m.to] THEN SendDataToNode(m.to, x, topo'[m.to]) ELSE {})
    BY Zenon
  <2>8. Bagged' /\ Mail' \subseteq Mail \cup S
    BY <2>2, Answering, Zenon DEF Taken, Types
  <2>9. ASSUME NEW n \in S
        PROVE  Good(n)'
    <3>1. CASE n \in NodeInTell(m.to, m)
      BY <2>1, <2>2, <2>6, <3>1, TellingAll, Zenon
    <3>2. CASE n \in SendDataToNode(m.to, x, topo'[m.to])
      <4>1. /\ n \in Message /\ n.kind \in {"SET", "SYNCDONE"}
            /\ n.from = m.to /\ n.to = x
        BY <2>1, <2>2, <3>2, DataMessages
      <4>2. QED
        BY <2>2, <4>1, Zenon DEF Good, News
    <3>3. QED
      BY <3>1, <3>2, Zenon
  <2>10. QED
    BY <2>5, <2>6, <2>7, <2>8, <2>9, <1>TypesKept, Zenon DEF Types

\* A SET keeps the types.
<1>SetTypes. ASSUME Types, NEW m \in Mail, Set(m.to, m)
             PROVE  Types'
  <2> USE <1>SetTypes
  <2>1. m \in Message /\ m.from \in Server /\ m.to \in Server /\ m.keys \subseteq Keys
    BY Zenon DEF Types, MailTypes, Good, Message
  <2>2. store' \in [Server -> SUBSET Keys] /\ early' \in [Server -> SUBSET Keys]
    BY <2>1, Zenon DEF Set, Types, TypeOK, HistoryTypes
  <2>3. TypeOK' /\ HistoryTypes'
    BY <2>2, Zenon DEF Set, Types, TypeOK, HistoryTypes, views, sync
  <2>4. OtherPeer'
    BY Zenon DEF Set, Types, OtherPeer, Range
  <2>5. Bagged' /\ Mail' \subseteq Mail
    BY Consuming, Zenon DEF Set, Types
  <2>6. gossip' = gossip
    BY Zenon DEF Set, views
  <2>7. QED
    BY <2>3, <2>4, <2>5, <2>6, <1>TypesKept, Zenon DEF Types

\* A SYNCDONE keeps the types.
<1>SyncDoneTypes. ASSUME Types, NEW m \in Mail, SyncDone(m.to, m)
                  PROVE  Types'
  <2> USE <1>SyncDoneTypes
  <2>1. m \in Message /\ m.from \in Server /\ m.to \in Server
    BY Zenon DEF Types, MailTypes, Good, Message
  <2>2. pending' \in [Server -> Int] /\ done' \in [Server -> [Server -> Nat]]
    <3>1. pending' \in [Server -> Int]
      BY <2>1 DEF SyncDone, Types, TypeOK
    <3>2. done[m.to] \in [Server -> Nat] /\ done[m.to][m.from] + 1 \in Nat
      BY <2>1 DEF Types, HistoryTypes
    <3>3. [done[m.to] EXCEPT ![m.from] = @ + 1] \in [Server -> Nat]
      BY <2>1, <3>2, Zenon
    <3>4. done' = [done EXCEPT ![m.to] = [done[m.to] EXCEPT ![m.from] = @ + 1]]
      BY <2>1, Zenon DEF SyncDone, Types, HistoryTypes
    <3>5. done' \in [Server -> [Server -> Nat]]
      BY <2>1, <3>3, <3>4, Zenon DEF Types, HistoryTypes
    <3>6. QED
      BY <3>1, <3>5, Zenon
  <2>3. syncing' \in [Server -> BOOLEAN]
    BY <2>1, Zenon DEF SyncDone, Types, TypeOK
  <2>4. TypeOK' /\ HistoryTypes'
    BY <2>2, <2>3, Zenon DEF SyncDone, Types, TypeOK, HistoryTypes, views, past
  <2>5. OtherPeer'
    BY Zenon DEF SyncDone, Types, OtherPeer, Range
  <2>6. Bagged' /\ Mail' \subseteq Mail
    BY Consuming, Zenon DEF SyncDone, Types
  <2>7. gossip' = gossip
    BY Zenon DEF SyncDone, views
  <2>8. QED
    BY <2>4, <2>5, <2>6, <2>7, <1>TypesKept, Zenon DEF Types

\* A NODEOUT keeps the types.
<1>NodeOutTypes. ASSUME Types, NEW m \in Mail, NodeOut(m.to, m)
                 PROVE  Types'
  <2> USE <1>NodeOutTypes
  <2>1. /\ m \in Message /\ m.from \in Server /\ m.to \in Server /\ m.who \in SUBSET Ids
    BY Zenon DEF Types, MailTypes, Good, Message
  <2>2. TypeOK'
    BY Zenon DEF NodeOut, Types, TypeOK, sync
  <2>3. HistoryTypes' /\ \A n \in Server : gossip[n] \subseteq gossip'[n]
    BY <2>1, Zenon DEF NodeOut, Types, HistoryTypes, sync, past
  <2>4. OtherPeer'
    BY Zenon DEF NodeOut, Types, OtherPeer, Range
  <2> PICK S : S = IF FindGossip(m.to, m) THEN {}
                   ELSE {Msg("NODEOUT", m.to, t, m.who, {}) : t \in conn[m.to]}
    BY Zenon
  <2>5. Bagged' /\ Mail' \subseteq Mail \cup S
    BY Answering, Zenon DEF NodeOut, Taken, Types
  <2>6. \A n \in S : Good(n)'
    BY <2>1, Leaving, Zenon
  <2>7. QED
    BY <2>2, <2>3, <2>4, <2>5, <2>6, <1>TypesKept, Zenon DEF Types

\* A process that ends.
<1>StopTypes.
      ASSUME Types, NEW s \in Server, NEW sent, Stop(s, sent), \A m \in sent : Good(m),
             UNCHANGED <<peer, views, sync, store, case, counted, early, crossed>>
      PROVE  Types'
  <2> USE <1>StopTypes
  <2>1. TypeOK'
    BY DEF Stop, Types, TypeOK, views, sync, Away
  <2>2. HistoryTypes' /\ gossip' = gossip
    BY Zenon DEF Types, HistoryTypes, views, sync
  <2>3. OtherPeer'
    <3>1. \A t \in Server : main'[t] = main[t] \/ main'[t] = "down"
      BY Zenon DEF Stop, Types, TypeOK
    <3>2. \A t \in Server : connects'[t] = connects[t] \/ connects'[t] = <<>>
      BY Zenon DEF Stop, Types, TypeOK
    <3>3. Range(<<>>) = {}
      BY DEF Range
    <3>4. QED
      BY <3>1, <3>2, <3>3, Zenon DEF Types, OtherPeer
  <2>4. Bagged' /\ Mail' \subseteq Mail \cup sent
    BY Stopping, Zenon DEF Types
  <2>5. ASSUME NEW m \in sent
        PROVE  Good(m)'
    BY <2>2, Zenon DEF Good
  <2>6. QED
    BY <2>1, <2>2, <2>3, <2>4, <2>5, <1>TypesKept, Zenon DEF Types

\* The end of a server keeps the types.
<1>EndTypes. ASSUME Types, NEW s \in Server, Shutdown(s) \/ Kill(s) \/ ConnectFails(s)
             PROVE  Types'
  <2> USE <1>EndTypes
  <2>1. UNCHANGED <<peer, views, sync, store, case, counted, early, crossed>>
    BY Zenon DEF Shutdown, Kill, ConnectFails, Fault, past
  <2>2. CASE Kill(s)
    BY <2>1, <2>2, <1>StopTypes DEF Kill
  <2>3. CASE GracefulShutdown(s)
    <3>1. PICK sent : Stop(s, sent) /\ \A m \in sent : Good(m)
      BY <2>3, ShutdownStops, Zenon
    <3>2. QED
      BY <2>1, <3>1, <1>StopTypes, Zenon
  <2>4. QED
    BY <2>2, <2>3, Zenon DEF Shutdown, ConnectFails

\* A connect keeps the types.
<1>ConnectTypes. ASSUME Types, NEW s \in Server, Connect(s)
                 PROVE  Types'
  <2> USE <1>ConnectTypes
  <2> PICK n : n = Head(connects[s])
    BY Zenon
  <2>1. connects[s] \in Seq(Server) /\ connects[s] # <<>>
    BY Zenon DEF Connect, Types, TypeOK
  <2>2. n \in Server /\ n \in Range(connects[s]) /\ n # s
    <3>1. n \in Range(connects[s])
      BY <2>1 DEF Range
    <3>2. QED
      BY <2>1, <3>1 DEF Types, OtherPeer
  <2>3. /\ main' = [main EXCEPT ![s] = "connects"] /\ peer' = [peer EXCEPT ![s] = n]
        /\ Send({Tell("HELLO", s, n)}) /\ connects' = [connects EXCEPT ![s] = Tail(@)]
        /\ UNCHANGED <<views, sync, store, past>>
    BY Zenon DEF Connect
  <2>4. Tail(connects[s]) \in Seq(Server) /\ Range(Tail(connects[s])) \subseteq Range(connects[s])
    BY <2>1 DEF Range
  <2>5. TypeOK'
    BY <2>2, <2>3, <2>4, Zenon DEF Types, TypeOK, views, sync
  <2>6. HistoryTypes' /\ gossip' = gossip
    BY <2>3, Zenon DEF Types, HistoryTypes, views, sync, past
  <2>7. OtherPeer'
    <3>1. \A t \in Server :
              /\ t # s => main'[t] = main[t] /\ peer'[t] = peer[t] /\ connects'[t] = connects[t]
              /\ t = s => peer'[t] = n /\ connects'[t] = Tail(connects[t])
      BY <2>3, Zenon DEF Types, TypeOK
    <3>2. QED
      BY <2>2, <2>4, <3>1, Zenon DEF Types, OtherPeer
  <2> PICK m : m = Tell("HELLO", s, n)
    BY Zenon
  <2>8. Bagged' /\ Mail' \subseteq Mail \cup {m}
    BY <2>3, Sending DEF Taken, Types
  <2>9. Good(m)'
    BY <2>2, <1>Telling
  <2>10. QED
    BY <2>5, <2>6, <2>7, <2>8, <2>9, <1>TypesKept, Zenon DEF Types

\* So does its end.
<1>ConnectedTypes. ASSUME Types, NEW s \in Server, Connected(s)
                   PROVE  Types'
  <2> USE <1>ConnectedTypes
  <2>1. peer[s] \in Server /\ peer[s] # s
    BY Zenon DEF Connected, Types, TypeOK, OtherPeer
  <2>2. TypeOK'
    BY <2>1, Zenon DEF Connected, Types, TypeOK, sync
  <2>3. HistoryTypes' /\ gossip' = gossip
    BY Zenon DEF Connected, Types, HistoryTypes, sync, past
  <2>4. OtherPeer'
    <3>1. \A t \in Server : main'[t] = main[t] \/ main'[t] = "up"
      BY Zenon DEF Connected, Types, TypeOK
    <3>2. connects' = connects /\ peer' = peer
      BY Zenon DEF Connected
    <3>3. QED
      BY <3>1, <3>2, Zenon DEF Types, OtherPeer
  <2> PICK n : n = Msg("PUSH", s, s, {peer[s]}, {})
    BY Zenon
  <2>5. PICK m \in OnLink(s) : Answer(m, {n})
    BY Zenon DEF Connected
  <2>6. m \in Mail
    BY Zenon DEF OnLink, Mail
  <2>7. Bagged' /\ Mail' \subseteq Mail \cup {n}
    BY <2>5, <2>6, Answering, Zenon DEF Taken, Types
  <2>8. /\ n \in Message /\ n.kind = "PUSH" /\ n.who = {peer[s]}
    BY <2>1, Zenon DEF Msg, Message, Kinds, Ids
  <2>9. Good(n)'
    BY <2>1, <2>8, Zenon DEF Good, News
  <2>10. QED
    BY <2>2, <2>3, <2>4, <2>7, <2>9, <1>TypesKept, Zenon DEF Types

\* A timeout keeps the types.
<1>CheckTimeoutsTypes.
      ASSUME Types, NEW s \in Server, NEW t \in Server, CheckTimeouts(s, t)
      PROVE  Types'
  <2> USE <1>CheckTimeoutsTypes
  <2>1. s # t
    BY Zenon DEF CheckTimeouts
  <2>2. /\ main' \in [Server -> Away \cup {"asks", "greets", "up", "connects", "stuck"}]
        /\ \A u \in Server : main'[u] = main[u] \/ main'[u] = "stuck"
    <3>1. CASE main' = main
      BY <3>1, Zenon DEF Types, TypeOK
    <3>2. CASE main' = [main EXCEPT ![s] = IF @ = "up" THEN "stuck" ELSE @]
      BY <3>2, Zenon DEF Types, TypeOK
    <3>3. QED
      BY <3>1, <3>2, Zenon DEF CheckTimeouts
  <2>3. TypeOK'
    <3>1. topo' \in [Server -> SUBSET Server] /\ conn' \in [Server -> SUBSET Server]
      BY DEF CheckTimeouts, Types, TypeOK
    <3>2. ASSUME NEW u \in Server
          PROVE  u \in topo'[u] /\ u \notin conn'[u]
      <4>1. u \in topo[u] /\ u \notin conn[u]
        BY Zenon DEF Types, TypeOK
      <4>2. topo'[u] = IF u = s THEN topo[s] \ {t} ELSE topo[u]
        BY Zenon DEF CheckTimeouts, Types, TypeOK
      <4>3. conn'[u] = IF u = s THEN conn[s] \ {t} ELSE conn[u]
        BY Zenon DEF CheckTimeouts, Types, TypeOK
      <4>4. QED
        BY <2>1, <4>1, <4>2, <4>3, Zenon
    <3>3. /\ peer' \in [Server -> Server] /\ connects' \in [Server -> Seq(Server)]
          /\ pending' \in [Server -> Int] /\ syncing' \in [Server -> BOOLEAN]
          /\ store' \in [Server -> SUBSET Keys]
      BY Zenon DEF CheckTimeouts, Types, TypeOK, sync
    <3>4. QED
      BY <2>2, <3>1, <3>2, <3>3, Zenon DEF TypeOK
  <2>4. HistoryTypes' /\ gossip' = gossip
    BY Zenon DEF CheckTimeouts, Types, HistoryTypes, sync, past
  <2>5. OtherPeer'
    <3>1. connects' = connects /\ peer' = peer
      BY Zenon DEF CheckTimeouts
    <3>2. QED
      BY <2>2, <3>1, Zenon DEF Types, OtherPeer
  <2>6. Mail' = Mail /\ Bagged'
    BY Zenon DEF CheckTimeouts, Mail, Types, Bagged
  <2>7. QED
    BY <2>3, <2>4, <2>5, <2>6, <1>TypesKept, Zenon DEF Types

\* Nothing happens.
<1>SameVars. Types /\ UNCHANGED vars => Types'
  <2> SUFFICES ASSUME Types, UNCHANGED vars
               PROVE  Types'
    BY Zenon
  <2>1. TypeOK' /\ HistoryTypes'
    BY Zenon DEF vars, views, sync, past, Types, TypeOK, HistoryTypes
  <2>2. OtherPeer'
    BY Zenon DEF vars, views, sync, past, Types, OtherPeer, Range
  <2>3. Mail' = Mail /\ Bagged' /\ gossip' = gossip
    BY Zenon DEF vars, views, Mail, Types, Bagged
  <2>4. QED
    BY <2>1, <2>2, <2>3, <1>TypesKept, Zenon DEF Types

\* The greeting keeps the types, too.
<1>GreetTypes. ASSUME Counts, Types, NEW m \in Mail, Greet(m.to, m)
               PROVE  Types'
  <2> USE <1>GreetTypes
  <2>1. Good(m) /\ m \in Message /\ m.from \in Server /\ m.to \in Server
    BY Zenon DEF Types, MailTypes, Good, Message
  <2>2. m.from # m.to /\ m.who \subseteq Server
    BY <2>1, Zenon DEF Good, Greet
  <2>3. Cardinality(m.who) \in Int
    <3>1. Cardinality(m.who) \in Nat
      BY <2>2, Zenon DEF Counts
    <3>2. QED
      BY <3>1
  <2>4. TypeOK'
    <3>1. /\ main' \in [Server -> Away \cup {"asks", "greets", "up", "connects", "stuck"}]
          /\ peer' \in [Server -> Server]
          /\ topo' \in [Server -> SUBSET Server] /\ conn' \in [Server -> SUBSET Server]
          /\ connects' \in [Server -> Seq(Server)] /\ store' \in [Server -> SUBSET Keys]
      BY <2>1, <2>2, Zenon DEF Greet, Types, TypeOK
    <3>2. \A s \in Server : s \in topo'[s] /\ s \notin conn'[s]
      BY <2>1, <2>2, Zenon DEF Greet, Types, TypeOK
    <3>3. pending' \in [Server -> Int]
      BY <2>1, <2>3, Zenon DEF Greet, MarkSyncing, Types, TypeOK
    <3>4. syncing' \in [Server -> BOOLEAN]
      BY <2>1, Zenon DEF Greet, Types, TypeOK
    <3>5. QED
      BY <3>1, <3>2, <3>3, <3>4, Zenon DEF TypeOK
  <2>5. HistoryTypes'
    BY <2>1, <2>2, Zenon DEF Greet, Types, HistoryTypes
  <2>6. OtherPeer'
    <3>1. \A s \in Server : main'[s] = main[s] \/ main[s] = "asks"
      BY <2>1, Zenon DEF Greet, Types, TypeOK
    <3>2. connects' = connects /\ peer' = peer
      BY Zenon DEF Greet
    <3>3. QED
      BY <3>1, <3>2, Zenon DEF Types, OtherPeer
  <2>7. MailTypes' /\ Bagged'
    <3> PICK n : n = Tell("HELLO", m.to, m.from)
      BY Zenon
    <3>1. Bagged' /\ Mail' \subseteq Mail \cup {n}
      BY Answering, Zenon DEF Greet, Taken, Types
    <3>2. Good(n)'
      BY <2>1, <2>2, <1>Telling
    <3>3. QED
      BY <3>1, <3>2, <1>MailKept, Zenon DEF Types, Greet
  <2>8. QED
    BY <2>4, <2>5, <2>6, <2>7, Zenon DEF Types

<1> SUFFICES ASSUME Counts, Types, [Next]_vars
             PROVE  Types'
  BY Zenon
<1>1. ASSUME NEW m \in Mail, Handle(m.to, m)
      PROVE  Types'
  BY <1>1, <1>AnswerTypes, <1>GreetTypes, <1>HelloTypes, <1>NodeInNewTypes, <1>SetTypes,
     <1>SyncDoneTypes, <1>NodeOutTypes, Zenon DEF Handle
<1>2. ASSUME NEW s \in Server,
             Announce(s) \/ Connect(s) \/ ConnectFails(s) \/ Connected(s)
      PROVE  Types'
  BY <1>2, <1>AnnounceTypes, <1>ConnectTypes, <1>EndTypes, <1>ConnectedTypes, Zenon
<1>3. ASSUME NEW s \in Server, NEW t \in Server, CheckTimeouts(s, t)
      PROVE  Types'
  BY <1>3, <1>CheckTimeoutsTypes, Zenon
<1>4. ASSUME NEW s \in Server, NEW t \in Server, Ask(s, t)
      PROVE  Types'
  BY <1>4, <1>AskTypes, Zenon
<1>5. ASSUME NEW s \in Server, Shutdown(s) \/ Kill(s)
      PROVE  Types'
  BY <1>5, <1>EndTypes, Zenon
<1>6. ASSUME UNCHANGED vars
      PROVE  Types'
  BY <1>6, <1>SameVars, Zenon
<1>7. QED
  BY <1>1, <1>2, <1>3, <1>4, <1>5, <1>6, Zenon DEF Next, Progress, Mail

-----------------------------------------------------------------------------
(* What is named; calm faults; joins that do not cross.                    *)

\* The next connect of a server is to one that is named.
LEMMA HeadNamed ==
    ASSUME Types, NEW s \in Server, connects[s] # <<>>
    PROVE  Head(connects[s]) \in Named
<1>1. connects[s] \in Seq(Server)
  BY Zenon DEF Types, TypeOK
<1>2. Head(connects[s]) \in Server /\ Head(connects[s]) \in Range(connects[s])
  BY <1>1 DEF Range
<1>3. QED
  BY <1>2, Zenon DEF Named

\* While nothing is under way nobody is named.
LEMMA QuietNamesNobody ==
    ASSUME Quiet
    PROVE  Mail = {} /\ Named = {}
<1>1. Mail = {}
  BY DEF Quiet, Mail
<1>2. Range(<<>>) = {}
  BY DEF Range
<1>3. QED
  BY <1>1, <1>2, Zenon DEF Quiet, Named

\* No step breaks Calm or Lone.
LEMMA CalmLone == Types /\ [Next]_vars => (Calm => Calm') /\ (Lone => Lone')
\* A step without new news names nobody new.
<1>NamedKept.
      ASSUME \A m \in Mail' : \/ m \in Mail \/ m.kind \notin News
                              \/ \E n \in Mail : n.kind \in News /\ n.who = m.who,
             \A s \in Server : Range(connects'[s]) \subseteq Range(connects[s]) \cup Named
      PROVE  Named' \subseteq Named
  <2> USE <1>NamedKept
  <2> SUFFICES ASSUME NEW x \in Named'
               PROVE  x \in Named
    BY Zenon
  <2>1. CASE \E m \in Mail' : m.kind \in News /\ x \in m.who
    BY <2>1, Zenon DEF Named
  <2>2. CASE \E s \in Server : x \in Range(connects'[s])
    BY <2>2, Zenon DEF Named
  <2>3. QED
    BY <2>1, <2>2, Zenon DEF Named

\* Handlers name nobody new.
<1>NamedHandle. ASSUME Types, NEW m \in Mail, Handle(m.to, m)
                PROVE  Named' \subseteq Named
  <2> USE <1>NamedHandle
  <2>1. CASE NodeInNew(m.to, m)
    <3>1. m \in Message /\ m.to \in Server
      BY Zenon DEF Types, MailTypes, Good, Message
    <3>2. PICK x \in Server :
            /\ m.who = {x} /\ x # m.to
            /\ connects' = [connects EXCEPT ![m.to] = NodeInConnect(m.to, x)]
            /\ Answer(m, NodeInTell(m.to, m) \cup
                           (IF x \in conn[m.to] THEN SendDataToNode(m.to, x, topo'[m.to])
                            ELSE {}))
      BY <2>1, TakenIn, Zenon
    <3>3. m.kind \in News
      BY <2>1, Zenon DEF NodeInNew, Arrived, News
    <3>4. x \in Named
      BY <3>2, <3>3, Zenon DEF Named
    <3>5. ASSUME NEW s \in Server
          PROVE  Range(connects'[s]) \subseteq Range(connects[s]) \cup Named
      <4>1. connects[s] \in Seq(Server)
        BY Zenon DEF Types, TypeOK
      <4>2. connects'[s] = connects[s] \/ connects'[s] = Append(connects[s], x)
        BY <3>1, <3>2, Zenon DEF NodeInConnect, Types, TypeOK
      <4>3. Range(Append(connects[s], x)) \subseteq Range(connects[s]) \cup {x}
        BY <4>1 DEF Range
      <4>4. QED
        BY <3>4, <4>2, <4>3, Zenon
    <3>6. ASSUME NEW n \in Mail'
          PROVE  n \in Mail \/ n.kind \notin News \/ n.who = m.who
      <4>1. \/ n \in Mail \/ n \in NodeInTell(m.to, m)
            \/ n \in SendDataToNode(m.to, x, topo'[m.to])
        BY <3>2, Answering DEF Taken, Types
      <4>2. CASE n \in NodeInTell(m.to, m)
        BY <3>1, <3>2, <4>2, TellingAll
      <4>3. CASE n \in SendDataToNode(m.to, x, topo'[m.to])
        <5>1. n.kind \in {"SET", "SYNCDONE"}
          BY <3>1, <3>2, <4>3, DataMessages
        <5>2. QED
          BY <5>1, Zenon DEF News
      <4>4. QED
        BY <4>1, <4>2, <4>3, Zenon
    <3>7. QED
      BY <3>3, <3>5, <3>6, <1>NamedKept, Zenon
  <2>2. CASE ~ NodeInNew(m.to, m)
    <3>1. connects' = connects
      BY <2>2, Zenon DEF Handle, GetNetwork, Greet, Hello, Ok, NodeIn, Push, Set,
         SyncDone, NodeOut
    <3>2. CASE NodeIn(m.to, m)
      <4>1. m \in Message
        BY Zenon DEF Types, MailTypes, Good
      <4>2. PICK n : n = [m EXCEPT !.kind = "NODEIN new"]
        BY Zenon
      <4>3. n.who = m.who
        BY <4>1, <4>2, NewsFields, Zenon
      <4>4. m.kind \in News
        BY <3>2, Zenon DEF NodeIn, Arrived, News
      <4>5. Mail' \subseteq Mail \cup {n}
        <5>1. CASE FindGossip(m.to, m)
          <6>1. Answer(m, {})
            BY <3>2, <5>1, Zenon DEF NodeIn
          <6>2. QED
            BY <6>1, Consuming, Zenon DEF Types
        <5>2. CASE ~ FindGossip(m.to, m)
          BY <3>2, <4>2, <5>2, Answering, Zenon DEF NodeIn, Taken, Types
        <5>3. QED
          BY <5>1, <5>2, Zenon
      <4>6. QED
        BY <3>1, <4>3, <4>4, <4>5, <1>NamedKept, Zenon
    <3>3. CASE ~ NodeIn(m.to, m)
      <4>1. ASSUME NEW n \in Mail'
            PROVE  n \in Mail \/ n.kind \notin News
        <5>1. PICK S : Answer(m, S) /\ \A x \in S : x.kind \notin News
          <6>1. CASE GetNetwork(m.to, m)
            <7> PICK x : x = Msg("NETWORK", m.to, m.from, topo[m.to], {})
              BY Zenon
            <7>1. x.kind \notin News
              BY Zenon DEF Msg, News
            <7>2. Answer(m, {x})
              BY <6>1, Zenon DEF GetNetwork
            <7>3. QED
              BY <7>1, <7>2
          <6>2. CASE Greet(m.to, m)
            <7> PICK x : x = Tell("HELLO", m.to, m.from)
              BY Zenon
            <7>1. x.kind \notin News
              BY Zenon DEF Tell, Msg, News
            <7>2. Answer(m, {x})
              BY <6>2, Zenon DEF Greet
            <7>3. QED
              BY <7>1, <7>2
          <6>3. CASE Hello(m.to, m)
            <7> PICK x : x = Tell("OK", m.to, m.from)
              BY Zenon
            <7>1. x.kind \notin News
              BY Zenon DEF Tell, Msg, News
            <7>2. Answer(m, {x})
              BY <6>3, Zenon DEF Hello
            <7>3. QED
              BY <7>1, <7>2
          <6>4. CASE Ok(m.to, m) \/ Set(m.to, m) \/ SyncDone(m.to, m)
            BY <6>4 DEF Ok, Set, SyncDone
          <6>5. CASE Push(m.to, m)
            <7>1. PICK x \in m.who :
                      Answer(m, IF x \in conn[m.to] THEN SendDataToNode(m.to, x, topo[m.to])
                                ELSE {})
              BY <6>5, Zenon DEF Push
            <7>2. \A n1 \in SendDataToNode(m.to, x, topo[m.to]) : n1.kind \notin News
              <8> TAKE n1 \in SendDataToNode(m.to, x, topo[m.to])
              <8>1. \/ n1 = Tell("SYNCDONE", m.to, x)
                    \/ \E k : n1 = Msg("SET", m.to, x, {}, {k})
                BY Zenon DEF SendDataToNode
              <8>2. CASE n1 = Tell("SYNCDONE", m.to, x)
                BY <8>2, Zenon DEF Tell, Msg, News
              <8>3. CASE \E k : n1 = Msg("SET", m.to, x, {}, {k})
                <9>1. PICK k : n1 = Msg("SET", m.to, x, {}, {k})
                  BY <8>3, Zenon
                <9>2. QED
                  BY <9>1, Zenon DEF Msg, News
              <8>4. QED
                BY <8>1, <8>2, <8>3, Zenon
            <7>3. QED
              BY <7>1, <7>2
          <6>6. CASE NodeOut(m.to, m)
            <7> PICK S : S = IF FindGossip(m.to, m) THEN {}
                               ELSE {Msg("NODEOUT", m.to, t, m.who, {}) : t \in conn[m.to]}
              BY Zenon
            <7>1. \A x \in S : x.kind \notin News
              <8> TAKE x \in S
              <8>1. PICK t : x = Msg("NODEOUT", m.to, t, m.who, {})
                BY Zenon
              <8>2. QED
                BY <8>1, Zenon DEF Msg, News
            <7>2. Answer(m, S)
              BY <6>6, Zenon DEF NodeOut
            <7>3. QED
              BY <7>1, <7>2, Zenon
          <6>7. QED
            BY <2>2, <3>3, <6>1, <6>2, <6>3, <6>4, <6>5, <6>6, Zenon DEF Handle
        <5>2. n \in Mail \/ n \in S
          BY <5>1, Answering, Zenon DEF Taken, Types
        <5>3. QED
          BY <5>1, <5>2, Zenon
      <4>2. QED
        BY <3>1, <4>1, <1>NamedKept, Zenon
    <3>4. QED
      BY <3>2, <3>3, Zenon
  <2>3. QED
    BY <2>1, <2>2, Zenon

\* Servers that end name nobody new.
<1>NamedStop. ASSUME Types, NEW s \in Server, Shutdown(s) \/ Kill(s) \/ ConnectFails(s)
              PROVE  Named' \subseteq Named
  <2> USE <1>NamedStop
  <2>1. PICK sent : Stop(s, sent) /\ \A m \in sent : m.kind \in {"NODEOUT", "SET"}
    <3>1. CASE Kill(s)
      BY <3>1 DEF Kill
    <3>2. CASE GracefulShutdown(s)
      BY <3>2, ShutdownStops, Zenon
    <3>3. QED
      BY <3>1, <3>2, Zenon DEF Shutdown, ConnectFails
  <2>2. Mail' \subseteq Mail \cup sent
    BY <2>1, Stopping, Zenon DEF Types
  <2>3. \A t \in Server : connects'[t] = connects[t] \/ connects'[t] = <<>>
    BY <2>1, Zenon DEF Stop, Types, TypeOK
  <2>4. Range(<<>>) = {}
    BY DEF Range
  <2>5. QED
    BY <2>1, <2>2, <2>3, <2>4, <1>NamedKept, Zenon DEF News

\* A server that announces itself is named.
<1>NamedAnnounce. ASSUME Types, NEW j \in Server, Announce(j)
                  PROVE  Named' \subseteq Named \cup {j}
  <2> USE <1>NamedAnnounce
  <2> PICK n : n = Msg("NODEIN", j, peer[j], {j}, {})
    BY Zenon
  <2>1. n.who = {j}
    BY Zenon DEF Msg
  <2>2. Mail' \subseteq Mail \cup {n}
    BY Announced, Zenon DEF Types
  <2>3. connects' = connects
    BY Zenon DEF Announce
  <2>4. QED
    BY <2>1, <2>2, <2>3, Zenon DEF Named

\* A question names nobody new.
<1>NamedAsk. ASSUME Types, NEW j \in Server, NEW b \in Server, Ask(j, b)
             PROVE  Named' \subseteq Named
  <2> USE <1>NamedAsk
  <2> PICK n : n = Tell("GETNETWORK", j, b)
    BY Zenon
  <2>1. n.kind \notin News
    BY Zenon DEF Tell, Msg, News
  <2>2. Mail' \subseteq Mail \cup {n}
    BY Sending DEF Ask, Taken, Types
  <2>3. connects' = connects
    BY Zenon DEF Ask
  <2>4. QED
    BY <2>1, <2>2, <2>3, <1>NamedKept, Zenon

\* A connect names nobody new.
<1>NamedConnect.
      ASSUME Types, NEW s \in Server, Connect(s)
      PROVE  Named' \subseteq Named /\ peer' = [peer EXCEPT ![s] = Head(connects[s])]
  <2> USE <1>NamedConnect
  <2>1. connects[s] \in Seq(Server) /\ connects[s] # <<>>
    BY Zenon DEF Connect, Types, TypeOK
  <2> PICK n : n = Tell("HELLO", s, Head(connects[s]))
    BY Zenon
  <2>2. n.kind \notin News
    BY Zenon DEF Tell, Msg, News
  <2>3. Send({n})
    BY Zenon DEF Connect
  <2>4. Mail' \subseteq Mail \cup {n}
    BY <2>3, Sending DEF Taken, Types
  <2>5. Range(Tail(connects[s])) \subseteq Range(connects[s])
    BY <2>1 DEF Range
  <2>6. \A t \in Server : connects'[t] = IF t = s THEN Tail(connects[t]) ELSE connects[t]
    BY Zenon DEF Connect, Types, TypeOK
  <2>7. Named' \subseteq Named
    BY <2>2, <2>4, <2>5, <2>6, <1>NamedKept, Zenon
  <2>8. QED
    BY <2>7, Zenon DEF Connect

\* Nor does its end.
<1>NamedConnected. ASSUME Types, NEW s \in Server, Connected(s)
                   PROVE  Named' \subseteq Named
  <2> USE <1>NamedConnected
  <2> PICK n : n = Msg("PUSH", s, s, {peer[s]}, {})
    BY Zenon
  <2>1. n.kind \notin News
    BY Zenon DEF Msg, News
  <2>2. PICK m \in Mail : Answer(m, {n})
    BY Zenon DEF Connected, OnLink, Mail
  <2>3. Mail' \subseteq Mail \cup {n}
    BY <2>2, Answering, Zenon DEF Taken, Types
  <2>4. connects' = connects
    BY Zenon DEF Connected
  <2>5. QED
    BY <2>1, <2>3, <2>4, <1>NamedKept, Zenon

\* Nor a step that leaves messages and connects alone.
<1>NamedSame. ASSUME net' = net, connects' = connects
              PROVE  Named' \subseteq Named
  <2> USE <1>NamedSame
  <2>1. Mail' = Mail
    BY Zenon DEF Mail
  <2>2. QED
    BY <2>1, <1>NamedKept, Zenon

\* A step in which nobody ends.
<1>CalmKept.
      ASSUME Calm, faults' = faults, Named' \subseteq Named \cup {n \in Server : main'[n] = "up"},
             \A s \in Server : main'[s] \in Away => main'[s] = main[s]
      PROVE  Calm'
  <2> USE <1>CalmKept
  <2> SUFFICES ASSUME \A f \in faults : f[2] = "calm"
               PROVE  /\ \A s \in Server : main'[s] = "down" => \E f \in faults : f[1] = s
                      /\ \A n \in Named' : main'[n] \notin Away
    BY Zenon DEF Calm
  <2>1. /\ \A s \in Server : main[s] = "down" => \E f \in faults : f[1] = s
        /\ \A n \in Named : n \in Server /\ main[n] \notin Away
    BY Zenon DEF Calm, Named
  <2>2. \A s \in Server : main'[s] = "down" => main[s] = "down"
    BY Zenon DEF Away
  <2>3. \A n \in Named' : main'[n] \notin Away
    BY <2>1, Zenon DEF Away
  <2>4. QED
    BY <2>1, <2>2, <2>3, Zenon

\* Handlers take no server down and name none that is away.
<1>CalmHandle. ASSUME Types, Calm, NEW m \in Mail, Handle(m.to, m)
               PROVE  Calm'
  <2> USE <1>CalmHandle
  <2>1. Named' \subseteq Named
    BY <1>NamedHandle, Zenon
  <2>2. faults' = faults
    BY Zenon DEF Handle, GetNetwork, Greet, Hello, Ok, NodeIn, NodeInNew, Push, Set,
       SyncDone, NodeOut, past
  <2>3. main' = main \/ main' = [main EXCEPT ![m.to] = "greets"]
    BY Zenon DEF Handle, GetNetwork, Greet, Hello, Ok, NodeIn, NodeInNew, Push, Set,
       SyncDone, NodeOut
  <2>4. \A s \in Server : main'[s] \in Away => main'[s] = main[s]
    BY <2>3, Zenon DEF Away, Types, TypeOK
  <2>5. QED
    BY <2>1, <2>2, <2>4, <1>CalmKept, Zenon

\* A calm fault takes its server down, which nobody is about to connect to.
<1>CalmFault. ASSUME Types, Calm, NEW s \in Server, Shutdown(s) \/ Kill(s)
              PROVE  Calm'
  <2> USE <1>CalmFault
  <2> SUFFICES ASSUME \A f \in faults' : f[2] = "calm"
               PROVE  /\ \A t \in Server : main'[t] = "down" => \E f \in faults' : f[1] = t
                      /\ \A n \in Named' : main'[n] \notin Away
    BY Zenon DEF Calm
  <2>1. Fault(s) /\ \E sent : Stop(s, sent)
    BY ShutdownStops, Zenon DEF Shutdown, Kill
  <2>2. <<s, IF Quiet THEN "calm" ELSE "rough">> \in faults' /\ faults \subseteq faults'
    BY <2>1, Zenon DEF Fault
  <2>3. Quiet
    BY <2>2, Zenon
  <2>4. Named' = {}
    BY <2>3, QuietNamesNobody, <1>NamedStop, Zenon
  <2>5. main' = [main EXCEPT ![s] = "down"]
    BY <2>1, Zenon DEF Stop
  <2>6. \A t \in Server : main'[t] = "down" => t = s \/ main[t] = "down"
    BY <2>5, Zenon DEF Types, TypeOK
  <2>7. <<s, "calm">> \in faults'
    BY <2>2, <2>3, Zenon
  <2>8. \A t \in Server : main[t] = "down" => \E f \in faults' : f[1] = t
    BY <2>2, Zenon DEF Calm
  <2>9. QED
    BY <2>4, <2>6, <2>7, <2>8, Zenon

\* No step breaks Calm.
<1>CalmStep. Types /\ Calm /\ [Next]_vars => Calm'
  <2> SUFFICES ASSUME Types, Calm, [Next]_vars
               PROVE  Calm'
    BY Zenon
  <2>1. ASSUME NEW m \in Mail, Handle(m.to, m)
        PROVE  Calm'
    BY <2>1, <1>CalmHandle, Zenon
  <2>2. ASSUME NEW s \in Server, Announce(s)
        PROVE  Calm'
    <3>1. main' = [main EXCEPT ![s] = "up"] /\ faults' = faults
      BY <2>2, Zenon DEF Announce, past
    <3>2. \A t \in Server : main'[t] \in Away => main'[t] = main[t]
      BY <3>1, Zenon DEF Away, Types, TypeOK
    <3>3. main'[s] = "up"
      BY <3>1, Zenon DEF Types, TypeOK
    <3>4. QED
      BY <2>2, <3>1, <3>2, <3>3, <1>NamedAnnounce, <1>CalmKept, Zenon
  <2>3. ASSUME NEW s \in Server, Connect(s) \/ Connected(s)
        PROVE  Calm'
    <3>1. /\ main' = [main EXCEPT ![s] = "connects"] \/ main' = [main EXCEPT ![s] = "up"]
          /\ faults' = faults
      BY <2>3, Zenon DEF Connect, Connected, past
    <3>2. \A t \in Server : main'[t] \in Away => main'[t] = main[t]
      BY <3>1, Zenon DEF Away, Types, TypeOK
    <3>3. QED
      BY <2>3, <3>1, <3>2, <1>NamedConnect, <1>NamedConnected, <1>CalmKept, Zenon
  <2>4. ASSUME NEW s \in Server, ConnectFails(s)
        PROVE  Calm'
    <3>1. faults' = faults /\ main[Head(connects[s])] \in Away /\ connects[s] # <<>>
      BY <2>4, Zenon DEF ConnectFails, past
    <3>2. QED
      BY <3>1, HeadNamed, Zenon DEF Calm
  <2>5. ASSUME NEW s \in Server, NEW t \in Server, CheckTimeouts(s, t)
        PROVE  Calm'
    <3>1. \A u \in Server : main'[u] \in Away => main'[u] = main[u]
      <4>1. CASE main' = main
        BY <4>1, Zenon
      <4>2. CASE main' = [main EXCEPT ![s] = IF @ = "up" THEN "stuck" ELSE @]
        BY <4>2, Zenon DEF Away, Types, TypeOK
      <4>3. QED
        BY <2>5, <4>1, <4>2, Zenon DEF CheckTimeouts
    <3>2. Named' \subseteq Named /\ faults' = faults
      BY <2>5, <1>NamedSame, Zenon DEF CheckTimeouts, past
    <3>3. QED
      BY <3>1, <3>2, <1>CalmKept, Zenon
  <2>6. ASSUME NEW s \in Server, NEW t \in Server, Ask(s, t)
        PROVE  Calm'
    <3>1. main' = [main EXCEPT ![s] = "asks"] /\ faults' = faults
      BY <2>6, Zenon DEF Ask
    <3>2. \A u \in Server : main'[u] \in Away => main'[u] = main[u]
      BY <3>1, Zenon DEF Away, Types, TypeOK
    <3>3. QED
      BY <2>6, <3>1, <3>2, <1>NamedAsk, <1>CalmKept, Zenon
  <2>7. ASSUME NEW s \in Server, Shutdown(s) \/ Kill(s)
        PROVE  Calm'
    BY <2>7, <1>CalmFault, Zenon
  <2>8. ASSUME UNCHANGED vars
        PROVE  Calm'
    <3>1. Named' \subseteq Named /\ faults' = faults /\ main' = main
      BY <2>8, <1>NamedSame, Zenon DEF vars, past
    <3>2. QED
      BY <3>1, <1>CalmKept, Zenon
  <2>9. QED
    BY <2>1, <2>2, <2>3, <2>4, <2>5, <2>6, <2>7, <2>8, Zenon DEF Next, Progress, Mail

\* A step that starts no wait and names nobody new.
<1>OnlyKept. ASSUME NEW j \in Server, Only(j), Named' \subseteq Named,
                    \A s \in Server : \/ main'[s] = main[s] /\ peer'[s] = peer[s]
                                      \/ main'[s] \notin {"asks", "greets", "connects"}
             PROVE  Only(j)'
  BY <1>OnlyKept, Zenon DEF Only

\* A handler starts waits for j only.
<1>LoneHandle. ASSUME Types, NEW m \in Mail, Handle(m.to, m), NEW j \in Server, Only(j)
               PROVE  Only(j)'
  <2> USE <1>LoneHandle
  <2>1. Named' \subseteq Named
    BY <1>NamedHandle, Zenon
  <2>2. CASE Greet(m.to, m)
    <3>1. m.to \in Server /\ main[m.to] = "asks"
      BY <2>2, Zenon DEF Greet, Types, MailTypes, Good, Message
    <3>2. m.to = j
      BY <3>1, Zenon DEF Only
    <3>3. main' = [main EXCEPT ![j] = "greets"] /\ peer' = peer
      BY <2>2, <3>2, Zenon DEF Greet
    <3>4. QED
      BY <2>1, <3>1, <3>2, <3>3 DEF Only, Types, TypeOK
  <2>3. CASE ~ Greet(m.to, m)
    <3>1. main' = main /\ peer' = peer
      BY <2>3, Zenon DEF Handle, GetNetwork, Hello, Ok, NodeIn, NodeInNew, Push, Set,
         SyncDone, NodeOut
    <3>2. QED
      BY <2>1, <3>1, <1>OnlyKept, Zenon
  <2>4. QED
    BY <2>2, <2>3, Zenon

\* A server that asks while nothing is under way is the one that matters.
<1>LoneAsk. ASSUME Types, NEW s \in Server, NEW t \in Server, Ask(s, t), ~ crossed'
            PROVE  Only(s)'
  <2> USE <1>LoneAsk
  <2>1. Quiet
    BY Zenon DEF Ask
  <2>2. Named' = {}
    BY <2>1, <1>NamedAsk, QuietNamesNobody, Zenon
  <2>3. \A u \in Server : u # s => main'[u] \in {"off", "up", "down"}
    BY <2>1, Zenon DEF Ask, Quiet, Types, TypeOK
  <2>4. main'[s] = "asks"
    BY Zenon DEF Ask, Types, TypeOK
  <2>5. QED
    BY <2>2, <2>3, <2>4, Zenon DEF Only

\* No step breaks Lone.
<1>LoneStep. Types /\ Lone /\ [Next]_vars => Lone'
  <2> SUFFICES ASSUME Types, Lone, [Next]_vars, ~ crossed'
               PROVE  \E j \in Server : Only(j)'
    BY Zenon DEF Lone
  <2>1. ASSUME NEW s \in Server, NEW t \in Server, Ask(s, t)
        PROVE  \E j \in Server : Only(j)'
    BY <2>1, <1>LoneAsk, Zenon
  <2>2. ASSUME crossed' = crossed
        PROVE  \E j \in Server : Only(j)
    BY <2>2, Zenon DEF Lone
  <2>3. ASSUME NEW m \in Mail, Handle(m.to, m)
        PROVE  \E j \in Server : Only(j)'
    <3>1. crossed' = crossed
      BY <2>3, Zenon DEF Handle, GetNetwork, Greet, Hello, Ok, NodeIn, NodeInNew, Push,
         Set, SyncDone, NodeOut, past
    <3>2. QED
      BY <2>2, <2>3, <3>1, <1>LoneHandle, Zenon
  <2>4. ASSUME NEW s \in Server, Announce(s)
        PROVE  \E j \in Server : Only(j)'
    <3>1. /\ crossed' = crossed /\ main[s] = "greets" /\ peer' = peer
          /\ main' = [main EXCEPT ![s] = "up"]
      BY <2>4, Zenon DEF Announce, past
    <3>2. PICK j \in Server : Only(j)
      BY <2>2, <3>1, Zenon
    <3>3. s = j
      BY <3>1, <3>2, Zenon DEF Only
    <3>4. Named' \subseteq {j}
      BY <2>4, <3>2, <3>3, <1>NamedAnnounce, Zenon DEF Only
    <3>5. Only(j)'
      BY <3>1, <3>2, <3>3, <3>4, Zenon DEF Only, Types, TypeOK
    <3>6. QED
      BY <3>5, Zenon
  <2>5. ASSUME NEW s \in Server, Connect(s)
        PROVE  \E j \in Server : Only(j)'
    <3>1. /\ crossed' = crossed /\ main[s] = "up" /\ connects[s] # <<>>
          /\ main' = [main EXCEPT ![s] = "connects"]
      BY <2>5, Zenon DEF Connect, past
    <3>2. PICK j \in Server : Only(j)
      BY <2>2, <3>1, Zenon
    <3>3. Head(connects[s]) = j /\ main[j] \notin {"asks", "greets"}
      BY <3>1, <3>2, HeadNamed, Zenon DEF Only
    <3>4. peer' = [peer EXCEPT ![s] = j] /\ Named' \subseteq Named
      BY <2>5, <3>3, <1>NamedConnect, Zenon
    <3>5. Only(j)'
      BY <3>1, <3>2, <3>3, <3>4, Zenon DEF Only, Types, TypeOK
    <3>6. QED
      BY <3>5, Zenon
  <2>6. ASSUME NEW s \in Server, Connected(s)
        PROVE  \E j \in Server : Only(j)'
    <3>1. crossed' = crossed /\ peer' = peer /\ main' = [main EXCEPT ![s] = "up"]
      BY <2>6, Zenon DEF Connected, past
    <3>2. \A u \in Server : main'[u] = main[u] \/ main'[u] = "up"
      BY <3>1, Zenon DEF Types, TypeOK
    <3>3. QED
      BY <2>2, <2>6, <3>1, <3>2, <1>NamedConnected, <1>OnlyKept, Zenon
  <2>7. ASSUME NEW s \in Server, Shutdown(s) \/ Kill(s) \/ ConnectFails(s)
        PROVE  \E j \in Server : Only(j)'
    <3>1. crossed' = crossed /\ peer' = peer
      BY <2>7, Zenon DEF Shutdown, Kill, ConnectFails, Fault, past
    <3>2. main' = [main EXCEPT ![s] = "down"]
      BY <2>7, ShutdownStops, Zenon DEF Shutdown, Kill, ConnectFails, Stop
    <3>3. \A u \in Server : main'[u] = main[u] \/ main'[u] = "down"
      BY <3>2, Zenon DEF Types, TypeOK
    <3>4. QED
      BY <2>2, <2>7, <3>1, <3>3, <1>NamedStop, <1>OnlyKept, Zenon
  <2>8. ASSUME NEW s \in Server, NEW t \in Server, CheckTimeouts(s, t)
        PROVE  \E j \in Server : Only(j)'
    <3>1. crossed' = crossed /\ peer' = peer /\ Named' \subseteq Named
      BY <2>8, <1>NamedSame, Zenon DEF CheckTimeouts, past
    <3>2. \A u \in Server : main'[u] = main[u] \/ main'[u] = "stuck"
      <4>1. CASE main' = main
        BY <4>1, Zenon
      <4>2. CASE main' = [main EXCEPT ![s] = IF @ = "up" THEN "stuck" ELSE @]
        BY <4>2, Zenon DEF Types, TypeOK
      <4>3. QED
        BY <2>8, <4>1, <4>2, Zenon DEF CheckTimeouts
    <3>3. QED
      BY <2>2, <3>1, <3>2, <1>OnlyKept, Zenon
  <2>9. ASSUME UNCHANGED vars
        PROVE  \E j \in Server : Only(j)'
    <3>1. crossed' = crossed /\ peer' = peer /\ main' = main /\ Named' \subseteq Named
      BY <2>9, <1>NamedSame, Zenon DEF vars, past
    <3>2. QED
      BY <2>2, <3>1, <1>OnlyKept, Zenon
  <2>10. QED
    BY <2>1, <2>3, <2>4, <2>5, <2>6, <2>7, <2>8, <2>9, Zenon DEF Next, Progress, Mail

<1>1. QED
  BY <1>CalmStep, <1>LoneStep, Zenon

\* Servers that wait wait for one that does not wait for itself.
LEMMA LoneNoCircle ==
    ASSUME Types, Lone
    PROVE  NoCircleOfWaits
<1> SUFFICES ASSUME ~ crossed, NEW W \in (SUBSET Server) \ {{}},
                    \A s \in W : /\ main[s] \in {"asks", "greets", "connects"}
                                 /\ peer[s] \in W
             PROVE  FALSE
  BY Zenon DEF NoCircleOfWaits
<1>1. PICK j \in Server : Only(j)
  BY Zenon DEF Lone
<1>2. PICK w : w \in W
  BY Zenon
<1>3. CASE main[j] \in {"asks", "greets"}
  <2>1. \A s \in W : s = j
    BY <1>1, <1>3, Zenon DEF Only
  <2>2. j \in W /\ peer[j] = j
    BY <1>2, <2>1, Zenon
  <2>3. QED
    BY <2>2, Zenon DEF Types, OtherPeer
<1>4. CASE main[j] \notin {"asks", "greets"}
  <2>1. \A s \in W : main[s] = "connects" /\ peer[s] = j
    BY <1>1, <1>4, Zenon DEF Only
  <2>2. j \in W /\ peer[j] = j
    BY <1>2, <2>1, Zenon
  <2>3. QED
    BY <2>2, Zenon DEF Types, OtherPeer
<1>5. QED
  BY <1>3, <1>4, Zenon

-----------------------------------------------------------------------------
(* Nobody is down.                                                         *)

Running == \A s \in Server : main[s] # "down"

\* Without faults nobody is down.
LEMMA NobodyDown ==
    ASSUME Calm, faults = {}
    PROVE  Running
  BY Zenon DEF Calm, Running

\* Links to servers that run take everything.
LEMMA TakenAll ==
    ASSUME Running, NEW S, \A m \in S : m.to \in Server
    PROVE  Taken(S) = S
  BY Zenon DEF Running, Taken

\* The steps that are left while nobody is killed or shut down.
LEMMA FaultFree ==
    ASSUME Types, Running, Calm, [Next]_vars, faults' = {}
    PROVE  \/ UNCHANGED vars
           \/ \E m \in Mail : Handle(m.to, m)
           \/ \E s \in Server : Announce(s) \/ Connect(s) \/ Connected(s)
           \/ \E s, t \in Server : Ask(s, t)
<1>1. ~ \E t \in Server : ConnectFails(t)
  <2> SUFFICES ASSUME NEW t \in Server, ConnectFails(t)
               PROVE  FALSE
    BY Zenon
  <2>1. connects[t] # <<>> /\ main[Head(connects[t])] \in Away /\ faults' = faults
    BY Zenon DEF ConnectFails, past
  <2>2. QED
    BY <2>1, HeadNamed, Zenon DEF Calm
<1>2. ~ \E t, u \in Server : CheckTimeouts(t, u)
  BY Zenon DEF CheckTimeouts, Running
<1>3. ~ \E t \in Server : Shutdown(t) \/ Kill(t)
  BY Zenon DEF Shutdown, Kill, Fault
<1>4. QED
  BY <1>1, <1>2, <1>3, Zenon DEF Next, Progress, Mail

\* What has crossed, or failed, stays so.
LEMMA History ==
    ASSUME [Next]_vars
    PROVE  (crossed => crossed') /\ faults \subseteq faults'
<1> DEFINE Kept == (crossed => crossed') /\ faults \subseteq faults'
<1>1. ASSUME NEW m, Handle(m.to, m)
      PROVE  Kept
  <2>1. crossed' = crossed /\ faults' = faults
    BY <1>1, Zenon DEF Handle, GetNetwork, Greet, Hello, Ok, NodeIn, NodeInNew, Push,
       Set, SyncDone,
                NodeOut, past
  <2>2. QED
    BY <2>1, Zenon
<1>2. ASSUME NEW s, Announce(s) \/ Connect(s) \/ ConnectFails(s) \/ Connected(s)
      PROVE  Kept
  BY <1>2 DEF Announce, Connect, ConnectFails, Connected, past
<1>3. ASSUME NEW s, NEW t, CheckTimeouts(s, t)
      PROVE  Kept
  BY <1>3, Zenon DEF CheckTimeouts, past
<1>4. ASSUME NEW s, NEW t, Ask(s, t)
      PROVE  Kept
  BY <1>4, Zenon DEF Ask
<1>5. ASSUME NEW s, Shutdown(s) \/ Kill(s)
      PROVE  Kept
  BY <1>5 DEF Shutdown, Kill, Fault
<1>6. ASSUME UNCHANGED vars
      PROVE  Kept
  BY <1>6, Zenon DEF vars, past
<1>7. QED
  BY <1>1, <1>2, <1>3, <1>4, <1>5, <1>6, Zenon DEF Next, Progress

-----------------------------------------------------------------------------
(* Joins that cross.                                                       *)

\* The servers that run, and those among them that have joined.
Founders == case.founders
Members == {s \in Server : main[s] \in {"up", "connects"}}
Born == Members \ Founders

\* The servers that joined hang on the one they asked, par, and the founders on
\* each other.
Near(par, w, v) ==
    \/ w \in Born /\ v = par[w]
    \/ v \in Born /\ w = par[v]
    \/ w \in Founders /\ v \in Founders /\ w # v

\* rank is the order in which they announced themselves; n is the next one.
Tree(rank, par, n) ==
    /\ rank \in [Server -> Nat] /\ par \in [Server -> Server] /\ n \in Nat \ {0}
    /\ \A f \in Founders : rank[f] = 0
    /\ \A c \in Born : /\ 0 < rank[c] /\ rank[c] < n
                       /\ par[c] \in Members /\ rank[par[c]] < rank[c]
                       /\ \A d \in Born : rank[c] = rank[d] => c = d

\* v is in connect, with u.
Waits(v, u) == main[v] = "connects" /\ peer[v] = u

\* Those that are near are connected, and never connect to each other again: a
\* connect may take news for its answer.
Linked(par) ==
    \A w, v \in Server :
        Near(par, w, v) => v \in conn[w] /\ v \notin Range(connects[w]) /\ ~ Waits(w, v)

\* News of u are on their way from w to v.
Tells(u, w, v) ==
    \E m \in Mail : m.kind \in News /\ m.from = w /\ m.to = v /\ m.who = {u}

\* News of a server reach those that announced themselves before it.
Spread(rank, par) ==
    \A u \in Born, w, v \in Server :
        Near(par, w, v) /\ rank[v] < rank[u] /\ u \in gossip[w]
            => u \in gossip[v] \/ Tells(u, w, v)

\* v knows the servers it has heard of, and is connected to them or connects.
Knows(v) ==
    /\ gossip[v] \subseteq Born /\ Range(connects[v]) \subseteq Born
    /\ main[v] = "connects" => peer[v] \in Born
    /\ v \in Born => v \in gossip[v]
    /\ v \notin Members => gossip[v] = {} /\ Range(connects[v]) = {}
    /\ v \in Founders => v \in Members /\ Founders \subseteq topo[v]
    /\ \A u \in gossip[v] \ {v} :
          u \in topo[v] /\ (u \in conn[v] \/ u \in Range(connects[v]) \/ Waits(v, u))

\* A greeting of v is on its way to u.
Hail(v, u) == Tell("HELLO", v, u) \in Mail

\* A server that another one is connected to is connected to it, or will be.
Mutual(v, u) ==
    /\ u \in conn[v] => v \in conn[u] \/ Hail(v, u) \/ Waits(u, v)
    /\ Hail(v, u) => u \in conn[v] \/ Waits(v, u)
    /\ main[v] \in {"greets", "connects"} /\ peer[v] = u => v \in conn[u] \/ Hail(v, u)
    /\ main[v] = "greets" /\ peer[v] = u => u \in Members /\ u \in conn[v]

\* What is said before the first greeting.  Nobody leaves.
Call(m) ==
    /\ m.kind = "GETNETWORK" => /\ main[m.from] # "off"
                                /\ main[m.from] = "asks" => peer[m.from] = m.to
    /\ m.kind = "NETWORK" => /\ m.from \in Members /\ main[m.to] # "off"
                             /\ main[m.to] = "asks" => peer[m.to] = m.from
    /\ m.kind = "HELLO" => m = Tell("HELLO", m.from, m.to)
    /\ m.kind # "NODEOUT"

\* The part that does not speak of the tree.
Talk ==
    /\ \A v \in Server : Knows(v)
    /\ \A v, u \in Server : Mutual(v, u)
    /\ \A m \in Mail : Call(m)

Crossing(rank, par, n) ==
    Tree(rank, par, n) /\ Linked(par) /\ Spread(rank, par) /\ Talk

Cross ==
    faults = {} =>
        \E rank \in [Server -> Nat], par \in [Server -> Server], n \in Nat :
            Crossing(rank, par, n)

\* The tree stays while the servers that run are the same.
LEMMA SameTree ==
    ASSUME Members' = Members, case' = case, NEW rank, NEW par, NEW n,
           Tree(rank, par, n)
    PROVE  /\ Tree(rank, par, n)' /\ Born' = Born /\ Founders' = Founders
           /\ \A w, v : Near(par, w, v)' <=> Near(par, w, v)
<1>1. Founders' = Founders
  BY Zenon DEF Founders
<1>2. Born' = Born
  BY <1>1, Zenon DEF Born
<1>3. Tree(rank, par, n)'
  BY <1>1, <1>2, Zenon DEF Tree
<1>4. QED
  BY <1>1, <1>2, <1>3, Zenon DEF Near

\* A step that changes only what is under way.
LEMMA CrossMail ==
    ASSUME NEW rank, NEW par, NEW n, Crossing(rank, par, n),
           UNCHANGED <<main, peer, views, connects, case>>,
           \A v, u : Hail(v, u)' <=> Hail(v, u),
           \A m \in Mail' : m \in Mail \/ Call(m),
           \A u \in Born, w, v \in Server : Tells(u, w, v) => Tells(u, w, v)' \/ u \in gossip[v]
    PROVE  Crossing(rank, par, n)'
<1>1. UNCHANGED <<main, peer, topo, conn, gossip, connects, case>>
  BY Zenon DEF views
<1>2. Members' = Members
  BY <1>1, Zenon DEF Members
<1>3. /\ Tree(rank, par, n)' /\ Born' = Born /\ Founders' = Founders
      /\ \A w, v : Near(par, w, v)' <=> Near(par, w, v)
  BY <1>1, <1>2, SameTree, Zenon DEF Crossing
<1>4. \A v, u : Waits(v, u)' <=> Waits(v, u)
  BY <1>1, Zenon DEF Waits
<1>5. Linked(par)'
  BY <1>1, <1>3, <1>4, Zenon DEF Crossing, Linked
<1>6. Spread(rank, par)'
  BY <1>1, <1>3, Zenon DEF Crossing, Spread
<1>7. ASSUME NEW v \in Server
      PROVE  Knows(v)'
  <2>1. Knows(v)
    BY Zenon DEF Crossing, Talk
  <2>2. QED
    BY <1>1, <1>2, <1>3, <1>4, <2>1, Zenon DEF Knows
<1>8. ASSUME NEW v \in Server, NEW u \in Server
      PROVE  Mutual(v, u)'
  <2>1. Mutual(v, u)
    BY Zenon DEF Crossing, Talk
  <2>2. QED
    BY <1>1, <1>2, <1>4, <2>1, Zenon DEF Mutual
<1>9. \A m \in Mail' : Call(m)'
  <2>1. \A m : Call(m) => Call(m)'
    BY <1>1, <1>2, Zenon DEF Call
  <2>2. QED
    BY <2>1, Zenon DEF Crossing, Talk
<1>10. QED
  BY <1>3, <1>5, <1>6, <1>7, <1>8, <1>9, Zenon DEF Crossing, Talk

\* The keys and the histories are not part of it.
LEMMA CrossSame ==
    ASSUME NEW rank, NEW par, NEW n, Crossing(rank, par, n),
           UNCHANGED <<main, peer, views, connects, case, net>>
    PROVE  Crossing(rank, par, n)'
<1>1. Mail' = Mail
  BY Zenon DEF Mail
<1>2. /\ \A v, u : Hail(v, u)' <=> Hail(v, u)
      /\ \A u, w, v : Tells(u, w, v)' <=> Tells(u, w, v)
  BY <1>1, Zenon DEF Hail, Tells
<1>3. QED
  BY <1>1, <1>2, CrossMail, Zenon

\* m is gone, or one of it, and S has come, but no greeting.
Took(m, S) ==
    /\ Mail' \subseteq Mail \cup S /\ Mail \ {m} \subseteq Mail' /\ S \subseteq Mail'
    /\ \A v, u : Hail(v, u)' <=> Hail(v, u)

\* Neither m nor S are greetings.
Plain(m, S) ==
    m.kind # "HELLO" /\ \A x \in S : x.to \in Server /\ x.kind # "HELLO"

\* The founders are near to each other, and nobody has joined.
LEMMA CrossInit == Init => Cross
<1> SUFFICES ASSUME Init
             PROVE  Crossing([s \in Server |-> 0], [s \in Server |-> s], 1)
  BY Zenon DEF Cross
<1> PICK r : r = [s \in Server |-> 0]
  BY Zenon
<1> PICK q : q = [s \in Server |-> s]
  BY Zenon
<1>1. Founders \subseteq Server
  BY JoinAssumption, Zenon DEF Init, Founders
<1>2. /\ main = [s \in Server |-> IF s \in Founders THEN "up" ELSE "off"]
      /\ topo = [s \in Server |-> IF s \in Founders THEN Founders ELSE {s}]
      /\ conn = [s \in Server |-> IF s \in Founders THEN Founders \ {s} ELSE {}]
      /\ gossip = [s \in Server |-> {}] /\ connects = [s \in Server |-> <<>>]
  BY Zenon DEF Init, Founders
<1>3. Mail = {} /\ Range(<<>>) = {}
  BY DEF Init, Mail, Range
<1>4. Members = Founders /\ Born = {}
  <2>1. Members = Founders
    BY <1>1, <1>2, Zenon DEF Members
  <2>2. QED
    BY <2>1, Zenon DEF Born
<1>5. r \in [Server -> Nat] /\ q \in [Server -> Server] /\ 1 \in Nat \ {0}
      /\ \A s \in Server : r[s] = 0
  OBVIOUS
<1>6. Tree(r, q, 1)
  BY <1>1, <1>4, <1>5, Zenon DEF Tree
<1>7. \A v, u \in Server : ~ Waits(v, u) /\ ~ Hail(v, u)
  BY <1>2, <1>3, Zenon DEF Waits, Hail
<1>8. Linked(q)
  BY <1>2, <1>3, <1>4, <1>7, Zenon DEF Linked, Near
<1>9. Spread(r, q)
  BY <1>4, Zenon DEF Spread
<1>10. \A v \in Server : Knows(v)
  BY <1>2, <1>3, <1>4, Zenon DEF Knows
<1>11. \A v, u \in Server : Mutual(v, u)
  BY <1>2, <1>7, Zenon DEF Mutual
<1>12. QED
  BY <1>3, <1>6, <1>8, <1>9, <1>10, <1>11, Zenon DEF Crossing, Talk

\* Nothing that a server does breaks it.
LEMMA CrossStep == Types /\ Calm /\ Cross /\ [Next]_vars => Cross'
\* Those that are near run, and each is near to the other.
<1>NearMembers. ASSUME NEW rank, NEW par, NEW n, Crossing(rank, par, n),
                       NEW w \in Server, NEW v \in Server, Near(par, w, v)
                PROVE  w \in Members /\ v \in Members /\ Near(par, v, w)
  <2> USE <1>NearMembers
  <2>1. \A c \in Born : c \in Members /\ par[c] \in Members
    BY Zenon DEF Crossing, Tree, Born
  <2>2. \A f \in Server : f \in Founders => f \in Members
    BY Zenon DEF Crossing, Talk, Knows
  <2>3. QED
    BY <2>1, <2>2, Zenon DEF Near

\* Greetings have no other contents, and only Hello takes them.
<1>HailFields. \A v, u : /\ Tell("HELLO", v, u).kind = "HELLO"
                         /\ Tell("HELLO", v, u).from = v /\ Tell("HELLO", v, u).to = u
  BY Zenon DEF Tell, Msg

\* News that are not taken stay under way.
<1>TellsKept.
      ASSUME NEW u, NEW w, NEW v, Tells(u, w, v),
             \A m \in Mail : m.kind \in News /\ m.from = w /\ m.to = v => m \in Mail'
      PROVE  Tells(u, w, v)'
  BY <1>TellsKept, Zenon DEF Tells

\* A queue is its head and its tail.
<1>HeadAndTail. ASSUME NEW q \in Seq(Server), q # <<>>
                PROVE  /\ Head(q) \in Server /\ Head(q) \in Range(q)
                       /\ Range(Tail(q)) \subseteq Range(q)
                       /\ \A x \in Range(q) : x = Head(q) \/ x \in Range(Tail(q))
  <2> USE <1>HeadAndTail
  <2>1. Head(q) \in Server /\ Head(q) \in Range(q) /\ Range(Tail(q)) \subseteq Range(q)
    BY DEF Range
  <2>2. ASSUME NEW x \in Range(q), x # Head(q)
        PROVE  x \in Range(Tail(q))
    <3>1. PICK i \in DOMAIN q : q[i] = x
      BY Zenon DEF Range
    <3>2. i - 1 \in DOMAIN Tail(q) /\ Tail(q)[i - 1] = x
      BY <2>2, <3>1
    <3>3. QED
      BY <3>2, Zenon DEF Range
  <2>3. QED
    BY <2>1, <2>2, Zenon

\* What is under way after m has been answered with S.
<1>Handled. ASSUME Types, Running, NEW m \in Mail, NEW S, Answer(m, S), Plain(m, S)
            PROVE  Took(m, S)
  <2> USE <1>Handled
  <2>1. Taken(S) = S
    BY TakenAll, Zenon DEF Plain
  <2>2. Mail' \subseteq Mail \cup S /\ Mail \ {m} \subseteq Mail' /\ S \subseteq Mail'
    BY <2>1, Answering, Zenon DEF Types
  <2>3. ASSUME NEW v, NEW u
        PROVE  Hail(v, u)' <=> Hail(v, u)
    <3>1. Tell("HELLO", v, u).kind = "HELLO"
      BY <1>HailFields, Zenon
    <3>2. QED
      BY <2>2, <3>1, Zenon DEF Hail, Plain
  <2>4. QED
    BY <2>2, <2>3, Zenon DEF Took

\* Handlers that only take a message.
<1>CrossConsume. ASSUME Types, Running, NEW rank, NEW par, NEW n, Crossing(rank, par, n),
                        NEW m \in Mail, Ok(m.to, m) \/ Set(m.to, m) \/ SyncDone(m.to, m)
                 PROVE  Crossing(rank, par, n)'
  <2> USE <1>CrossConsume
  <2>1. m.kind \in {"OK", "SET", "SYNCDONE"} /\ Answer(m, {})
    BY Zenon DEF Ok, Set, SyncDone, Arrived
  <2>2. UNCHANGED <<main, peer, views, connects, case>>
    BY Zenon DEF Ok, Set, SyncDone, past
  <2>6. m.kind # "HELLO" /\ m.kind \notin News
    BY <2>1, Zenon DEF News
  <2>7. Plain(m, {})
    BY <2>6, Zenon DEF Plain
  <2>3. Took(m, {})
    BY <2>1, <2>7, <1>Handled, Zenon
  <2>4. \A u, w, v : Tells(u, w, v) => Tells(u, w, v)'
    BY <2>3, <2>6, Zenon DEF Tells, Took
  <2>5. QED
    BY <2>2, <2>3, <2>4, CrossMail, Zenon DEF Took

\* The topology of a server that runs is sent.
<1>CrossGetNetwork.
      ASSUME Types, Running, NEW rank, NEW par, NEW n, Crossing(rank, par, n),
             NEW m \in Mail, GetNetwork(m.to, m)
      PROVE  Crossing(rank, par, n)'
  <2> USE <1>CrossGetNetwork
  <2> PICK a : a = Msg("NETWORK", m.to, m.from, topo[m.to], {})
    BY Zenon
  <2>1. a.kind = "NETWORK" /\ a.from = m.to /\ a.to = m.from
    BY Zenon DEF Msg
  <2>2. m.kind = "GETNETWORK" /\ Answer(m, {a}) /\ main[m.to] = "up"
    BY Zenon DEF GetNetwork, Arrived
  <2>3. m.from \in Server /\ m.to \in Server
    BY Zenon DEF Types, MailTypes, Good, Message
  <2>4. UNCHANGED <<main, peer, views, connects, case>>
    BY Zenon DEF GetNetwork, past
  <2>9. Plain(m, {a})
    BY <2>1, <2>2, <2>3, Zenon DEF Plain
  <2>5. Took(m, {a})
    BY <2>2, <2>9, <1>Handled, Zenon
  <2>6. \A u, w, v : Tells(u, w, v) => Tells(u, w, v)'
    BY <2>2, <2>5, Zenon DEF Tells, News, Took
  <2>7. Call(a)
    <3>1. main[m.from] # "off" /\ (main[m.from] = "asks" => peer[m.from] = m.to)
      BY <2>2, Zenon DEF Crossing, Talk, Call
    <3>2. m.to \in Members
      BY <2>2, <2>3, Zenon DEF Members
    <3>3. QED
      BY <2>1, <3>1, <3>2, Zenon DEF Call
  <2>8. QED
    BY <2>4, <2>5, <2>6, <2>7, CrossMail, Zenon DEF Took

\* A worker pushes data.
<1>CrossPush. ASSUME Types, Running, NEW rank, NEW par, NEW n, Crossing(rank, par, n),
                     NEW m \in Mail, Push(m.to, m)
              PROVE  Crossing(rank, par, n)'
  <2> USE <1>CrossPush
  <2>1. m.kind = "PUSH" /\ m.to \in Server /\ m.who \subseteq Server
    <3>1. m.kind = "PUSH"
      BY Zenon DEF Push, Arrived
    <3>2. QED
      BY <3>1, Zenon DEF Types, MailTypes, Good, Message
  <2>2. PICK x \in m.who :
            Answer(m, IF x \in conn[m.to] THEN SendDataToNode(m.to, x, topo[m.to]) ELSE {})
    BY Zenon DEF Push
  <2> PICK S : S = IF x \in conn[m.to] THEN SendDataToNode(m.to, x, topo[m.to]) ELSE {}
    BY Zenon
  <2>3. ASSUME NEW a \in S
        PROVE  a.kind \in {"SET", "SYNCDONE"} /\ a.to \in Server
    <3>1. x \in conn[m.to] /\ a \in SendDataToNode(m.to, x, topo[m.to])
      BY Zenon
    <3>2. x \in Server /\ x # m.to
      BY <2>1, <3>1, Zenon DEF Types, TypeOK
    <3>3. QED
      BY <2>1, <3>1, <3>2, DataMessages
  <2>4. UNCHANGED <<main, peer, views, connects, case>>
    BY Zenon DEF Push, past
  <2>9. Plain(m, S)
    BY <2>1, <2>2, <2>3, Zenon DEF Plain
  <2>5. Took(m, S)
    BY <2>2, <2>9, <1>Handled, Zenon
  <2>6. \A u, w, v : Tells(u, w, v) => Tells(u, w, v)'
    BY <2>1, <2>5, Zenon DEF Tells, News, Took
  <2>7. \A a \in S : Call(a)
    BY <2>3, Zenon DEF Call
  <2>8. QED
    BY <2>4, <2>5, <2>6, <2>7, CrossMail, Zenon DEF Took

\* NODEIN is old news, or the task to take a server in.
<1>CrossNodeIn. ASSUME Types, Running, NEW rank, NEW par, NEW n, Crossing(rank, par, n),
                       NEW m \in Mail, NodeIn(m.to, m)
                PROVE  Crossing(rank, par, n)'
  <2> USE <1>CrossNodeIn
  <2>1. m.kind = "NODEIN" /\ m \in Message /\ m.to \in Server
    <3>1. m.kind = "NODEIN" /\ m \in Message
      BY Zenon DEF NodeIn, Arrived, Types, MailTypes, Good
    <3>2. QED
      BY <3>1, Zenon DEF Message
  <2>2. UNCHANGED <<main, peer, views, connects, case>>
    BY Zenon DEF NodeIn, past
  <2> PICK a : a = [m EXCEPT !.kind = "NODEIN new"]
    BY Zenon
  <2>3. a.kind = "NODEIN new" /\ a.from = m.from /\ a.to = m.to /\ a.who = m.who
    BY <2>1, NewsFields, Zenon
  <2>6. Plain(m, {}) /\ Plain(m, {a})
    BY <2>1, <2>3, Zenon DEF Plain
  <2>4. CASE FindGossip(m.to, m)
    <3>1. Answer(m, {})
      BY <2>4, Zenon DEF NodeIn
    <3>2. Took(m, {})
      BY <2>6, <3>1, <1>Handled, Zenon
    <3>3. \A u, w, v : Tells(u, w, v) => Tells(u, w, v)' \/ u \in gossip[v]
      BY <2>4, <3>2, Zenon DEF Tells, FindGossip, Took
    <3>4. QED
      BY <2>2, <3>2, <3>3, CrossMail, Zenon DEF Took
  <2>5. CASE ~ FindGossip(m.to, m)
    <3>1. Answer(m, {a})
      BY <2>5, Zenon DEF NodeIn
    <3>2. Took(m, {a})
      BY <2>6, <3>1, <1>Handled, Zenon
    <3>3. \A u, w, v : Tells(u, w, v) => Tells(u, w, v)'
      BY <2>3, <3>2, Zenon DEF Tells, News, Took
    <3>4. Call(a)
      BY <2>3, Zenon DEF Call
    <3>5. QED
      BY <2>2, <3>2, <3>3, <3>4, CrossMail, Zenon DEF Took
  <2>7. QED
    BY <2>4, <2>5, Zenon

\* A server asks: it is not one that runs yet.
<1>CrossAsk. ASSUME Types, Running, NEW rank, NEW par, NEW n, Crossing(rank, par, n),
                    NEW j \in Server, NEW b \in Server, Ask(j, b)
             PROVE  Crossing(rank, par, n)'
  <2> USE <1>CrossAsk
  <2> PICK a : a = Tell("GETNETWORK", j, b)
    BY Zenon
  <2>1. a.kind = "GETNETWORK" /\ a.from = j /\ a.to = b
    BY Zenon DEF Tell, Msg
  <2>2. /\ main[j] = "off" /\ Send({a}) /\ UNCHANGED <<topo, conn, gossip, connects, case>>
        /\ main' = [main EXCEPT ![j] = "asks"] /\ peer' = [peer EXCEPT ![j] = b]
    BY Zenon DEF Ask, views
  <2>3. /\ main'[j] = "asks" /\ peer'[j] = b
        /\ \A s \in Server : s # j => main'[s] = main[s] /\ peer'[s] = peer[s]
    BY <2>2, Zenon DEF Types, TypeOK
  <2>4. Mail' = Mail \cup {a}
    <3>1. Taken({a}) = {a}
      BY <2>1, TakenAll, Zenon
    <3>2. QED
      BY <2>2, <3>1, Sending, Zenon DEF Types
  <2>5. \A v, u : Hail(v, u)' <=> Hail(v, u)
    <3> SUFFICES ASSUME NEW v, NEW u
                 PROVE  Tell("HELLO", v, u) # a
      BY <2>4, Zenon DEF Hail
    <3>1. QED
      BY <2>1, <1>HailFields, Zenon
  <2>6. Members' = Members
    BY <2>2, <2>3, Zenon DEF Members
  <2>7. /\ Tree(rank, par, n)' /\ Born' = Born /\ Founders' = Founders
        /\ \A w, v : Near(par, w, v)' <=> Near(par, w, v)
    BY <2>2, <2>6, SameTree, Zenon DEF Crossing
  <2>8. \A v, u \in Server : Waits(v, u)' <=> Waits(v, u)
    BY <2>2, <2>3, Zenon DEF Waits
  <2>9. Linked(par)'
    BY <2>2, <2>7, <2>8, Zenon DEF Crossing, Linked
  <2>10. Spread(rank, par)'
    <3>1. \A u, w, v : Tells(u, w, v) => Tells(u, w, v)'
      BY <2>4, Zenon DEF Tells
    <3>2. QED
      BY <2>2, <2>7, <3>1, Zenon DEF Crossing, Spread
  <2>11. ASSUME NEW v \in Server
         PROVE  Knows(v)'
    <3>1. Knows(v)
      BY Zenon DEF Crossing, Talk
    <3>2. main'[v] = "connects" => main[v] = "connects" /\ peer'[v] = peer[v]
      BY <2>3, Zenon
    <3>3. Born \subseteq Server
      BY Zenon DEF Born, Members
    <3>4. \A u \in gossip'[v] \ {v} :
            u \in topo'[v] /\ (u \in conn'[v] \/ u \in Range(connects'[v]) \/ Waits(v, u)')
      BY <2>2, <2>8, <3>1, <3>3, Zenon DEF Knows
    <3>5. main'[v] = "connects" => peer'[v] \in Born'
      BY <2>7, <3>1, <3>2, Zenon DEF Knows
    <3>6. /\ gossip'[v] \subseteq Born' /\ Range(connects'[v]) \subseteq Born'
          /\ v \in Born' => v \in gossip'[v]
          /\ v \notin Members' => gossip'[v] = {} /\ Range(connects'[v]) = {}
          /\ v \in Founders' => v \in Members' /\ Founders' \subseteq topo'[v]
      BY <2>2, <2>6, <2>7, <3>1, Zenon DEF Knows
    <3>7. QED
      BY <3>4, <3>5, <3>6, Zenon DEF Knows
  <2>12. ASSUME NEW v \in Server, NEW u \in Server
         PROVE  Mutual(v, u)'
    <3>1. Mutual(v, u)
      BY Zenon DEF Crossing, Talk
    <3>2. main'[v] \in {"greets", "connects"} => main'[v] = main[v] /\ peer'[v] = peer[v]
      BY <2>3, Zenon
    <3>3. main'[v] = "greets" => main'[v] \in {"greets", "connects"}
      BY Zenon
    <3>4. QED
      BY <2>2, <2>5, <2>6, <2>8, <3>1, <3>2, <3>3, Zenon DEF Mutual
  <2>13. ASSUME NEW m \in Mail'
         PROVE  Call(m)'
    <3>1. CASE m = a
      BY <2>1, <2>3, <3>1, Zenon DEF Call
    <3>2. CASE m \in Mail
      <4>1. Call(m) /\ m.from \in Server /\ m.to \in Server
        BY <3>2, Zenon DEF Crossing, Talk, Types, MailTypes, Good, Message
      <4>2. /\ m.kind = "GETNETWORK" => m.from # j
            /\ m.kind = "NETWORK" => m.to # j
        BY <2>2, <4>1, Zenon DEF Call
      <4>3. QED
        BY <2>3, <2>6, <4>1, <4>2, Zenon DEF Call
    <3>3. QED
      BY <2>4, <3>1, <3>2, Zenon
  <2>14. QED
    BY <2>7, <2>9, <2>10, <2>11, <2>12, <2>13, Zenon DEF Crossing, Talk

\* The new server is connected to the one that it asked, and greets it.
<1>CrossGreet. ASSUME Types, Running, NEW rank, NEW par, NEW n, Crossing(rank, par, n),
                      NEW m \in Mail, Greet(m.to, m)
               PROVE  Crossing(rank, par, n)'
  <2> USE <1>CrossGreet
  <2> PICK j : j = m.to
    BY Zenon
  <2> PICK b : b = m.from
    BY Zenon
  <2> PICK a : a = Tell("HELLO", j, b)
    BY Zenon
  <2>1. m.kind = "NETWORK" /\ main[j] = "asks" /\ j \in Server /\ b \in Server
    BY Zenon DEF Greet, Types, MailTypes, Good, Message
  <2>2. /\ Answer(m, {a}) /\ UNCHANGED <<peer, gossip, connects, case>>
        /\ main' = [main EXCEPT ![j] = "greets"]
        /\ topo' = [topo EXCEPT ![j] = @ \cup m.who]
        /\ conn' = [conn EXCEPT ![j] = @ \cup {b}]
    BY Zenon DEF Greet
  <2>3. /\ main'[j] = "greets" /\ conn'[j] = conn[j] \cup {b}
        /\ \A s \in Server : /\ topo[s] \subseteq topo'[s] /\ conn[s] \subseteq conn'[s]
                             /\ s # j => main'[s] = main[s] /\ conn'[s] = conn[s]
    <3>1. main'[j] = "greets" /\ \A s \in Server : s # j => main'[s] = main[s]
      BY <2>1, <2>2, Zenon DEF Types, TypeOK
    <3>2. /\ conn'[j] = conn[j] \cup {b}
          /\ \A s \in Server : s # j => conn'[s] = conn[s]
      BY <2>1, <2>2, Zenon DEF Types, TypeOK
    <3>3. topo'[j] = topo[j] \cup m.who /\ \A s \in Server : s # j => topo'[s] = topo[s]
      BY <2>1, <2>2, Zenon DEF Types, TypeOK
    <3>4. QED
      BY <3>1, <3>2, <3>3, Zenon
  <2>4. peer[j] = b /\ b \in Members
    BY <2>1, Zenon DEF Crossing, Talk, Call
  <2>5. a.kind = "HELLO" /\ a.from = j /\ a.to = b
    <3>1. /\ Tell("HELLO", j, b).kind = "HELLO"
          /\ Tell("HELLO", j, b).from = j /\ Tell("HELLO", j, b).to = b
      BY <1>HailFields, Zenon
    <3>2. QED
      BY <3>1, Zenon
  <2>6. Mail' \subseteq Mail \cup {a} /\ Mail \ {m} \subseteq Mail' /\ a \in Mail'
    <3>1. Taken({a}) = {a}
      BY <2>1, <2>5, TakenAll, Zenon
    <3>2. QED
      BY <2>2, <3>1, Answering, Zenon DEF Types
  <2>7. ASSUME NEW v, NEW u
        PROVE  /\ Hail(v, u) => Hail(v, u)'
               /\ Hail(v, u)' => Hail(v, u) \/ (v = j /\ u = b)
    <3>1. PICK h : h = Tell("HELLO", v, u)
      BY Zenon
    <3>2. h.kind = "HELLO" /\ h.from = v /\ h.to = u
      BY <3>1, <1>HailFields, Zenon
    <3>3. QED
      BY <2>1, <2>5, <2>6, <3>1, <3>2, Zenon DEF Hail
  <2>8. Hail(j, b)'
    BY <2>6, Zenon DEF Hail
  <2>9. Members' = Members
    BY <2>1, <2>3, Zenon DEF Members
  <2>10. /\ Tree(rank, par, n)' /\ Born' = Born /\ Founders' = Founders
         /\ \A w, v : Near(par, w, v)' <=> Near(par, w, v)
    BY <2>2, <2>9, SameTree, Zenon DEF Crossing
  <2>11. \A v, u : v \in Server => (Waits(v, u)' <=> Waits(v, u))
    BY <2>1, <2>2, <2>3, Zenon DEF Waits
  <2>12. Linked(par)'
    BY <2>2, <2>3, <2>10, <2>11, Zenon DEF Crossing, Linked
  <2>13. Spread(rank, par)'
    <3>1. \A u, w, v : Tells(u, w, v) => Tells(u, w, v)'
      BY <2>1, <2>6, Zenon DEF Tells, News
    <3>2. QED
      BY <2>2, <2>10, <3>1, Zenon DEF Crossing, Spread
  <2>14. ASSUME NEW v \in Server
         PROVE  Knows(v)'
    <3>1. Knows(v)
      BY Zenon DEF Crossing, Talk
    <3>2. main'[v] = "connects" => main[v] = "connects"
      BY <2>3, Zenon
    <3>3. QED
      BY <2>2, <2>3, <2>9, <2>10, <2>11, <3>1, <3>2, Zenon DEF Knows
  <2>15. ASSUME NEW v \in Server, NEW u \in Server
         PROVE  Mutual(v, u)'
    <3>1. Mutual(v, u)
      BY Zenon DEF Crossing, Talk
    <3>6. /\ Hail(v, u) => Hail(v, u)'
          /\ Hail(v, u)' => Hail(v, u) \/ (v = j /\ u = b)
      BY <2>7, Zenon
    <3>7. /\ v \in conn[u] => v \in conn'[u]
          /\ Waits(v, u)' <=> Waits(v, u)
          /\ Waits(u, v)' <=> Waits(u, v)
      BY <2>3, <2>11, Zenon
    <3>2. CASE v # j
      <4>1. main'[v] = main[v] /\ peer'[v] = peer[v] /\ conn'[v] = conn[v]
        BY <2>2, <2>3, <3>2, Zenon
      <4>2. QED
        BY <2>9, <3>1, <3>2, <3>6, <3>7, <4>1, Zenon DEF Mutual
    <3>3. CASE v = j /\ u # b
      <4>1. u \in conn'[v] <=> u \in conn[v]
        BY <2>3, <3>3, Zenon
      <4>2. peer'[v] # u
        BY <2>2, <2>4, <3>3, Zenon
      <4>3. QED
        BY <3>1, <3>3, <3>6, <3>7, <4>1, <4>2, Zenon DEF Mutual
    <3>4. CASE v = j /\ u = b
      BY <2>3, <2>4, <2>8, <2>9, <3>4, Zenon DEF Mutual
    <3>5. QED
      BY <3>2, <3>3, <3>4, Zenon
  <2>16. ASSUME NEW x \in Mail'
         PROVE  Call(x)'
    <3>1. CASE x = a
      BY <2>5, <3>1, Zenon DEF Call
    <3>2. CASE x \in Mail
      <4>1. Call(x) /\ x.from \in Server /\ x.to \in Server
        BY <3>2, Zenon DEF Crossing, Talk, Types, MailTypes, Good, Message
      <4>2. \A s \in Server : /\ main[s] # "off" => main'[s] # "off"
                              /\ main'[s] = "asks" => main[s] = "asks"
        BY <2>3, Zenon
      <4>3. QED
        BY <2>2, <2>9, <4>1, <4>2, Zenon DEF Call
    <3>3. QED
      BY <2>6, <3>1, <3>2, Zenon
  <2>17. QED
    BY <2>10, <2>12, <2>13, <2>14, <2>15, <2>16, Zenon DEF Crossing, Talk

\* A server learns of a link to it.
<1>CrossHello. ASSUME Types, Running, NEW rank, NEW par, NEW n, Crossing(rank, par, n),
                      NEW m \in Mail, Hello(m.to, m)
               PROVE  Crossing(rank, par, n)'
  <2> USE <1>CrossHello
  <2> PICK s : s = m.to
    BY Zenon
  <2> PICK f : f = m.from
    BY Zenon
  <2> PICK a : a = Tell("OK", s, f)
    BY Zenon
  <2>1. m.kind = "HELLO" /\ s \in Server /\ f \in Server
    BY Zenon DEF Hello, Arrived, Types, MailTypes, Good, Message
  <2>2. m = Tell("HELLO", f, s) /\ Hail(f, s)
    BY <2>1, Zenon DEF Crossing, Talk, Call, Hail
  <2>3. /\ Answer(m, {a}) /\ UNCHANGED <<main, peer, topo, gossip, connects, case>>
        /\ conn' = [conn EXCEPT ![s] = @ \cup {f}]
    BY Zenon DEF Hello, past
  <2>4. /\ conn'[s] = conn[s] \cup {f}
        /\ \A t \in Server : conn[t] \subseteq conn'[t] /\ (t # s => conn'[t] = conn[t])
    BY <2>1, <2>3, Zenon DEF Types, TypeOK
  <2>5. a.kind = "OK" /\ a.to = f
    BY Zenon DEF Tell, Msg
  <2>6. Mail' \subseteq Mail \cup {a} /\ Mail \ {m} \subseteq Mail'
    <3>1. Taken({a}) = {a}
      BY <2>1, <2>5, TakenAll, Zenon
    <3>2. QED
      BY <2>3, <3>1, Answering, Zenon DEF Types
  <2>7. ASSUME NEW v, NEW u
        PROVE  /\ Hail(v, u)' => Hail(v, u)
               /\ Hail(v, u) => Hail(v, u)' \/ (v = f /\ u = s)
    <3>1. PICK h : h = Tell("HELLO", v, u)
      BY Zenon
    <3>2. h.kind = "HELLO" /\ h.from = v /\ h.to = u
      BY <3>1, <1>HailFields, Zenon
    <3>3. QED
      BY <2>5, <2>6, <3>1, <3>2, Zenon DEF Hail
  <2>8. Members' = Members
    BY <2>3, Zenon DEF Members
  <2>9. /\ Tree(rank, par, n)' /\ Born' = Born /\ Founders' = Founders
        /\ \A w, v : Near(par, w, v)' <=> Near(par, w, v)
    BY <2>3, <2>8, SameTree, Zenon DEF Crossing
  <2>10. \A v, u : Waits(v, u)' <=> Waits(v, u)
    BY <2>3, Zenon DEF Waits
  <2>11. Linked(par)'
    BY <2>3, <2>4, <2>9, <2>10, Zenon DEF Crossing, Linked
  <2>12. Spread(rank, par)'
    <3>1. \A u, w, v : Tells(u, w, v) => Tells(u, w, v)'
      BY <2>1, <2>6, Zenon DEF Tells, News
    <3>2. QED
      BY <2>3, <2>9, <3>1, Zenon DEF Crossing, Spread
  <2>13. ASSUME NEW v \in Server
         PROVE  Knows(v)'
    <3>1. Knows(v)
      BY Zenon DEF Crossing, Talk
    <3>2. QED
      BY <2>3, <2>4, <2>8, <2>9, <2>10, <3>1, Zenon DEF Knows
  <2>14. ASSUME NEW v \in Server, NEW u \in Server
         PROVE  Mutual(v, u)'
    <3>1. Mutual(v, u) /\ Mutual(f, s)
      BY <2>1, Zenon DEF Crossing, Talk
    <3>2. /\ Hail(v, u)' => Hail(v, u)
          /\ Hail(v, u) => Hail(v, u)' \/ v \in conn'[u]
      <4>1. /\ Hail(v, u)' => Hail(v, u)
            /\ Hail(v, u) => Hail(v, u)' \/ (v = f /\ u = s)
        BY <2>7, Zenon
      <4>2. f \in conn'[s]
        BY <2>4, Zenon
      <4>3. QED
        BY <4>1, <4>2, Zenon
    <3>3. v \in conn[u] => v \in conn'[u]
      BY <2>4, Zenon
    <3>4. u \in conn'[v] => u \in conn[v] \/ v \in conn'[u] \/ Waits(u, v)
      <4>1. s \in conn[f] \/ Waits(f, s)
        BY <2>2, <3>1, Zenon DEF Mutual
      <4>2. u \in conn'[v] => u \in conn[v] \/ (v = s /\ u = f)
        BY <2>4, Zenon
      <4>3. QED
        BY <2>1, <2>4, <4>1, <4>2, Zenon
    <3>5. u \in conn[v] => u \in conn'[v]
      BY <2>4, Zenon
    <3>6. Waits(u, v)' <=> Waits(u, v)
      BY <2>10, Zenon
    <3>7. Waits(v, u)' <=> Waits(v, u)
      BY <2>10, Zenon
    <3>8. u \in conn'[v] => v \in conn'[u] \/ Hail(v, u)' \/ Waits(u, v)'
      BY <3>1, <3>2, <3>3, <3>4, <3>6, Zenon DEF Mutual
    <3>9. QED
      BY <2>3, <2>8, <3>1, <3>2, <3>3, <3>5, <3>7, <3>8, Zenon DEF Mutual
  <2>15. \A x \in Mail' : Call(x)'
    <3>1. \A x : Call(x) => Call(x)'
      BY <2>3, <2>8, Zenon DEF Call
    <3>2. Call(a)
      BY <2>5, Zenon DEF Call
    <3>3. QED
      BY <2>6, <3>1, <3>2, Zenon DEF Crossing, Talk
  <2>16. QED
    BY <2>9, <2>11, <2>12, <2>13, <2>14, <2>15, Zenon DEF Crossing, Talk

\* The main thread greets a server that it is not near to.
<1>CrossConnect. ASSUME Types, Running, NEW rank, NEW par, NEW n, Crossing(rank, par, n),
                        NEW s \in Server, Connect(s)
                 PROVE  Crossing(rank, par, n)'
  <2> USE <1>CrossConnect
  <2> PICK h : h = Head(connects[s])
    BY Zenon
  <2> PICK a : a = Tell("HELLO", s, h)
    BY Zenon
  <2>1. /\ main[s] = "up" /\ connects[s] # <<>> /\ Send({a})
        /\ UNCHANGED <<topo, conn, gossip, case>>
        /\ main' = [main EXCEPT ![s] = "connects"] /\ peer' = [peer EXCEPT ![s] = h]
        /\ connects' = [connects EXCEPT ![s] = Tail(@)]
    BY Zenon DEF Connect, views, past
  <2>2. /\ h \in Server /\ h \in Range(connects[s])
        /\ Range(Tail(connects[s])) \subseteq Range(connects[s])
        /\ \A x \in Range(connects[s]) : x = h \/ x \in Range(Tail(connects[s]))
    <3>1. connects[s] \in Seq(Server) /\ connects[s] # <<>>
      BY <2>1, Zenon DEF Types, TypeOK
    <3>2. QED
      BY <3>1, <1>HeadAndTail, Zenon
  <2>3. /\ main'[s] = "connects" /\ peer'[s] = h /\ connects'[s] = Tail(connects[s])
        /\ \A t \in Server : t # s => /\ main'[t] = main[t] /\ peer'[t] = peer[t]
                                      /\ connects'[t] = connects[t]
    BY <2>1, Zenon DEF Types, TypeOK
  <2>4. a.kind = "HELLO" /\ a.from = s /\ a.to = h
    BY <1>HailFields, Zenon
  <2>5. Mail' = Mail \cup {a}
    <3>1. Taken({a}) = {a}
      BY <2>2, <2>4, TakenAll, Zenon
    <3>2. QED
      BY <2>1, <3>1, Sending, Zenon DEF Types
  <2>6. ASSUME NEW v, NEW u
        PROVE  /\ Hail(v, u) => Hail(v, u)'
               /\ Hail(v, u)' => Hail(v, u) \/ (v = s /\ u = h)
    <3>1. PICK x : x = Tell("HELLO", v, u)
      BY Zenon
    <3>2. x.kind = "HELLO" /\ x.from = v /\ x.to = u
      BY <3>1, <1>HailFields, Zenon
    <3>3. QED
      BY <2>4, <2>5, <3>1, <3>2, Zenon DEF Hail
  <2>7. Members' = Members
    BY <2>1, <2>3, Zenon DEF Members
  <2>8. /\ Tree(rank, par, n)' /\ Born' = Born /\ Founders' = Founders
        /\ \A w, v : Near(par, w, v)' <=> Near(par, w, v)
    BY <2>1, <2>7, SameTree, Zenon DEF Crossing
  <2>9. \A v, u : /\ v \in Server /\ v # s => (Waits(v, u)' <=> Waits(v, u))
                  /\ ~ Waits(s, u) /\ (Waits(s, u)' <=> u = h)
    BY <2>1, <2>3, Zenon DEF Waits
  <2>10. \A v \in Server : Range(connects'[v]) \subseteq Range(connects[v])
    BY <2>2, <2>3, Zenon
  <2>11. Linked(par)'
    <3> SUFFICES ASSUME NEW w \in Server, NEW v \in Server, Near(par, w, v)
                 PROVE  v \in conn'[w] /\ v \notin Range(connects'[w]) /\ ~ Waits(w, v)'
      BY <2>8, Zenon DEF Linked
    <3>1. v \in conn[w] /\ v \notin Range(connects[w]) /\ ~ Waits(w, v)
      BY Zenon DEF Crossing, Linked
    <3>2. QED
      BY <2>1, <2>2, <2>9, <2>10, <3>1, Zenon
  <2>12. Spread(rank, par)'
    <3>1. \A u, w, v : Tells(u, w, v) => Tells(u, w, v)'
      BY <2>5, Zenon DEF Tells
    <3>2. QED
      BY <2>1, <2>8, <3>1, Zenon DEF Crossing, Spread
  <2>13. ASSUME NEW v \in Server
         PROVE  Knows(v)'
    <3>1. Knows(v)
      BY Zenon DEF Crossing, Talk
    <3>2. main'[v] = "connects" => peer'[v] \in Born'
      <4>1. CASE v = s
        BY <2>2, <2>3, <2>8, <3>1, <4>1, Zenon DEF Knows
      <4>2. CASE v # s
        BY <2>3, <2>8, <3>1, <4>2, Zenon DEF Knows
      <4>3. QED
        BY <4>1, <4>2, Zenon
    <3>3. /\ gossip'[v] \subseteq Born' /\ Range(connects'[v]) \subseteq Born'
          /\ v \in Born' => v \in gossip'[v]
          /\ v \notin Members' => gossip'[v] = {} /\ Range(connects'[v]) = {}
          /\ v \in Founders' => v \in Members' /\ Founders' \subseteq topo'[v]
      BY <2>1, <2>7, <2>8, <2>10, <3>1, Zenon DEF Knows
    <3>4. ASSUME NEW u \in gossip'[v] \ {v}
          PROVE  u \in topo'[v] /\ (u \in conn'[v] \/ u \in Range(connects'[v]) \/ Waits(v, u)')
      <4>1. u \in topo[v] /\ (u \in conn[v] \/ u \in Range(connects[v]) \/ Waits(v, u))
        BY <2>1, <3>1, Zenon DEF Knows
      <4>2. u \in Range(connects[v]) => u \in Range(connects'[v]) \/ Waits(v, u)'
        BY <2>2, <2>3, <2>9, Zenon
      <4>3. Waits(v, u) => Waits(v, u)'
        BY <2>9, Zenon
      <4>4. QED
        BY <2>1, <4>1, <4>2, <4>3, Zenon
    <3>5. QED
      BY <3>2, <3>3, <3>4, Zenon DEF Knows
  <2>14. ASSUME NEW v \in Server, NEW u \in Server
         PROVE  Mutual(v, u)'
    <3>1. Mutual(v, u)
      BY Zenon DEF Crossing, Talk
    <3>2. /\ Hail(v, u) => Hail(v, u)'
          /\ Hail(v, u)' => Hail(v, u) \/ Waits(v, u)'
      <4>1. /\ Hail(v, u) => Hail(v, u)'
            /\ Hail(v, u)' => Hail(v, u) \/ (v = s /\ u = h)
        BY <2>6, Zenon
      <4>2. Waits(s, h)'
        BY <2>9, Zenon
      <4>3. QED
        BY <4>1, <4>2, Zenon
    <3>3. (Waits(v, u) => Waits(v, u)') /\ (Waits(u, v) => Waits(u, v)')
      BY <2>9, Zenon
    <3>4. CASE v # s
      <4>1. main'[v] = main[v] /\ peer'[v] = peer[v]
        BY <2>3, <3>4, Zenon
      <4>2. QED
        BY <2>1, <2>7, <3>1, <3>2, <3>3, <4>1, Zenon DEF Mutual
    <3>5. CASE v = s
      <4>1. main'[v] # "greets" /\ (peer'[v] = u => Hail(v, u)')
        BY <2>3, <2>5, <3>5, Zenon DEF Hail
      <4>2. QED
        BY <2>1, <3>1, <3>2, <3>3, <4>1, Zenon DEF Mutual
    <3>6. QED
      BY <3>4, <3>5, Zenon
  <2>15. ASSUME NEW x \in Mail'
         PROVE  Call(x)'
    <3>1. CASE x = a
      BY <2>4, <3>1, Zenon DEF Call
    <3>2. CASE x \in Mail
      <4>1. Call(x) /\ x.from \in Server /\ x.to \in Server
        BY <3>2, Zenon DEF Crossing, Talk, Types, MailTypes, Good, Message
      <4>2. \A t \in Server : /\ main[t] # "off" => main'[t] # "off"
                              /\ main'[t] = "asks" => main[t] = "asks" /\ peer'[t] = peer[t]
        BY <2>3, Zenon
      <4>3. QED
        BY <2>7, <4>1, <4>2, Zenon DEF Call
    <3>3. QED
      BY <2>5, <3>1, <3>2, Zenon
  <2>16. QED
    BY <2>8, <2>11, <2>12, <2>13, <2>14, <2>15, Zenon DEF Crossing, Talk

\* What has come on the link counts as the answer; nobody who is near sent it.
<1>CrossConnected.
      ASSUME Types, Running, NEW rank, NEW par, NEW n, Crossing(rank, par, n),
             NEW s \in Server, Connected(s)
      PROVE  Crossing(rank, par, n)'
  <2> USE <1>CrossConnected
  <2> PICK p : p = peer[s]
    BY Zenon
  <2> PICK a : a = Msg("PUSH", s, s, {p}, {})
    BY Zenon
  <2>1. /\ main[s] = "connects" /\ UNCHANGED <<peer, topo, gossip, connects, case>>
        /\ main' = [main EXCEPT ![s] = "up"] /\ conn' = [conn EXCEPT ![s] = @ \cup {p}]
    BY Zenon DEF Connected, past
  <2>2. PICK m \in OnLink(s) : Answer(m, {a})
    BY Zenon DEF Connected
  <2>3. m \in Mail /\ m.from = p /\ m.to = s /\ m.kind # "HELLO" /\ p \in Server /\ p # s
    <3>1. /\ m \in Mail /\ m.from = p /\ m.to = s
          /\ m.kind \in {"OK", "NODEIN", "NODEOUT", "SET", "SYNCDONE"}
      BY <2>2, Zenon DEF OnLink
    <3>2. p \in Server /\ p # s
      BY <2>1, Zenon DEF Types, TypeOK, OtherPeer
    <3>3. QED
      BY <3>1, <3>2, Zenon
  <2>4. a.kind = "PUSH" /\ a.to = s
    BY Zenon DEF Msg
  <2>5. Took(m, {a})
    <3>1. Plain(m, {a})
      BY <2>3, <2>4, Zenon DEF Plain
    <3>2. QED
      BY <2>2, <2>3, <3>1, <1>Handled, Zenon
  <2>6. \A v, u : Hail(v, u)' <=> Hail(v, u)
    BY <2>5, Zenon DEF Took
  <2>7. /\ main'[s] = "up" /\ conn'[s] = conn[s] \cup {p}
        /\ \A t \in Server : /\ conn[t] \subseteq conn'[t]
                             /\ t # s => main'[t] = main[t] /\ conn'[t] = conn[t]
    BY <2>1, Zenon DEF Types, TypeOK
  <2>8. Members' = Members
    BY <2>1, <2>7, Zenon DEF Members
  <2>9. /\ Tree(rank, par, n)' /\ Born' = Born /\ Founders' = Founders
        /\ \A w, v : Near(par, w, v)' <=> Near(par, w, v)
    BY <2>1, <2>8, SameTree, Zenon DEF Crossing
  <2>10. \A v, u : /\ v \in Server /\ v # s => (Waits(v, u)' <=> Waits(v, u))
                   /\ ~ Waits(s, u)' /\ (Waits(s, u) => u = p)
    BY <2>1, <2>7, Zenon DEF Waits
  <2>11. Linked(par)'
    <3> SUFFICES ASSUME NEW w \in Server, NEW v \in Server, Near(par, w, v)
                 PROVE  v \in conn'[w] /\ v \notin Range(connects'[w]) /\ ~ Waits(w, v)'
      BY <2>9, Zenon DEF Linked
    <3>1. v \in conn[w] /\ v \notin Range(connects[w]) /\ ~ Waits(w, v)
      BY Zenon DEF Crossing, Linked
    <3>2. QED
      BY <2>1, <2>7, <2>10, <3>1, Zenon
  <2>12. Spread(rank, par)'
    <3> SUFFICES ASSUME NEW u \in Born, NEW w \in Server, NEW v \in Server, Near(par, w, v),
                        rank[v] < rank[u], u \in gossip[w], u \notin gossip[v]
                 PROVE  Tells(u, w, v)'
      BY <2>1, <2>9, Zenon DEF Spread
    <3>1. Tells(u, w, v)
      BY Zenon DEF Crossing, Spread
    <3>2. ~ (w = p /\ v = s)
      <4>1. Near(par, v, w)
        BY <1>NearMembers, Zenon
      <4>2. ~ Waits(v, w)
        BY <4>1, Zenon DEF Crossing, Linked
      <4>3. QED
        BY <2>1, <4>2, Zenon DEF Waits
    <3>3. \A x \in Mail : x.kind \in News /\ x.from = w /\ x.to = v => x \in Mail'
      BY <2>3, <2>5, <3>2, Zenon DEF Took
    <3>4. QED
      BY <3>1, <3>3, <1>TellsKept, Zenon
  <2>13. ASSUME NEW v \in Server
         PROVE  Knows(v)'
    <3>1. Knows(v)
      BY Zenon DEF Crossing, Talk
    <3>2. main'[v] = "connects" => peer'[v] \in Born'
      BY <2>1, <2>7, <2>9, <3>1, Zenon DEF Knows
    <3>3. /\ gossip'[v] \subseteq Born' /\ Range(connects'[v]) \subseteq Born'
          /\ v \in Born' => v \in gossip'[v]
          /\ v \notin Members' => gossip'[v] = {} /\ Range(connects'[v]) = {}
          /\ v \in Founders' => v \in Members' /\ Founders' \subseteq topo'[v]
      BY <2>1, <2>8, <2>9, <3>1, Zenon DEF Knows
    <3>4. ASSUME NEW u \in gossip'[v] \ {v}
          PROVE  u \in topo'[v] /\ (u \in conn'[v] \/ u \in Range(connects'[v]) \/ Waits(v, u)')
      <4>1. u \in topo[v] /\ (u \in conn[v] \/ u \in Range(connects[v]) \/ Waits(v, u))
        BY <2>1, <3>1, Zenon DEF Knows
      <4>2. Waits(v, u) => Waits(v, u)' \/ u \in conn'[v]
        BY <2>7, <2>10, Zenon
      <4>3. u \in conn[v] => u \in conn'[v]
        BY <2>7, Zenon
      <4>4. QED
        BY <2>1, <4>1, <4>2, <4>3, Zenon
    <3>5. QED
      BY <3>2, <3>3, <3>4, Zenon DEF Knows
  <2>14. ASSUME NEW v \in Server, NEW u \in Server
         PROVE  Mutual(v, u)'
    <3>1. Mutual(v, u) /\ Mutual(s, p)
      BY <2>3, Zenon DEF Crossing, Talk
    <3>2. Hail(v, u)' <=> Hail(v, u)
      BY <2>6, Zenon
    <3>3. /\ v \in conn[u] => v \in conn'[u]
          /\ u \in conn[v] => u \in conn'[v]
      BY <2>7, Zenon
    <3>4. Waits(v, u) => Waits(v, u)' \/ u \in conn'[v]
      BY <2>7, <2>10, Zenon
    <3>5. Waits(u, v) => Waits(u, v)' \/ v \in conn'[u]
      BY <2>7, <2>10, Zenon
    <3>6. u \in conn'[v] => v \in conn'[u] \/ Hail(v, u)' \/ Waits(u, v)'
      <4>1. CASE u \in conn[v]
        BY <3>1, <3>2, <3>3, <3>5, <4>1, Zenon DEF Mutual
      <4>2. CASE v = s /\ u = p
        BY <2>1, <3>1, <3>2, <3>3, <4>2, Zenon DEF Mutual
      <4>3. u \in conn'[v] => u \in conn[v] \/ (v = s /\ u = p)
        BY <2>7, Zenon
      <4>4. QED
        BY <4>1, <4>2, <4>3, Zenon
    <3>7. main'[v] \in {"greets", "connects"} => main'[v] = main[v]
      BY <2>7, Zenon
    <3>8. main'[v] = "greets" => main'[v] \in {"greets", "connects"}
      BY Zenon
    <3>9. QED
      BY <2>1, <2>8, <3>1, <3>2, <3>3, <3>4, <3>6, <3>7, <3>8, Zenon DEF Mutual
  <2>15. ASSUME NEW x \in Mail'
         PROVE  Call(x)'
    <3>1. CASE x = a
      BY <2>4, <3>1, Zenon DEF Call
    <3>2. CASE x \in Mail
      <4>1. Call(x) /\ x.from \in Server /\ x.to \in Server
        BY <3>2, Zenon DEF Crossing, Talk, Types, MailTypes, Good, Message
      <4>2. \A t \in Server : /\ main[t] # "off" => main'[t] # "off"
                              /\ main'[t] = "asks" => main[t] = "asks"
        BY <2>7, Zenon
      <4>3. QED
        BY <2>1, <2>8, <4>1, <4>2, Zenon DEF Call
    <3>3. QED
      BY <2>5, <3>1, <3>2, Zenon DEF Took
  <2>16. QED
    BY <2>9, <2>11, <2>12, <2>13, <2>14, <2>15, Zenon DEF Crossing, Talk

\* A queue that grows by x.
<1>Queued. ASSUME NEW q \in Seq(Server), NEW x \in Server
           PROVE  /\ Range(Append(q, x)) \subseteq Range(q) \cup {x}
                  /\ Range(q) \subseteq Range(Append(q, x)) /\ x \in Range(Append(q, x))
  <2> USE <1>Queued
  <2>1. /\ Append(q, x)[Len(q) + 1] = x /\ Len(q) + 1 \in DOMAIN Append(q, x)
        /\ \A i \in DOMAIN q : i \in DOMAIN Append(q, x) /\ Append(q, x)[i] = q[i]
        /\ \A i \in DOMAIN Append(q, x) : i \in DOMAIN q \/ Append(q, x)[i] = x
    OBVIOUS
  <2>2. QED
    BY <2>1, Zenon DEF Range

\* A server takes another one in, and tells all that are near.
<1>CrossNodeInNew.
      ASSUME Types, Running, NEW rank, NEW par, NEW n, Crossing(rank, par, n),
             NEW m \in Mail, NodeInNew(m.to, m)
      PROVE  Crossing(rank, par, n)'
  <2> USE <1>CrossNodeInNew
  <2> PICK s : s = m.to
    BY Zenon
  <2>1. /\ m.kind = "NODEIN new" /\ main[s] = "up" /\ s \in Server
        /\ UNCHANGED <<main, peer, conn, case>>
    BY Zenon DEF NodeInNew, Arrived, past, Types, MailTypes, Good, Message
  <2>2. PICK x \in Server :
            /\ m.who = {x} /\ x # s /\ x \in gossip[x]
            /\ gossip' = [gossip EXCEPT ![s] = @ \cup {x}]
            /\ topo' = [topo EXCEPT ![s] = @ \cup {x}]
            /\ connects' = [connects EXCEPT ![s] = NodeInConnect(s, x)]
            /\ Answer(m, NodeInTell(s, m) \cup
                           (IF x \in conn[s] THEN SendDataToNode(s, x, topo'[s]) ELSE {}))
    BY TakenIn, Zenon
  <2>3. x \in Born
    BY <2>2, Zenon DEF Crossing, Talk, Knows
  <2>4. /\ gossip'[s] = gossip[s] \cup {x} /\ topo'[s] = topo[s] \cup {x}
        /\ connects'[s] = IF x \in conn[s] THEN connects[s] ELSE Append(connects[s], x)
        /\ \A t \in Server : t # s => /\ gossip'[t] = gossip[t] /\ topo'[t] = topo[t]
                                      /\ connects'[t] = connects[t]
    BY <2>1, <2>2, Zenon DEF Types, TypeOK, HistoryTypes, NodeInConnect
  <2>5. /\ \A t \in Server : /\ Range(connects[t]) \subseteq Range(connects'[t])
                             /\ gossip[t] \subseteq gossip'[t] /\ topo[t] \subseteq topo'[t]
        /\ \A y \in Range(connects'[s]) : y \in Range(connects[s]) \/ (y = x /\ x \notin conn[s])
        /\ x \in conn[s] \/ x \in Range(connects'[s])
    <3>1. connects[s] \in Seq(Server)
      BY <2>1, Zenon DEF Types, TypeOK
    <3>2. /\ Range(Append(connects[s], x)) \subseteq Range(connects[s]) \cup {x}
          /\ Range(connects[s]) \subseteq Range(Append(connects[s], x))
          /\ x \in Range(Append(connects[s], x))
      BY <3>1, <1>Queued, Zenon
    <3>3. QED
      BY <2>4, <3>2, Zenon
  <2> PICK S : S = NodeInTell(s, m) \cup
                     (IF x \in conn[s] THEN SendDataToNode(s, x, topo'[s]) ELSE {})
    BY Zenon
  <2>6. ASSUME NEW a \in S
        PROVE  a.to \in Server /\ a.kind \in {"NODEIN", "SET", "SYNCDONE"}
    <3>1. CASE a \in NodeInTell(s, m)
      <4>1. PICK t \in conn[s] : a = Msg("NODEIN", s, t, {x}, {})
        BY <2>2, <3>1, Zenon DEF NodeInTell
      <4>2. a.kind = "NODEIN" /\ a.to = t
        BY <4>1, Zenon DEF Msg
      <4>3. QED
        BY <2>1, <4>2, Zenon DEF Types, TypeOK
    <3>2. CASE a \in SendDataToNode(s, x, topo'[s])
      <4>1. PICK T : T = topo'[s]
        BY Zenon
      <4>2. a \in SendDataToNode(s, x, T)
        BY <3>2, <4>1, Zenon
      <4>5. x \in Server /\ x # s /\ s \in Server
        BY <2>1, <2>2, Zenon
      <4>3. a.kind \in {"SET", "SYNCDONE"} /\ a.to = x
        BY <4>2, <4>5, DataMessages
      <4>4. QED
        BY <2>2, <4>3, Zenon
    <3>3. QED
      BY <3>1, <3>2, Zenon
  <2>7. Took(m, S)
    <3>1. Plain(m, S)
      BY <2>1, <2>6, Zenon DEF Plain
    <3>2. QED
      BY <2>2, <3>1, <1>Handled, Zenon
  <2>8. Members' = Members
    BY <2>1, Zenon DEF Members
  <2>9. /\ Tree(rank, par, n)' /\ Born' = Born /\ Founders' = Founders
        /\ \A w, v : Near(par, w, v)' <=> Near(par, w, v)
    BY <2>1, <2>8, SameTree, Zenon DEF Crossing
  <2>10. \A v, u : Waits(v, u)' <=> Waits(v, u)
    BY <2>1, Zenon DEF Waits
  <2>11. Linked(par)'
    <3> SUFFICES ASSUME NEW w \in Server, NEW v \in Server, Near(par, w, v)
                 PROVE  v \in conn'[w] /\ v \notin Range(connects'[w]) /\ ~ Waits(w, v)'
      BY <2>9, Zenon DEF Linked
    <3>1. v \in conn[w] /\ v \notin Range(connects[w]) /\ ~ Waits(w, v)
      BY Zenon DEF Crossing, Linked
    <3>2. CASE w = s
      BY <2>1, <2>5, <2>10, <3>1, <3>2, Zenon
    <3>3. CASE w # s
      BY <2>1, <2>4, <2>10, <3>1, <3>3, Zenon
    <3>4. QED
      BY <3>2, <3>3, Zenon
  <2>12. Spread(rank, par)'
    <3> SUFFICES ASSUME NEW u \in Born, NEW w \in Server, NEW v \in Server, Near(par, w, v),
                        rank[v] < rank[u], u \in gossip'[w], u \notin gossip'[v]
                 PROVE  Tells(u, w, v)'
      BY <2>9, Zenon DEF Spread
    <3>1. CASE u \in gossip[w]
      <4>1. Tells(u, w, v)
        BY <2>5, <3>1, Zenon DEF Crossing, Spread
      <4>2. ~ (u = x /\ v = s)
        BY <2>4, Zenon
      <4>3. PICK a \in Mail : a.kind \in News /\ a.from = w /\ a.to = v /\ a.who = {u}
        BY <4>1, Zenon DEF Tells
      <4>4. a # m
        BY <2>2, <4>2, <4>3, Zenon
      <4>5. QED
        BY <2>7, <4>3, <4>4, Zenon DEF Tells, Took
    <3>2. CASE u \notin gossip[w]
      <4>1. w = s /\ u = x
        BY <2>4, <3>2, Zenon
      <4>2. v \in conn[s]
        BY <4>1, Zenon DEF Crossing, Linked
      <4>3. PICK a : a = Msg("NODEIN", s, v, m.who, {})
        BY Zenon
      <4>4. a \in S
        BY <4>2, <4>3, Zenon DEF NodeInTell
      <4>5. a.kind = "NODEIN" /\ a.from = s /\ a.to = v /\ a.who = {x}
        BY <2>2, <4>3, Zenon DEF Msg
      <4>6. QED
        BY <2>7, <4>1, <4>4, <4>5, Zenon DEF Tells, Took, News
    <3>3. QED
      BY <3>1, <3>2, Zenon
  <2>13. ASSUME NEW v \in Server
         PROVE  Knows(v)'
    <3>1. Knows(v)
      BY Zenon DEF Crossing, Talk
    <3>2. CASE v # s
      <4>1. /\ gossip'[v] = gossip[v] /\ topo'[v] = topo[v] /\ connects'[v] = connects[v]
            /\ main'[v] = main[v] /\ peer'[v] = peer[v] /\ conn'[v] = conn[v]
        BY <2>1, <2>4, <3>2, Zenon
      <4>2. QED
        BY <2>8, <2>9, <2>10, <3>1, <4>1, Zenon DEF Knows
    <3>3. CASE v = s
      <4>1. v \in Members /\ (main'[v] = "connects" => peer'[v] \in Born')
        BY <2>1, <3>3, Zenon DEF Members
      <4>2. gossip'[v] \subseteq Born' /\ Range(connects'[v]) \subseteq Born'
        BY <2>3, <2>4, <2>5, <2>9, <3>1, <3>3, Zenon DEF Knows
      <4>3. /\ v \in Born' => v \in gossip'[v]
            /\ v \in Founders' => v \in Members' /\ Founders' \subseteq topo'[v]
        BY <2>5, <2>8, <2>9, <3>1, Zenon DEF Knows
      <4>4. ASSUME NEW u \in gossip'[v] \ {v}
            PROVE  /\ u \in topo'[v]
                   /\ u \in conn'[v] \/ u \in Range(connects'[v]) \/ Waits(v, u)'
        <5>1. CASE u = x
          BY <2>1, <2>4, <2>5, <3>3, <5>1, Zenon
        <5>2. CASE u # x
          <6>1. u \in gossip[v]
            BY <2>4, <3>3, <5>2, Zenon
          <6>2. u \in topo[v] /\ (u \in conn[v] \/ u \in Range(connects[v]) \/ Waits(v, u))
            BY <3>1, <6>1, Zenon DEF Knows
          <6>3. QED
            BY <2>1, <2>5, <2>10, <6>2, Zenon
        <5>3. QED
          BY <5>1, <5>2, Zenon
      <4>5. QED
        BY <2>8, <4>1, <4>2, <4>3, <4>4, Zenon DEF Knows
    <3>4. QED
      BY <3>2, <3>3, Zenon
  <2>14. ASSUME NEW v \in Server, NEW u \in Server
         PROVE  Mutual(v, u)'
    <3>1. Mutual(v, u) /\ (Hail(v, u)' <=> Hail(v, u))
      BY <2>7, Zenon DEF Crossing, Talk, Took
    <3>2. QED
      BY <2>1, <2>8, <2>10, <3>1, Zenon DEF Mutual
  <2>15. \A a \in Mail' : Call(a)'
    <3>1. \A a : Call(a) => Call(a)'
      BY <2>1, <2>8, Zenon DEF Call
    <3>2. \A a \in S : Call(a)
      BY <2>6, Zenon DEF Call
    <3>3. QED
      BY <2>7, <3>1, <3>2, Zenon DEF Crossing, Talk, Took
  <2>16. QED
    BY <2>9, <2>11, <2>12, <2>13, <2>14, <2>15, Zenon DEF Crossing, Talk

\* A server that has been greeted announces itself: it hangs on that one.
<1>CrossAnnounce.
      ASSUME Types, Running, NEW rank, NEW par, NEW n, Crossing(rank, par, n),
             NEW j \in Server, Announce(j)
      PROVE  \E r \in [Server -> Nat], q \in [Server -> Server] : Crossing(r, q, n + 1)'
  <2> USE <1>CrossAnnounce
  <2> PICK p : p = peer[j]
    BY Zenon
  <2> PICK a : a = Msg("NODEIN", j, p, {j}, {})
    BY Zenon
  <2> PICK r : r = [rank EXCEPT ![j] = n]
    BY Zenon
  <2> PICK q : q = [par EXCEPT ![j] = p]
    BY Zenon
  <2>1. a.kind = "NODEIN" /\ a.from = j /\ a.to = p /\ a.who = {j}
    BY Zenon DEF Msg
  <2>2. /\ main[j] = "greets" /\ UNCHANGED <<peer, topo, conn, connects, case>>
        /\ main' = [main EXCEPT ![j] = "up"] /\ gossip' = [gossip EXCEPT ![j] = @ \cup {j}]
    BY Zenon DEF Announce, past
  <2>3. p \in Server /\ p # j
    BY <2>2, Zenon DEF Types, TypeOK, OtherPeer
  <2>4. /\ main'[j] = "up" /\ gossip'[j] = gossip[j] \cup {j}
        /\ \A s \in Server : s # j => main'[s] = main[s] /\ gossip'[s] = gossip[s]
    BY <2>2, Zenon DEF Types, TypeOK, HistoryTypes
  <2>5. PICK M \in SUBSET OnLink(j) : M # {} /\ Exchange(M, {a})
    BY Zenon DEF Announce
  <2>6. ~ Hail(j, p) /\ M \in SUBSET Mail /\ \A m \in M : m.to = j /\ m.kind # "HELLO"
    BY <2>5, Zenon DEF OnLink, Hail
  <2>7. Mail' \subseteq Mail \cup {a} /\ Mail \ M \subseteq Mail' /\ a \in Mail'
    <3>1. Taken({a}) = {a}
      BY <2>1, <2>3, TakenAll, Zenon
    <3>2. M \in SUBSET Mail /\ Exchange(M, {a}) /\ Bagged
      BY <2>5, <2>6, Zenon DEF Types
    <3>3. /\ Mail' \subseteq Mail \cup Taken({a})
          /\ Mail \ M \subseteq Mail' /\ Taken({a}) \subseteq Mail'
      BY <3>2, Exchanging, Zenon
    <3>4. QED
      BY <3>1, <3>3, Zenon
  <2>8. ASSUME NEW v, NEW u
        PROVE  Hail(v, u)' <=> Hail(v, u)
    <3>1. PICK h : h = Tell("HELLO", v, u)
      BY Zenon
    <3>2. h.kind = "HELLO"
      BY <3>1, <1>HailFields, Zenon
    <3>3. QED
      BY <2>1, <2>6, <2>7, <3>1, <3>2, Zenon DEF Hail
  <2>9. /\ j \notin Members /\ j \notin Founders /\ gossip[j] = {} /\ Range(connects[j]) = {}
        /\ p \in Members /\ p \in conn[j] /\ j \in conn[p]
    <3>1. j \notin Members
      BY <2>2, Zenon DEF Members
    <3>2. Knows(j) /\ Mutual(j, p)
      BY <2>3, Zenon DEF Crossing, Talk
    <3>3. j \notin Founders /\ gossip[j] = {} /\ Range(connects[j]) = {}
      BY <3>1, <3>2, Zenon DEF Knows
    <3>4. p \in Members /\ p \in conn[j] /\ j \in conn[p]
      BY <2>2, <2>6, <3>2, Zenon DEF Mutual
    <3>5. QED
      BY <3>1, <3>3, <3>4, Zenon
  <2>10. Members' = Members \cup {j} /\ Founders' = Founders /\ Born' = Born \cup {j}
    <3>1. Members' = Members \cup {j} /\ Founders' = Founders
      BY <2>2, <2>4, Zenon DEF Members, Founders
    <3>2. QED
      BY <2>9, <3>1, Zenon DEF Born
  <2>11. /\ rank \in [Server -> Nat] /\ par \in [Server -> Server] /\ n \in Nat \ {0}
         /\ \A f \in Founders : rank[f] = 0
         /\ \A c \in Born : /\ 0 < rank[c] /\ rank[c] < n
                            /\ par[c] \in Members /\ rank[par[c]] < rank[c]
                            /\ \A d \in Born : rank[c] = rank[d] => c = d
    BY Zenon DEF Crossing, Tree
  <2>12. /\ Born \subseteq Server /\ Members \subseteq Server /\ j \notin Born
         /\ \A c \in Members : c \in Born \/ c \in Founders
         /\ \A f \in Server : f \in Founders => f \in Members
    BY <2>9, Zenon DEF Born, Members, Crossing, Talk, Knows
  <2>13. /\ r \in [Server -> Nat] /\ q \in [Server -> Server] /\ r[j] = n /\ q[j] = p
         /\ \A s \in Server : s # j => r[s] = rank[s] /\ q[s] = par[s]
    BY <2>3, <2>11, Zenon
  <2>14. \A s \in Members : rank[s] < n /\ r[s] = rank[s]
    <3>1. \A s \in Members : r[s] = rank[s]
      BY <2>9, <2>12, <2>13, Zenon
    <3>2. \A f \in Founders : rank[f] < n
      BY <2>11
    <3>3. QED
      BY <2>11, <2>12, <3>1, <3>2, Zenon
  <2>15. Founders \subseteq Server
    BY JoinAssumption, Zenon DEF Founders, Types, HistoryTypes
  <2>16. Tree(r, q, n + 1)'
    <3>1. /\ n + 1 \in Nat \ {0} /\ n < n + 1 /\ 0 < n
          /\ \A c \in Born : 0 < rank[c] /\ rank[c] < n + 1 /\ rank[c] # n
      BY <2>11, <2>12
    <3>6. \A x : x \in Members => x \in Members'
      BY <2>10, Zenon
    <3>2. \A f \in Founders' : r[f] = 0
      <4>1. \A f \in Founders : rank[f] = 0 /\ f # j /\ f \in Server
        BY <2>9, <2>11, <2>15, Zenon
      <4>2. \A f \in Founders : r[f] = rank[f]
        BY <2>13, <4>1, Zenon
      <4>3. QED
        BY <2>10, <4>1, <4>2, Zenon
    <3>3. ASSUME NEW c \in Born
          PROVE  /\ 0 < r[c] /\ r[c] < n + 1 /\ q[c] \in Members' /\ r[q[c]] < r[c]
                 /\ \A d \in Born' : r[c] = r[d] => c = d
      <4>1. r[c] = rank[c] /\ q[c] = par[c] /\ rank[c] < n
        BY <2>11, <2>12, <2>13, Zenon
      <4>2. par[c] \in Members /\ rank[par[c]] < rank[c] /\ r[par[c]] = rank[par[c]]
        BY <2>11, <2>14, Zenon
      <4>3. ASSUME NEW d \in Born, r[c] = r[d]
            PROVE  c = d
        <5>1. r[d] = rank[d]
          BY <2>12, <2>13, Zenon
        <5>2. rank[c] = rank[d]
          BY <4>1, <4>3, <5>1, Zenon
        <5>3. QED
          BY <2>11, <5>2, Zenon
      <4>4. r[c] # r[j] /\ 0 < r[c] /\ r[c] < n + 1
        BY <2>13, <3>1, <4>1, Zenon
      <4>8. q[c] \in Members
        BY <4>1, <4>2, Zenon
      <4>9. q[c] \in Members'
        BY <3>6, <4>8, Zenon
      <4>5. q[c] \in Members' /\ r[q[c]] = rank[par[c]]
        BY <4>1, <4>2, <4>9, Zenon
      <4>6. r[q[c]] < r[c]
        BY <4>1, <4>2, <4>5, Zenon
      <4>7. QED
        BY <2>10, <4>3, <4>4, <4>5, <4>6, Zenon
    <3>4. /\ 0 < r[j] /\ r[j] < n + 1 /\ q[j] \in Members' /\ r[q[j]] < r[j]
          /\ \A d \in Born' : r[j] = r[d] => j = d
      <4>1. r[q[j]] < r[j]
        BY <2>9, <2>13, <2>14, Zenon
      <4>2. \A d \in Born : r[j] # r[d]
        BY <2>12, <2>13, <3>1, Zenon
      <4>5. 0 < r[j] /\ r[j] < n + 1
        BY <2>13, <3>1, Zenon
      <4>3. q[j] \in Members'
        BY <2>9, <2>10, <2>13, Zenon
      <4>6. ASSUME NEW d \in Born', r[j] = r[d]
            PROVE  j = d
        <5>1. d \in Born \/ d = j
          BY <2>10, Zenon
        <5>2. QED
          BY <4>2, <4>6, <5>1, Zenon
      <4>4. QED
        BY <4>1, <4>3, <4>5, <4>6, Zenon
    <3>5. \A c \in Born' : /\ 0 < r[c] /\ r[c] < n + 1 /\ q[c] \in Members' /\ r[q[c]] < r[c]
                           /\ \A d \in Born' : r[c] = r[d] => c = d
      <4>1. \A c \in Born' : c \in Born \/ c = j
        BY <2>10, Zenon
      <4>2. QED
        BY <3>3, <3>4, <4>1, Zenon
    <3>7. QED
      BY <2>13, <3>1, <3>2, <3>5, Zenon DEF Tree
  <2>17. ASSUME NEW w \in Server, NEW v \in Server, Near(q, w, v)'
         PROVE  \/ Near(par, w, v) /\ w # j /\ v # j
                \/ w = j /\ v = p
                \/ w = p /\ v = j
    <3>1. \/ w \in Born' /\ v = q[w]
          \/ v \in Born' /\ w = q[v]
          \/ w \in Founders /\ v \in Founders /\ w # v
      BY <2>10, <2>17, Zenon DEF Near
    <3>2. ASSUME NEW c \in Born
          PROVE  q[c] = par[c] /\ c # j /\ par[c] # j
      <4>1. par[c] \in Members /\ c \in Server /\ c # j
        BY <2>11, <2>12, Zenon
      <4>2. QED
        BY <2>9, <2>13, <4>1, Zenon
    <3>3. QED
      BY <2>9, <2>10, <2>13, <3>1, <3>2, Zenon DEF Near
  <2>18. \A v, u : v \in Server => (Waits(v, u)' <=> Waits(v, u))
    BY <2>2, <2>4, Zenon DEF Waits
  <2>19. Linked(q)'
    <3> SUFFICES ASSUME NEW w \in Server, NEW v \in Server, Near(q, w, v)'
                 PROVE  v \in conn'[w] /\ v \notin Range(connects'[w]) /\ ~ Waits(w, v)'
      BY Zenon DEF Linked
    <3>1. CASE Near(par, w, v)
      BY <2>2, <2>18, <3>1, Zenon DEF Crossing, Linked
    <3>2. CASE w = j /\ v = p
      BY <2>2, <2>4, <2>9, <3>2, Zenon DEF Waits
    <3>3. CASE w = p /\ v = j
      <4>1. Range(connects[p]) \subseteq Born /\ (main[p] = "connects" => peer[p] \in Born)
        BY <2>3, Zenon DEF Crossing, Talk, Knows
      <4>2. j \notin Range(connects[p]) /\ ~ Waits(p, j)
        BY <2>12, <4>1, Zenon DEF Waits
      <4>3. QED
        BY <2>2, <2>3, <2>9, <2>18, <3>3, <4>2, Zenon
    <3>4. QED
      BY <2>17, <3>1, <3>2, <3>3, Zenon
  <2>20. Spread(r, q)'
    <3> SUFFICES ASSUME NEW u \in Born', NEW w \in Server, NEW v \in Server, Near(q, w, v)',
                        r[v] < r[u], u \in gossip'[w], u \notin gossip'[v]
                 PROVE  Tells(u, w, v)'
      BY Zenon DEF Spread
    <3>1. CASE Near(par, w, v) /\ w # j /\ v # j
      <4>1. gossip'[w] = gossip[w] /\ gossip'[v] = gossip[v] /\ gossip[w] \subseteq Born
        BY <2>4, <3>1, Zenon DEF Crossing, Talk, Knows
      <4>2. u \in Born
        BY <4>1, Zenon
      <4>3. r[u] = rank[u] /\ r[v] = rank[v]
        BY <2>12, <2>13, <3>1, <4>2, Zenon
      <4>4. rank[v] < rank[u]
        BY <4>3, Zenon
      <4>5. Tells(u, w, v)
        BY <3>1, <4>1, <4>2, <4>4, Zenon DEF Crossing, Spread
      <4>6. \A m \in Mail : m.kind \in News /\ m.from = w /\ m.to = v => m \in Mail'
        BY <2>6, <2>7, <3>1, Zenon
      <4>7. QED
        BY <4>5, <4>6, <1>TellsKept, Zenon
    <3>2. CASE w = j /\ v = p
      <4>1. u = j
        BY <2>4, <2>9, <3>2, Zenon
      <4>2. QED
        BY <2>1, <2>7, <3>2, <4>1, Zenon DEF Tells, News
    <3>3. CASE w = p /\ v = j
      <4>1. u \in Born
        BY <2>3, <2>4, <3>3, Zenon DEF Crossing, Talk, Knows
      <4>5. rank[u] < n /\ u \in Server /\ u # j
        BY <2>11, <2>12, <4>1, Zenon
      <4>2. rank[u] < n /\ r[u] = rank[u] /\ r[v] = n
        BY <2>13, <3>3, <4>5, Zenon
      <4>3. rank[u] \in Nat /\ n \in Nat /\ n < rank[u]
        BY <2>11, <2>12, <4>1, <4>2, Zenon
      <4>4. QED
        BY <4>2, <4>3
    <3>4. QED
      BY <2>17, <3>1, <3>2, <3>3, Zenon
  <2>21. ASSUME NEW v \in Server
         PROVE  Knows(v)'
    <3>1. Knows(v)
      BY Zenon DEF Crossing, Talk
    <3>2. CASE v # j
      <4>1. main'[v] = main[v] /\ gossip'[v] = gossip[v]
        BY <2>4, <3>2, Zenon
      <4>2. \A u \in gossip'[v] \ {v} :
              u \in topo'[v] /\ (u \in conn'[v] \/ u \in Range(connects'[v]) \/ Waits(v, u)')
        BY <2>2, <2>18, <3>1, <4>1, Zenon DEF Knows
      <4>3. /\ v \in Born' => v \in gossip'[v]
            /\ v \notin Members' => gossip'[v] = {} /\ Range(connects'[v]) = {}
            /\ v \in Founders' => v \in Members' /\ Founders' \subseteq topo'[v]
        BY <2>2, <2>10, <3>1, <3>2, <4>1, Zenon DEF Knows
      <4>4. /\ gossip'[v] \subseteq Born' /\ Range(connects'[v]) \subseteq Born'
            /\ main'[v] = "connects" => peer'[v] \in Born'
        BY <2>2, <2>10, <3>1, <4>1, Zenon DEF Knows
      <4>5. QED
        BY <4>2, <4>3, <4>4, Zenon DEF Knows
    <3>3. CASE v = j
      <4>1. /\ gossip'[v] = {v} /\ Range(connects'[v]) = {} /\ v \in Born' /\ v \in Members'
            /\ v \notin Founders' /\ main'[v] # "connects"
        BY <2>2, <2>4, <2>9, <2>10, <3>3, Zenon
      <4>2. QED
        BY <4>1, Zenon DEF Knows
    <3>4. QED
      BY <3>2, <3>3, Zenon
  <2>22. ASSUME NEW v \in Server, NEW u \in Server
         PROVE  Mutual(v, u)'
    <3>1. Mutual(v, u) /\ (Hail(v, u)' <=> Hail(v, u))
      BY <2>8, Zenon DEF Crossing, Talk
    <3>2. (Waits(v, u)' <=> Waits(v, u)) /\ (Waits(u, v)' <=> Waits(u, v))
      BY <2>18, Zenon
    <3>3. main'[v] \in {"greets", "connects"} => main'[v] = main[v]
      BY <2>4, Zenon
    <3>4. main'[v] = "greets" => main'[v] \in {"greets", "connects"}
      BY Zenon
    <3>5. Members \subseteq Members'
      BY <2>10, Zenon
    <3>6. QED
      BY <2>2, <3>1, <3>2, <3>3, <3>4, <3>5, Zenon DEF Mutual
  <2>23. ASSUME NEW m \in Mail'
         PROVE  Call(m)'
    <3>1. CASE m = a
      BY <2>1, <3>1, Zenon DEF Call
    <3>2. CASE m \in Mail
      <4>1. Call(m) /\ m.from \in Server /\ m.to \in Server
        BY <3>2, Zenon DEF Crossing, Talk, Types, MailTypes, Good, Message
      <4>2. \A s \in Server : /\ main[s] # "off" => main'[s] # "off"
                              /\ main'[s] = "asks" => main[s] = "asks"
        BY <2>4, Zenon
      <4>3. QED
        BY <2>2, <2>10, <4>1, <4>2, Zenon DEF Call
    <3>3. QED
      BY <2>7, <3>1, <3>2, Zenon
  <2>24. Crossing(r, q, n + 1)'
    BY <2>16, <2>19, <2>20, <2>21, <2>22, <2>23, Zenon DEF Crossing, Talk
  <2>25. QED
    BY <2>13, <2>24, Zenon

<1> SUFFICES ASSUME Types, Calm, Cross, [Next]_vars, faults' = {}
             PROVE  \E r \in [Server -> Nat], q \in [Server -> Server], k \in Nat :
                        Crossing(r, q, k)'
  BY Zenon DEF Cross
<1>1. faults = {}
  BY History, Zenon
<1>2. PICK rank \in [Server -> Nat], par \in [Server -> Server], n \in Nat :
          Crossing(rank, par, n)
  BY <1>1, Zenon DEF Cross
<1>3. Running
  BY <1>1, NobodyDown, Zenon
<1>4. ASSUME NEW m \in Mail, Handle(m.to, m)
      PROVE  Crossing(rank, par, n)'
  <2>1. ~ NodeOut(m.to, m)
    BY <1>2, Zenon DEF NodeOut, Arrived, Crossing, Talk, Call
  <2>2. CASE GetNetwork(m.to, m)
    BY <1>2, <1>3, <2>2, <1>CrossGetNetwork, Zenon
  <2>3. CASE Greet(m.to, m)
    BY <1>2, <1>3, <2>3, <1>CrossGreet, Zenon
  <2>4. CASE Hello(m.to, m)
    BY <1>2, <1>3, <2>4, <1>CrossHello, Zenon
  <2>5. CASE Ok(m.to, m) \/ Set(m.to, m) \/ SyncDone(m.to, m)
    BY <1>2, <1>3, <2>5, <1>CrossConsume, Zenon
  <2>6. CASE NodeIn(m.to, m)
    BY <1>2, <1>3, <2>6, <1>CrossNodeIn, Zenon
  <2>7. CASE NodeInNew(m.to, m)
    BY <1>2, <1>3, <2>7, <1>CrossNodeInNew, Zenon
  <2>8. CASE Push(m.to, m)
    BY <1>2, <1>3, <2>8, <1>CrossPush, Zenon
  <2>9. QED
    BY <1>4, <2>1, <2>2, <2>3, <2>4, <2>5, <2>6, <2>7, <2>8, Zenon DEF Handle
<1>5. ASSUME NEW s \in Server, Announce(s)
      PROVE  \E r \in [Server -> Nat], q \in [Server -> Server] : Crossing(r, q, n + 1)'
  BY <1>2, <1>3, <1>5, <1>CrossAnnounce, Zenon
<1>6. ASSUME NEW s \in Server, Connect(s) \/ Connected(s)
      PROVE  Crossing(rank, par, n)'
  BY <1>2, <1>3, <1>6, <1>CrossConnect, <1>CrossConnected, Zenon
<1>7. ASSUME NEW s \in Server, NEW t \in Server, Ask(s, t)
      PROVE  Crossing(rank, par, n)'
  BY <1>2, <1>3, <1>7, <1>CrossAsk, Zenon
<1>8. ASSUME UNCHANGED vars
      PROVE  Crossing(rank, par, n)'
  <2>1. UNCHANGED <<main, peer, views, connects, case, net>>
    BY <1>8, Zenon DEF vars, past
  <2>2. QED
    BY <1>2, <2>1, CrossSame, Zenon
<1>9. n + 1 \in Nat
  BY <1>2
<1>10. QED
  BY <1>2, <1>3, <1>4, <1>5, <1>6, <1>7, <1>8, <1>9, FaultFree, Zenon

-----------------------------------------------------------------------------
(* The news spread.                                                        *)

\* The state of a join while its news spread.
Flood(j, C) ==
    Started = C \cup {j} /\ j \notin C /\ Cluster(C, j) /\ Floods(j, C)

\* Greetings stay while other messages are taken.
LEMMA HelloKept ==
    ASSUME NEW j, NEW m, m.kind # "HELLO", Mail \ {m} \subseteq Mail'
    PROVE  \A c : Tell("HELLO", c, j) \in Mail => Tell("HELLO", c, j) \in Mail'
  BY DEF Tell, Msg

\* The main thread of a server of the cluster greets the new one.
LEMMA FloodConnect ==
    ASSUME Types, Running, NEW j \in Server, NEW C \in SUBSET Server, Flood(j, C),
           NEW s \in Server, Connect(s), \A t \in Server \ Started : Blank(t)
    PROVE  Flood(j, C)' /\ s \in C /\ Head(connects[s]) = j
<1>1. s \in C /\ s # j
  <2>1. connects[s] # <<>> /\ main[s] = "up"
    BY Zenon DEF Connect
  <2>2. s \in Started /\ s # j
    BY <2>1, Zenon DEF Started, Flood, Floods
  <2>3. QED
    BY <2>2, Zenon DEF Flood
<1>2. connects[s] \in Seq(Server) /\ connects[s] # <<>> /\ Connects(j, s)
  BY <1>1, Zenon DEF Connect, Types, TypeOK, Flood, Floods
<1>3. Head(connects[s]) \in Range(connects[s])
  BY <1>2 DEF Range
<1>4. Head(connects[s]) = j /\ j \in gossip[s]
  BY <1>2, <1>3, Zenon DEF Connects
<1>5. /\ main' = [main EXCEPT ![s] = "connects"] /\ peer' = [peer EXCEPT ![s] = j]
      /\ Send({Tell("HELLO", s, j)}) /\ connects' = [connects EXCEPT ![s] = Tail(@)]
      /\ UNCHANGED <<topo, conn, gossip, counted>>
  BY <1>4, Zenon DEF Connect, views, past
<1>6. /\ main'[s] = "connects" /\ peer'[s] = j /\ connects'[s] = Tail(connects[s])
      /\ \A t \in Server : t # s => /\ main'[t] = main[t] /\ peer'[t] = peer[t]
                                    /\ connects'[t] = connects[t]
  BY <1>5, Zenon DEF Types, TypeOK
<1>7. Range(Tail(connects[s])) \subseteq Range(connects[s])
  BY <1>2 DEF Range
<1> PICK n : n = Tell("HELLO", s, j)
  BY Zenon
<1>8. n.kind = "HELLO" /\ n.to = j /\ n.from = s
  BY Zenon DEF Tell, Msg
<1>9. Mail' = Mail \cup {n}
  <2>1. Taken({n}) = {n}
    BY <1>8, TakenAll, Zenon
  <2>2. QED
    BY <1>5, <2>1, Sending, Zenon DEF Types
<1>10. \A t \in Server : Told(t) => Told(t)'
  BY <1>9, Zenon DEF Told
<1>11. Started' = Started
  <2>1. main[s] = "up"
    BY Zenon DEF Connect
  <2>2. QED
    BY <1>6, <2>1, Zenon DEF Started
<1>12. Cluster(C, j)'
  BY <1>5, <1>6, Zenon DEF Flood, Cluster
<1>13. Spreads(j, C, peer[j])'
  <2>1. peer'[j] = peer[j]
    BY <1>1, <1>6, Zenon
  <2>2. QED
    BY <1>5, <1>10, <2>1, Zenon DEF Flood, Floods, Spreads
<1>14. \A x \in Mail' : Carried(x, j, C)
  <2>1. Carried(n, j, C)
    BY <1>1, <1>8, Zenon DEF Carried, News
  <2>2. QED
    BY <1>9, <2>1, Zenon DEF Flood, Floods
<1>15. ASSUME NEW c \in C
       PROVE  Connects(j, c)'
  <2>1. Connects(j, c)
    BY Zenon DEF Flood, Floods
  <2>2. CASE c = s
    BY <1>2, <1>4, <1>5, <1>6, <1>7, <1>9, <2>2, Zenon DEF Connects
  <2>3. CASE c # s
    BY <1>5, <1>6, <1>9, <2>1, <2>3, Zenon DEF Connects
  <2>4. QED
    BY <2>2, <2>3, Zenon
<1>16. Floods(j, C)'
  BY <1>1, <1>5, <1>6, <1>13, <1>14, <1>15, Zenon DEF Flood, Floods
<1>17. QED
  BY <1>1, <1>4, <1>11, <1>12, <1>16, Zenon DEF Flood

\* What has come counts as the answer: the new server knows the link.
LEMMA FloodConnected ==
    ASSUME Types, Running, NEW j \in Server, NEW C \in SUBSET Server, Flood(j, C),
           NEW s \in Server, Connected(s)
    PROVE  /\ Flood(j, C)' /\ s \in C
           /\ \E m \in Mail : /\ Answer(m, {Pushes(j, s)}) /\ m.to = s
                              /\ m.kind \in {"OK", "NODEIN", "NODEOUT", "SET", "SYNCDONE"}
<1>1. s \in C /\ main[s] = "connects" /\ s # j /\ j \notin C
  BY DEF Connected, Flood, Floods, Started
<1>2. Connects(j, s)
  BY <1>1, Zenon DEF Flood, Floods
<1>3. peer[s] = j /\ j \in gossip[s]
  BY <1>1, <1>2, Zenon DEF Connects
<1>4. PICK m \in OnLink(s) : Answer(m, {Pushes(j, s)})
  BY <1>3, Zenon DEF Connected, Pushes
<1>5. /\ m \in Mail /\ m.to = s /\ Tell("HELLO", s, j) \notin Mail
      /\ m.kind \in {"OK", "NODEIN", "NODEOUT", "SET", "SYNCDONE"}
  BY <1>3, <1>4, Zenon DEF OnLink, Mail
<1>6. s \in conn[j]
  BY <1>1, <1>2, <1>5, Zenon DEF Connects
<1>7. /\ conn' = [conn EXCEPT ![s] = @ \cup {j}] /\ main' = [main EXCEPT ![s] = "up"]
      /\ UNCHANGED <<peer, topo, gossip, connects, counted>>
  BY <1>3, Zenon DEF Connected, past
<1>8. /\ conn'[s] = conn[s] \cup {j} /\ main'[s] = "up"
      /\ \A t \in Server : t # s => conn'[t] = conn[t] /\ main'[t] = main[t]
  BY <1>7, Zenon DEF Types, TypeOK
<1> PICK n : n = Pushes(j, s)
  BY Zenon
<1>9. n.kind = "PUSH" /\ n.to = s /\ n.who = {j}
  BY Zenon DEF Pushes, Msg
<1>10. Mail' \subseteq Mail \cup {n} /\ Mail \ {m} \subseteq Mail'
  BY <1>4, <1>5, Answering, Zenon DEF Taken, Types
<1>11. \A t \in Server : Told(t) => Told(t)' \/ j \in gossip[t]
  BY <1>3, <1>5, <1>10, Zenon DEF Told
<1>12. Started' = Started
  BY <1>1, <1>8, Zenon DEF Started
<1>13. Cluster(C, j)'
  <2> SUFFICES ASSUME NEW c \in C
               PROVE  /\ main'[c] \in {"up", "connects"} /\ gossip'[c] \subseteq C \cup {j}
                      /\ topo'[c] = C \cup (gossip'[c] \cap {j})
                      /\ C \ {c} \subseteq conn'[c] /\ conn'[c] \subseteq C \cup {j}
    BY Zenon DEF Cluster
  <2>1. /\ main[c] \in {"up", "connects"} /\ gossip[c] \subseteq C \cup {j}
        /\ topo[c] = C \cup (gossip[c] \cap {j})
        /\ C \ {c} \subseteq conn[c] /\ conn[c] \subseteq C \cup {j}
    BY Zenon DEF Flood, Cluster
  <2>2. QED
    BY <1>7, <1>8, <2>1, Zenon
<1>14. Spreads(j, C, peer[j])'
  <2>1. peer[j] \in C /\ C \subseteq Server /\ Spreads(j, C, peer[j])
    BY Zenon DEF Flood, Floods
  <2>2. QED
    BY <1>7, <1>11, <2>1, Zenon DEF Spreads
<1>15. \A x \in Mail' : Carried(x, j, C)
  <2>1. Carried(n, j, C)
    BY <1>1, <1>9, Zenon DEF Carried, News
  <2>2. QED
    BY <1>10, <2>1, Zenon DEF Flood, Floods
<1>16. ASSUME NEW c \in C
       PROVE  Connects(j, c)'
  <2>1. Connects(j, c)
    BY Zenon DEF Flood, Floods
  <2>2. Tell("HELLO", c, j) \in Mail => Tell("HELLO", c, j) \in Mail'
    BY <1>5, <1>10, HelloKept, Zenon
  <2>3. CASE c = s
    BY <1>1, <1>2, <1>3, <1>6, <1>7, <1>8, <2>3, Zenon DEF Connects
  <2>4. CASE c # s
    BY <1>1, <1>7, <1>8, <2>1, <2>2, <2>4, Zenon DEF Connects
  <2>5. QED
    BY <2>3, <2>4, Zenon
<1>17. Floods(j, C)'
  BY <1>1, <1>7, <1>8, <1>14, <1>15, <1>16, Zenon DEF Flood, Floods
<1>18. Flood(j, C)'
  BY <1>1, <1>12, <1>13, <1>17, Zenon DEF Flood
<1>19. QED
  BY <1>1, <1>4, <1>5, <1>18, Zenon

\* When nothing is under way any more, the news have reached everybody.
LEMMA FloodEnds ==
    ASSUME Types, NEW j \in Server, NEW C \in SUBSET Server, Flood(j, C), Quiet
    PROVE  Settled
<1>1. Mail = {} /\ j \notin C /\ Started = C \cup {j}
  BY QuietNamesNobody, Zenon DEF Flood
<1>2. Still
  BY Zenon DEF Quiet, Still
<1>3. \A s \in Server : ~ Told(s)
  BY <1>1, Zenon DEF Told
<1>4. \A c \in C : j \in gossip[c]
  BY <1>3, Zenon DEF Flood, Floods, Spreads
<1>5. Range(<<>>) = {}
  BY DEF Range
<1>6. \A c \in C : j \in conn[c] /\ c \in conn[j]
  BY <1>2, <1>4, <1>5, Zenon DEF Flood, Floods, Connects, Still
<1>7. ASSUME NEW c \in C
      PROVE  /\ main[c] = "up" /\ gossip[c] \subseteq Started
             /\ topo[c] = Started /\ conn[c] = Started \ {c}
  <2>1. /\ main[c] \in {"up", "connects"} /\ gossip[c] \subseteq C \cup {j}
        /\ topo[c] = C \cup (gossip[c] \cap {j})
        /\ C \ {c} \subseteq conn[c] /\ conn[c] \subseteq C \cup {j}
    BY Zenon DEF Flood, Cluster
  <2>2. c \notin conn[c] /\ main[c] # "connects"
    BY <1>2, Zenon DEF Types, TypeOK, Still
  <2>3. QED
    BY <1>1, <1>4, <1>6, <2>1, <2>2, Zenon
<1>8. /\ main[j] = "up" /\ gossip[j] \subseteq Started /\ topo[j] = Started
      /\ conn[j] = Started \ {j}
  <2>1. /\ main[j] = "up" /\ gossip[j] \subseteq C \cup {j} /\ topo[j] = C \cup {j}
        /\ conn[j] \subseteq C
    BY Zenon DEF Flood, Floods
  <2>2. QED
    BY <1>1, <1>6, <2>1, Zenon
<1>9. QED
  BY <1>1, <1>2, <1>7, <1>8, Zenon DEF Settled

\* In that state the servers agree.
LEMMA SettledAgree ==
    ASSUME Settled, Running
    PROVE  \A s \in Up : topo[s] = Up /\ conn[s] = Up \ {s}
<1>1. Up = Started
  BY Zenon DEF Up, Started, Settled
<1>2. QED
  BY <1>1, Zenon DEF Settled

\* Handlers keep the news spreading.
LEMMA FloodHandle ==
    Types /\ Running =>
        \A j \in Server, C \in SUBSET Server, m \in Mail :
            Flood(j, C) /\ Handle(m.to, m) =>
                Flood(j, C)' /\ (NodeInNew(m.to, m) => m.to \in C)
\* A step that changes only what is under way.
<1>FloodMail.
      ASSUME NEW j \in Server, NEW C \in SUBSET Server, Flood(j, C),
             UNCHANGED <<main, peer, views, connects, counted>>,
             \A n \in Mail' : n \in Mail \/ Carried(n, j, C),
             \A s \in Server : Told(s) => Told(s)' \/ j \in gossip[s],
             \A c \in C : Tell("HELLO", c, j) \in Mail => Tell("HELLO", c, j) \in Mail'
      PROVE  Flood(j, C)'
  <2> USE <1>FloodMail
  <2>1. UNCHANGED <<main, peer, topo, conn, gossip, connects, counted>>
    BY Zenon DEF views
  <2>2. Started' = Started /\ Cluster(C, j)'
    BY <2>1, Zenon DEF Started, Flood, Cluster
  <2>3. Spreads(j, C, peer[j])'
    BY <2>1, Zenon DEF Flood, Floods, Spreads
  <2>4. \A n \in Mail' : Carried(n, j, C)
    BY Zenon DEF Flood, Floods
  <2>5. ASSUME NEW c \in C
        PROVE  Connects(j, c)'
    <3>1. Connects(j, c)
      BY Zenon DEF Flood, Floods
    <3>2. QED
      BY <2>1, <3>1, Zenon DEF Connects
  <2>6. Floods(j, C)'
    BY <2>1, <2>3, <2>4, <2>5, Zenon DEF Flood, Floods
  <2>7. QED
    BY <2>2, <2>6, Zenon DEF Flood

\* What is not handled stays.
<1>ToldKept. ASSUME NEW m, m.kind \notin News, Mail \ {m} \subseteq Mail'
             PROVE  \A s \in Server : Told(s) => Told(s)'
  BY <1>ToldKept, Zenon DEF Told

\* Handlers that take a message and change nothing the join depends on.
<1>FloodConsume. ASSUME Types, NEW j \in Server, NEW C \in SUBSET Server, Flood(j, C),
                        NEW m \in Mail, Ok(m.to, m) \/ Set(m.to, m) \/ SyncDone(m.to, m)
                 PROVE  Flood(j, C)'
  <2> USE <1>FloodConsume
  <2>1. m.kind \in {"OK", "SET", "SYNCDONE"}
    BY Zenon DEF Ok, Set, SyncDone, Arrived
  <2>2. UNCHANGED <<main, peer, views, connects, counted>>
    BY Zenon DEF Ok, Set, SyncDone, past
  <2>3. Mail' \subseteq Mail /\ Mail \ {m} \subseteq Mail'
    BY Consuming, Zenon DEF Ok, Set, SyncDone, Types
  <2>4. \A s \in Server : Told(s) => Told(s)'
    BY <2>1, <2>3, <1>ToldKept, Zenon DEF News
  <2>5. \A c \in C : Tell("HELLO", c, j) \in Mail => Tell("HELLO", c, j) \in Mail'
    BY <2>1, <2>3, HelloKept, Zenon
  <2>6. QED
    BY <2>2, <2>3, <2>4, <2>5, <1>FloodMail, Zenon

\* A push sends data and a SYNCDONE to j.
<1>FloodPush. ASSUME Types, NEW j \in Server, NEW C \in SUBSET Server, Flood(j, C),
                     NEW m \in Mail, Push(m.to, m)
              PROVE  Flood(j, C)'
  <2> USE <1>FloodPush
  <2>1. m.kind = "PUSH" /\ m.to \in C /\ m.who = {j} /\ m.to \in Server /\ m.to # j
    <3>1. m.kind = "PUSH"
      BY Zenon DEF Push, Arrived
    <3>2. Carried(m, j, C) /\ j \notin C
      BY Zenon DEF Flood, Floods
    <3>3. QED
      BY <3>1, <3>2, Zenon DEF Carried
  <2>2. UNCHANGED <<main, peer, views, connects, counted>>
    BY Zenon DEF Push, past
  <2> PICK S : S = IF j \in conn[m.to] THEN SendDataToNode(m.to, j, topo[m.to]) ELSE {}
    BY Zenon
  <2>3. Answer(m, S)
    BY <2>1, Zenon DEF Push
  <2>4. Mail' \subseteq Mail \cup S /\ Mail \ {m} \subseteq Mail'
    BY <2>3, Answering DEF Taken, Types
  <2>5. ASSUME NEW n \in S
        PROVE  Carried(n, j, C)
    <3>1. n.kind \in {"SET", "SYNCDONE"} /\ n.from = m.to /\ n.to = j
      BY <2>1, DataMessages
    <3>2. QED
      BY <2>1, <3>1, Zenon DEF Carried, News
  <2>6. \A s \in Server : Told(s) => Told(s)'
    BY <2>1, <2>4, <1>ToldKept, Zenon DEF News
  <2>7. \A c \in C : Tell("HELLO", c, j) \in Mail => Tell("HELLO", c, j) \in Mail'
    BY <2>1, <2>4, HelloKept, Zenon
  <2>8. QED
    BY <2>2, <2>4, <2>5, <2>6, <2>7, <1>FloodMail, Zenon

\* NODEIN is old news, or the task to take j in.
<1>FloodNodeIn.
      ASSUME Types, Running, NEW j \in Server, NEW C \in SUBSET Server, Flood(j, C),
             NEW m \in Mail, NodeIn(m.to, m)
      PROVE  Flood(j, C)'
  <2> USE <1>FloodNodeIn
  <2>1. m.kind = "NODEIN" /\ m.who = {j} /\ m \in Message /\ m.to \in Server
    <3>1. m.kind = "NODEIN"
      BY Zenon DEF NodeIn, Arrived
    <3>2. Carried(m, j, C) /\ m \in Message
      BY Zenon DEF Flood, Floods, Types, MailTypes, Good
    <3>3. QED
      BY <3>1, <3>2, Zenon DEF Carried, News, Message
  <2>2. UNCHANGED <<main, peer, views, connects, counted>>
    BY Zenon DEF NodeIn, past
  <2> PICK n : n = [m EXCEPT !.kind = "NODEIN new"]
    BY Zenon
  <2>3. n.kind = "NODEIN new" /\ n.to = m.to /\ n.who = {j}
    BY <2>1, NewsFields, Zenon
  <2>4. CASE FindGossip(m.to, m)
    <3>1. Answer(m, {})
      BY <2>4, Zenon DEF NodeIn
    <3>2. Mail' \subseteq Mail /\ Mail \ {m} \subseteq Mail'
      BY <3>1, Consuming, Zenon DEF Types
    <3>3. j \in gossip[m.to]
      BY <2>1, <2>4, Zenon DEF FindGossip
    <3>4. \A s \in Server : Told(s) => Told(s)' \/ j \in gossip[s]
      BY <3>2, <3>3, Zenon DEF Told
    <3>5. \A c \in C : Tell("HELLO", c, j) \in Mail => Tell("HELLO", c, j) \in Mail'
      BY <2>1, <3>2, HelloKept, Zenon
    <3>6. QED
      BY <2>2, <3>2, <3>4, <3>5, <1>FloodMail, Zenon
  <2>5. CASE ~ FindGossip(m.to, m)
    <3>1. Answer(m, {n})
      BY <2>5, Zenon DEF NodeIn
    <3>2. Taken({n}) = {n}
      BY <2>1, <2>3, TakenAll, Zenon
    <3>3. Mail' \subseteq Mail \cup {n} /\ Mail \ {m} \subseteq Mail' /\ n \in Mail'
      BY <3>1, <3>2, Answering, Zenon DEF Types
    <3>4. \A s \in Server : Told(s) => Told(s)'
      BY <2>3, <3>3, Zenon DEF Told, News
    <3>5. Carried(n, j, C)
      BY <2>3, Zenon DEF Carried, News
    <3>6. \A c \in C : Tell("HELLO", c, j) \in Mail => Tell("HELLO", c, j) \in Mail'
      BY <2>1, <3>3, HelloKept, Zenon
    <3>7. QED
      BY <2>2, <3>3, <3>4, <3>5, <3>6, <1>FloodMail, Zenon
  <2>6. QED
    BY <2>4, <2>5, Zenon

\* The new server learns of a link.
<1>FloodHello. ASSUME Types, NEW j \in Server, NEW C \in SUBSET Server, Flood(j, C),
                      NEW m \in Mail, Hello(m.to, m)
               PROVE  Flood(j, C)'
  <2> USE <1>FloodHello
  <2>1. m.kind = "HELLO" /\ m.to = j /\ m.from \in C /\ j \notin C
    <3>1. m.kind = "HELLO"
      BY Zenon DEF Hello, Arrived
    <3>2. Carried(m, j, C) /\ j \notin C
      BY Zenon DEF Flood, Floods
    <3>3. QED
      BY <3>1, <3>2, Zenon DEF Carried
  <2>2. /\ UNCHANGED <<main, peer, topo, gossip, connects, counted>>
        /\ conn' = [conn EXCEPT ![j] = @ \cup {m.from}]
        /\ Answer(m, {Tell("OK", j, m.from)})
    BY <2>1, Zenon DEF Hello, past
  <2>3. /\ conn'[j] = conn[j] \cup {m.from}
        /\ \A s \in Server : s # j => conn'[s] = conn[s]
    BY <2>2, Zenon DEF Types, TypeOK
  <2> PICK n : n = Tell("OK", j, m.from)
    BY Zenon
  <2>4. n.kind = "OK"
    BY Zenon DEF Tell, Msg
  <2>5. Mail' \subseteq Mail \cup {n} /\ Mail \ {m} \subseteq Mail'
    BY <2>2, Answering DEF Taken, Types
  <2>6. \A s \in Server : Told(s) => Told(s)'
    BY <2>1, <2>5, <1>ToldKept, Zenon DEF News
  <2>7. Started' = Started /\ Cluster(C, j)'
    BY <2>1, <2>2, <2>3 DEF Started, Flood, Cluster
  <2>8. Spreads(j, C, peer[j])'
    BY <2>2, <2>6, Zenon DEF Flood, Floods, Spreads
  <2>9. \A x \in Mail' : Carried(x, j, C)
    <3>1. Carried(n, j, C)
      BY <2>4, Zenon DEF Carried, News
    <3>2. QED
      BY <2>5, <3>1, Zenon DEF Flood, Floods
  <2>10. ASSUME NEW c \in C
         PROVE  Connects(j, c)'
    <3>1. Connects(j, c)
      BY Zenon DEF Flood, Floods
    <3>2. Tell("HELLO", c, j).from = c
      BY Zenon DEF Tell, Msg
    <3>3. Tell("HELLO", c, j) \in Mail => Tell("HELLO", c, j) \in Mail' \/ c \in conn'[j]
      BY <2>3, <2>5, <3>2, Zenon
    <3>4. QED
      BY <2>1, <2>2, <2>3, <3>1, <3>3, Zenon DEF Connects
  <2>11. Floods(j, C)'
    BY <2>1, <2>2, <2>3, <2>8, <2>9, <2>10, Zenon DEF Flood, Floods
  <2>12. QED
    BY <2>7, <2>11, Zenon DEF Flood

\* A server of the cluster takes the new one in, and tells all others.
<1>FloodNodeInNew.
      ASSUME Types, Running, NEW j \in Server, NEW C \in SUBSET Server, Flood(j, C),
             NEW m \in Mail, NodeInNew(m.to, m)
      PROVE  Flood(j, C)' /\ m.to \in C
  <2> USE <1>FloodNodeInNew
  <2> PICK s : s = m.to
    BY Zenon
  <2>1. m.kind = "NODEIN new" /\ m.who = {j} /\ main[s] = "up" /\ s \in Server /\ j \notin C
    <3>1. m.kind = "NODEIN new" /\ main[s] = "up"
      BY Zenon DEF NodeInNew, Arrived
    <3>2. Carried(m, j, C) /\ m \in Message /\ j \notin C
      BY Zenon DEF Flood, Floods, Types, MailTypes, Good
    <3>3. QED
      BY <3>1, <3>2, Zenon DEF Carried, News, Message
  <2>2. PICK x \in Server :
            /\ m.who = {x} /\ x # s
            /\ gossip' = [gossip EXCEPT ![s] = @ \cup {x}]
            /\ topo' = [topo EXCEPT ![s] = @ \cup {x}]
            /\ connects' = [connects EXCEPT ![s] = NodeInConnect(s, x)]
            /\ Answer(m, NodeInTell(s, m) \cup
                           (IF x \in conn[s] THEN SendDataToNode(s, x, topo'[s]) ELSE {}))
    BY TakenIn, Zenon
  <2>3. x = j /\ s # j
    BY <2>1, <2>2, Zenon
  <2>4. s \in C
    BY <2>1, <2>3, Zenon DEF Flood, Started
  <2> PICK S : S = NodeInTell(s, m) \cup
                     (IF j \in conn[s] THEN SendDataToNode(s, j, topo'[s]) ELSE {})
    BY Zenon
  <2>5. Answer(m, S)
    BY <2>2, <2>3, Zenon
  <2>6. UNCHANGED <<main, peer, conn, counted>>
    BY Zenon DEF NodeInNew, past
  <2>7. /\ gossip'[s] = gossip[s] \cup {j} /\ topo'[s] = topo[s] \cup {j}
        /\ \A t \in Server : t # s => /\ gossip'[t] = gossip[t] /\ topo'[t] = topo[t]
                                      /\ connects'[t] = connects[t]
        /\ connects'[s] = IF j \in conn[s] THEN connects[s] ELSE Append(connects[s], j)
    BY <2>1, <2>2, <2>3, Zenon DEF Types, TypeOK, HistoryTypes, NodeInConnect
  <2>8. /\ Range(connects'[s]) \subseteq Range(connects[s]) \cup {j}
        /\ j \in conn[s] \/ j \in Range(connects'[s])
    <3>1. connects[s] \in Seq(Server)
      BY <2>1, Zenon DEF Types, TypeOK
    <3>4. Range(Append(connects[s], j)) \subseteq Range(connects[s]) \cup {j}
      BY <3>1 DEF Range
    <3>5. /\ Append(connects[s], j)[Len(connects[s]) + 1] = j
          /\ Len(connects[s]) + 1 \in DOMAIN Append(connects[s], j)
      BY <3>1
    <3>2. /\ Range(Append(connects[s], j)) \subseteq Range(connects[s]) \cup {j}
          /\ j \in Range(Append(connects[s], j))
      BY <3>4, <3>5, Zenon DEF Range
    <3>3. QED
      BY <2>7, <3>2, Zenon
  <2>9. ASSUME NEW n \in S
        PROVE  /\ Carried(n, j, C) /\ n.to \in Server
               /\ n \in NodeInTell(s, m) \/ n.kind \in {"SET", "SYNCDONE"}
    <3>1. CASE n \in NodeInTell(s, m)
      <4>1. PICK t \in conn[s] : n = Msg("NODEIN", s, t, {j}, {})
        BY <2>1, <3>1, Zenon DEF NodeInTell
      <4>3. n.kind = "NODEIN" /\ n.who = {j} /\ n.to = t
        BY <4>1, Zenon DEF Msg
      <4>2. QED
        BY <2>1, <3>1, <4>3, Zenon DEF Carried, News, Types, TypeOK
    <3>2. CASE n \in SendDataToNode(s, j, topo'[s])
      <4>3. PICK T : T = topo'[s]
        BY Zenon
      <4>4. n \in SendDataToNode(s, j, T) /\ s \in Server /\ j \in Server /\ j # s
        BY <2>1, <2>3, <3>2, <4>3, Zenon
      <4>1. n.kind \in {"SET", "SYNCDONE"} /\ n.from = s /\ n.to = j
        BY <4>4, DataMessages
      <4>2. QED
        BY <2>4, <4>1, Zenon DEF Carried, News
    <3>3. QED
      BY <3>1, <3>2, Zenon
  <2>10. Mail' \subseteq Mail \cup S /\ Mail \ {m} \subseteq Mail' /\ S \subseteq Mail'
    <3>1. Taken(S) = S
      BY <2>9, TakenAll, Zenon
    <3>2. QED
      BY <2>5, <3>1, Answering, Zenon DEF Types
  <2>11. \A c \in C : c # s => Told(c)'
    <3> SUFFICES ASSUME NEW c \in C, c # s
                 PROVE  Told(c)'
      BY Zenon
    <3>1. c \in conn[s]
      BY <2>4, Zenon DEF Flood, Cluster
    <3> PICK n : n = Msg("NODEIN", s, c, m.who, {})
      BY Zenon
    <3>2. n \in S
      BY <3>1, Zenon DEF NodeInTell
    <3>3. n.kind = "NODEIN" /\ n.to = c
      BY Zenon DEF Msg
    <3>4. QED
      BY <2>10, <3>2, <3>3, Zenon DEF Told, News
  <2>12. Started' = Started
    BY <2>6, Zenon DEF Started
  <2>13. Cluster(C, j)'
    <3> SUFFICES ASSUME NEW c \in C
                 PROVE  /\ main'[c] \in {"up", "connects"} /\ gossip'[c] \subseteq C \cup {j}
                        /\ topo'[c] = C \cup (gossip'[c] \cap {j})
                        /\ C \ {c} \subseteq conn'[c] /\ conn'[c] \subseteq C \cup {j}
      BY Zenon DEF Cluster
    <3>1. /\ main[c] \in {"up", "connects"} /\ gossip[c] \subseteq C \cup {j}
          /\ topo[c] = C \cup (gossip[c] \cap {j})
          /\ C \ {c} \subseteq conn[c] /\ conn[c] \subseteq C \cup {j}
      BY Zenon DEF Flood, Cluster
    <3>2. CASE c = s
      BY <2>6, <2>7, <3>1, <3>2, Zenon
    <3>3. CASE c # s
      BY <2>6, <2>7, <3>1, <3>3, Zenon
    <3>4. QED
      BY <3>2, <3>3, Zenon
  <2>14. Spreads(j, C, peer[j])'
    <3>1. peer'[j] \in C
      BY <2>6, Zenon DEF Flood, Floods
    <3>2. \A c \in C : j \in gossip'[c] \/ Told(c)'
      BY <2>7, <2>11, Zenon
    <3>3. QED
      BY <3>1, <3>2, Zenon DEF Spreads
  <2>15. \A n \in Mail' : Carried(n, j, C)
    BY <2>9, <2>10, Zenon DEF Flood, Floods
  <2>16. ASSUME NEW c \in C
         PROVE  Connects(j, c)'
    <3>1. Connects(j, c)
      BY Zenon DEF Flood, Floods
    <3>2. Tell("HELLO", c, j) \in Mail => Tell("HELLO", c, j) \in Mail'
      BY <2>1, <2>10, HelloKept, Zenon
    <3>3. CASE c = s
      BY <2>6, <2>7, <2>8, <3>1, <3>2, <3>3, Zenon DEF Connects
    <3>4. CASE c # s
      BY <2>6, <2>7, <3>1, <3>2, <3>4, Zenon DEF Connects
    <3>5. QED
      BY <3>3, <3>4, Zenon
  <2>17. Floods(j, C)'
    BY <2>3, <2>6, <2>7, <2>14, <2>15, <2>16, Zenon DEF Flood, Floods
  <2>18. QED
    BY <2>4, <2>12, <2>13, <2>17, Zenon DEF Flood

<1> SUFFICES ASSUME Types, Running, NEW j \in Server, NEW C \in SUBSET Server,
                    NEW m \in Mail, Flood(j, C), Handle(m.to, m)
             PROVE  Flood(j, C)' /\ (NodeInNew(m.to, m) => m.to \in C)
  BY Zenon
<1>1. m.kind \notin {"GETNETWORK", "NETWORK", "NODEOUT"}
  BY Zenon DEF Flood, Floods, Carried
<1>2. \/ Hello(m.to, m) \/ Ok(m.to, m) \/ NodeIn(m.to, m) \/ NodeInNew(m.to, m)
      \/ Push(m.to, m) \/ Set(m.to, m) \/ SyncDone(m.to, m)
  BY <1>1, Zenon DEF Handle, GetNetwork, Greet, NodeOut, Arrived
<1>3. Flood(j, C)'
  BY <1>2, <1>FloodHello, <1>FloodConsume, <1>FloodNodeIn, <1>FloodNodeInNew, <1>FloodPush, Zenon
<1>4. NodeInNew(m.to, m) => m.to \in C
  BY <1>FloodNodeInNew, Zenon
<1>5. QED
  BY <1>3, <1>4, Zenon
=============================================================================
