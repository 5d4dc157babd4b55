----------------------------- MODULE JoinProofs -----------------------------
(***************************************************************************)
(* Proofs about joins, for every number of servers and keys, every ring    *)
(* and every bound on joins and faults, with or without a client.  The     *)
(* invariants and most of the steps are in JoinSteps.  Here are the pushes *)
(* of the servers to a new one, the books that it keeps of them, one join  *)
(* after the other (Solo), the invariant of the whole with the theorems    *)
(* that follow from it, and what a client knows (Follows).                 *)
(*                                                                         *)
(* What holds of each handler is a step of the lemma about all of them.    *)
(***************************************************************************)
EXTENDS JoinSteps

-----------------------------------------------------------------------------
(* Of at most two servers each pushes its data once.                       *)

\* The messages of a push say what they are and whose.
Sign(j, b, t) ==
    /\ In(j, b, t).kind = "NODEIN" /\ In(j, b, t).to = t
    /\ In(j, b, t).from = IF t = b THEN j ELSE b
    /\ New(j, b, t).kind = "NODEIN new" /\ New(j, b, t).to = t
    /\ Pushes(j, t).kind = "PUSH" /\ Pushes(j, t).to = t
    /\ Done(j, t).kind = "SYNCDONE" /\ Done(j, t).from = t

\* The parts, named.
Sum(j, b, t, u, v, w, x, y, z, o) ==
    /\ u = Unheard(j, b, t) /\ v = Copies(New(j, b, t)) /\ w = Len(connects[t])
    /\ x = Connecting(t) /\ y = Copies(Pushes(j, t)) /\ z = Copies(Done(j, t))
    /\ o = done[j][t] /\ Work(j, b, t) = u + v + w + x + y + z + o

\* No step makes a second push of the same server.
LEMMA OnePushStep ==
    Types /\ Types' /\ Running =>
        \A j \in Server, C \in SUBSET Server : \A b \in C :
            Few(C) /\ Flood(j, C) /\ OnePush(j, C, b) =>
                /\ \A m \in Mail :
                      /\ Handle(m.to, m) => OnePush(j, C, b)'
                      /\ SyncDone(m.to, m) => done[j][m.from] = 0
                /\ \A s \in C : Connect(s) \/ Connected(s) => OnePush(j, C, b)'
\* Their kinds and servers.
<1>Signs. ASSUME NEW j, NEW b, NEW t
          PROVE  Sign(j, b, t)
  <2> USE <1>Signs
  <2>1. /\ In(j, b, t).kind = "NODEIN" /\ In(j, b, t).to = t
        /\ In(j, b, t).from = IF t = b THEN j ELSE b
    BY Zenon DEF In, Msg
  <2>2. New(j, b, t).kind = "NODEIN new" /\ New(j, b, t).to = t
    BY Zenon DEF New, Msg
  <2>3. Pushes(j, t).kind = "PUSH" /\ Pushes(j, t).to = t
    BY Zenon DEF Pushes, Msg
  <2>4. Done(j, t).kind = "SYNCDONE" /\ Done(j, t).from = t
    BY Zenon DEF Done, Tell, Msg
  <2>5. QED
    BY <2>1, <2>2, <2>3, <2>4, Zenon DEF Sign

\* The parts of the work of one server.
<1>Parts.
      ASSUME Types, NEW j \in Server, NEW b, NEW t \in Server
      PROVE  /\ Unheard(j, b, t) \in Nat /\ Connecting(t) \in Nat
             /\ \A x : Copies(x) \in Nat
             /\ Len(connects[t]) \in Nat /\ done[j][t] \in Nat /\ Work(j, b, t) \in Nat
  <2> USE <1>Parts
  <2>1. \A x : Copies(x) \in Nat
    BY Zenon DEF Types, Bagged, Copies
  <2>2. Len(connects[t]) \in Nat /\ done[j][t] \in Nat
    BY DEF Types, TypeOK, HistoryTypes
  <2>3. Unheard(j, b, t) \in Nat /\ Connecting(t) \in Nat
    BY <2>1, Zenon DEF Unheard, Connecting
  <2>4. Work(j, b, t) \in Nat
    <3>1. /\ Copies(New(j, b, t)) \in Nat /\ Copies(Pushes(j, t)) \in Nat
          /\ Copies(Done(j, t)) \in Nat
      BY <2>1, Zenon
    <3>2. \A u, v, w, x, y, z, o \in Nat : u + v + w + x + y + z + o \in Nat
      OBVIOUS
    <3>3. QED
      BY <2>2, <2>3, <3>1, <3>2, Zenon DEF Work
  <2>5. QED
    BY <2>1, <2>2, <2>3, <2>4, Zenon

\* The same after a step.
<1>PartsNext.
      ASSUME Types', NEW j \in Server, NEW b, NEW t \in Server
      PROVE  /\ Unheard(j, b, t)' \in Nat /\ Connecting(t)' \in Nat
             /\ \A x : Copies(x)' \in Nat
             /\ Len(connects'[t]) \in Nat /\ done'[j][t] \in Nat /\ Work(j, b, t)' \in Nat
  <2> USE <1>PartsNext
  <2>1. \A x : Copies(x)' \in Nat
    BY Zenon DEF Types, Bagged, Copies
  <2>2. Len(connects'[t]) \in Nat /\ done'[j][t] \in Nat
    BY DEF Types, TypeOK, HistoryTypes
  <2>3. Unheard(j, b, t)' \in Nat /\ Connecting(t)' \in Nat
    BY <2>1, Zenon DEF Unheard, Connecting
  <2>4. Work(j, b, t)' \in Nat
    <3>1. /\ Copies(New(j, b, t))' \in Nat /\ Copies(Pushes(j, t))' \in Nat
          /\ Copies(Done(j, t))' \in Nat
      BY <2>1, Zenon
    <3>2. \A u, v, w, x, y, z, o \in Nat : u + v + w + x + y + z + o \in Nat
      OBVIOUS
    <3>3. QED
      BY <2>2, <2>3, <3>1, <3>2, Zenon DEF Work
  <2>5. QED
    BY <2>1, <2>2, <2>3, <2>4, Zenon

\* What is there is counted, and what is counted is there.
<1>Counting. ASSUME Types
             PROVE  \A x : Copies(x) \in Nat /\ (x \in Mail <=> Copies(x) >= 1)
  BY <1>Counting DEF Types, Bagged, Copies

\* The same after a step.
<1>CountingNext. ASSUME Types'
                 PROVE  \A x : Copies(x)' \in Nat /\ (x \in Mail' <=> Copies(x)' >= 1)
  BY <1>CountingNext DEF Types, Bagged, Copies

\* A server whose work the step leaves alone.
<1>WorkSame.
      ASSUME NEW j \in Server, NEW b, NEW t \in Server,
             Copies(In(j, b, t))' = Copies(In(j, b, t)),
             Copies(New(j, b, t))' = Copies(New(j, b, t)),
             Copies(Pushes(j, t))' = Copies(Pushes(j, t)),
             Copies(Done(j, t))' = Copies(Done(j, t)),
             gossip'[t] = gossip[t], connects'[t] = connects[t], done'[j][t] = done[j][t],
             main'[t] = "connects" <=> main[t] = "connects"
      PROVE  Work(j, b, t)' = Work(j, b, t)
  <2> USE <1>WorkSame
  <2>1. Unheard(j, b, t)' = Unheard(j, b, t) /\ Connecting(t)' = Connecting(t)
    BY Zenon DEF Unheard, Connecting
  <2>2. QED
    BY <2>1, Zenon DEF Work

\* A step after which no server has more work, and nobody has heard of j.
<1>OnePushKept.
      ASSUME NEW j \in Server, NEW C \in SUBSET Server, NEW b, OnePush(j, C, b),
             gossip' = gossip,
             \A t \in C : /\ Work(j, b, t)' \in Nat /\ Work(j, b, t) \in Nat
                           /\ Work(j, b, t)' <= Work(j, b, t),
             \A t \in C : New(j, b, t) \in Mail' => New(j, b, t) \in Mail \/ j \notin gossip[t],
             \A m \in Mail' : m \in Mail \/ OfPush(j, C, b, m)
      PROVE  OnePush(j, C, b)'
  <2> USE <1>OnePushKept
  <2>1. ASSUME NEW t \in C
        PROVE  /\ Work(j, b, t)' <= 1
               /\ New(j, b, t) \in Mail' => j \notin gossip'[t]
               /\ t # b /\ j \notin gossip'[b] => Work(j, b, t)' = 0 /\ j \notin gossip'[t]
    <3>1. /\ Work(j, b, t) <= 1 /\ (New(j, b, t) \in Mail => j \notin gossip[t])
          /\ t # b /\ j \notin gossip[b] => Work(j, b, t) = 0 /\ j \notin gossip[t]
      BY Zenon DEF OnePush
    <3>2. /\ Work(j, b, t)' \in Nat /\ Work(j, b, t) \in Nat
          /\ Work(j, b, t)' <= Work(j, b, t)
      BY Zenon
    <3>3. Work(j, b, t) = 0 => Work(j, b, t)' = 0
      BY <3>2
    <3>4. Work(j, b, t)' <= 1
      BY <3>1, <3>2
    <3>5. QED
      BY <3>1, <3>3, <3>4, Zenon
  <2>2. \A m \in Mail' : OfPush(j, C, b, m)'
    BY Zenon DEF OnePush, OfPush
  <2>3. QED
    BY <2>1, <2>2, Zenon DEF OnePush

\* There are such parts.
<1>Sums. ASSUME Types, NEW j \in Server, NEW b, NEW t \in Server
         PROVE  \E u, v, w, x, y, z, o \in Nat : Sum(j, b, t, u, v, w, x, y, z, o)
  BY <1>Sums, <1>Parts, Zenon DEF Sum, Work

\* The same after a step.
<1>SumsNext. ASSUME Types', NEW j \in Server, NEW b, NEW t \in Server
             PROVE  \E u, v, w, x, y, z, o \in Nat : Sum(j, b, t, u, v, w, x, y, z, o)'
  BY <1>SumsNext, <1>PartsNext, Zenon DEF Sum, Work

\* Handlers whose messages say nothing of a push.
<1>OnePushOther. ASSUME Types, Types', NEW j \in Server, NEW C \in SUBSET Server, NEW b,
                        OnePush(j, C, b), NEW m \in Mail, NEW S, Answer(m, S),
                        m.kind \in {"HELLO", "OK", "SET"}, \A x \in S : x.kind = "OK",
                        UNCHANGED <<main, gossip, connects, done>>
                 PROVE  OnePush(j, C, b)'
  <2> USE <1>OnePushOther
  <2>1. /\ Mail' \subseteq Mail \cup Taken(S)
        /\ \A x : Copies(x)' = Copies(x) + (IF x \in Taken(S) THEN 1 ELSE 0)
                                  - (IF x = m THEN 1 ELSE 0)
    BY Answering, Zenon DEF Types
  <2>2. \A x : x.kind \notin {"HELLO", "OK", "SET"} => Copies(x)' = Copies(x)
    BY <2>1, <1>Counting DEF Taken
  <2>3. ASSUME NEW t \in C
        PROVE  Work(j, b, t)' = Work(j, b, t)
    <3>1. /\ Copies(In(j, b, t))' = Copies(In(j, b, t))
          /\ Copies(New(j, b, t))' = Copies(New(j, b, t))
          /\ Copies(Pushes(j, t))' = Copies(Pushes(j, t))
          /\ Copies(Done(j, t))' = Copies(Done(j, t))
      <4>1. Sign(j, b, t)
        BY <1>Signs, Zenon
      <4>2. QED
        BY <2>2, <4>1 DEF Sign
    <3>2. QED
      BY <3>1, <1>WorkSame, Zenon
  <2>4. \A t \in C : /\ Work(j, b, t)' \in Nat /\ Work(j, b, t) \in Nat
                      /\ Work(j, b, t)' <= Work(j, b, t)
    BY <2>3, <1>Parts
  <2>5. \A t \in C : New(j, b, t) \in Mail' => New(j, b, t) \in Mail
    <3>1. \A x \in Mail' : x \in Mail \/ x.kind = "OK"
      BY <2>1, Zenon DEF Taken
    <3>2. \A t \in C : New(j, b, t).kind # "OK"
      <4>1. ASSUME NEW t
            PROVE  Sign(j, b, t)
        BY <1>Signs, Zenon
      <4>2. QED
        BY <4>1 DEF Sign
    <3>3. QED
      BY <3>1, <3>2, Zenon
  <2>6. \A x \in Mail' : x \in Mail \/ OfPush(j, C, b, x)
    BY <2>1, Zenon DEF Taken, OfPush
  <2>7. QED
    BY <2>4, <2>5, <2>6, <1>OnePushKept, Zenon

\* A NODEIN that t finds to be new is still the one news for it.
<1>OnePushNodeIn. ASSUME Types, Types', NEW j \in Server, NEW C \in SUBSET Server, NEW b,
                         Flood(j, C), OnePush(j, C, b), NEW m \in Mail, NodeIn(m.to, m)
                  PROVE  OnePush(j, C, b)'
  <2> USE <1>OnePushNodeIn
  <2>0. PICK s, n : s = m.to /\ n = [m EXCEPT !.kind = "NODEIN new"]
    BY Zenon
  <2>1. m.kind = "NODEIN" /\ m \in Message /\ s \in C \cup {j} /\ m.who = {j}
    <3>1. m.kind = "NODEIN" /\ main[s] = "up"
      BY <2>0, Zenon DEF NodeIn, Arrived
    <3>2. m \in Message /\ Carried(m, j, C)
      BY Zenon DEF Types, MailTypes, Good, Flood, Floods
    <3>3. s \in Server
      BY <2>0, <3>2, Zenon DEF Message
    <3>4. QED
      BY <3>1, <3>2, <3>3, Zenon DEF Flood, Started, Carried, News
  <2>2. UNCHANGED <<main, gossip, connects, done>>
    BY Zenon DEF NodeIn, views, sync
  <2>3. \A x : x \in Mail <=> Copies(x) >= 1
    BY <1>Counting, Zenon
  <2>4. \A x : x \in Mail' <=> Copies(x)' >= 1
    BY <1>CountingNext, Zenon
  <2>5. \A x : Copies(x) \in Nat /\ Copies(x)' \in Nat
    BY <1>Counting, <1>CountingNext, Zenon
  <2>6. CASE j \in gossip[s]
    <3>1. Answer(m, {})
      BY <2>0, <2>1, <2>6, Zenon DEF NodeIn, FindGossip
    <3>2. \A x : Copies(x)' = Copies(x) - (IF x = m THEN 1 ELSE 0)
      BY <3>1, <2>5, Consuming, Zenon DEF Types
    <3>3. \A x : x # m => Copies(x)' = Copies(x)
      BY <3>2, <2>5
    <3>4. ASSUME NEW t \in C
          PROVE  Work(j, b, t)' = Work(j, b, t)
      <4>0. Sign(j, b, t)
        BY <1>Signs, Zenon
      <4>1. /\ Copies(New(j, b, t))' = Copies(New(j, b, t))
            /\ Copies(Pushes(j, t))' = Copies(Pushes(j, t))
            /\ Copies(Done(j, t))' = Copies(Done(j, t))
        BY <3>3, <2>1, <4>0, Zenon DEF Sign
      <4>2. Unheard(j, b, t)' = Unheard(j, b, t)
        BY <2>0, <2>6, <2>2, <3>3, <4>0, Zenon DEF Unheard, Sign
      <4>3. Connecting(t)' = Connecting(t)
        BY <2>2, Zenon DEF Connecting
      <4>4. QED
        BY <4>1, <4>2, <4>3, <2>2, Zenon DEF Work
    <3>5. \A t \in C : /\ Work(j, b, t)' \in Nat /\ Work(j, b, t) \in Nat
                        /\ Work(j, b, t)' <= Work(j, b, t)
      BY <3>4, <1>Parts
    <3>6. Mail' \subseteq Mail
      BY <3>1, Consuming, Zenon DEF Types
    <3>7. QED
      BY <2>2, <3>5, <3>6, <1>OnePushKept, Zenon
  <2>7. CASE j \notin gossip[s]
    <3>1. Answer(m, {n}) /\ s \in C
      BY <2>0, <2>1, <2>7, Zenon DEF NodeIn, FindGossip, Flood, Floods
    <3>2. /\ Mail' \subseteq Mail \cup {n}
          /\ \A x : Copies(x)' <= Copies(x) + (IF x = n THEN 1 ELSE 0)
                                    - (IF x = m THEN 1 ELSE 0)
      <4>1. /\ Mail' \subseteq Mail \cup Taken({n})
            /\ \A x : Copies(x)' = Copies(x) + (IF x \in Taken({n}) THEN 1 ELSE 0)
                                      - (IF x = m THEN 1 ELSE 0)
        BY <3>1, Answering, Zenon DEF Types
      <4>2. QED
        BY <4>1, <2>5 DEF Taken
    <3>3. m = In(j, b, s)
      BY <2>0, <2>1, <2>7, <3>1, Zenon DEF OnePush, OfPush
    <3>4. n = New(j, b, s) /\ n.kind = "NODEIN new" /\ n.to = s
      <4>1. PICK f : f = IF s = b THEN j ELSE b
        BY Zenon
      <4>2. m = [kind |-> "NODEIN", from |-> f, to |-> s, who |-> {j}, keys |-> {}]
        BY <3>3, <4>1, Zenon DEF In, Msg
      <4>3. n = [kind |-> "NODEIN new", from |-> f, to |-> s, who |-> {j}, keys |-> {}]
        <5>1. \A e : [m EXCEPT !.kind = e] =
                      [kind |-> e, from |-> f, to |-> s, who |-> {j}, keys |-> {}]
          BY <4>2
        <5>2. QED
          BY <5>1, <2>0, Zenon
      <4>4. QED
        BY <4>1, <4>3, Zenon DEF New, Msg
    <3>5. ASSUME NEW t \in C
          PROVE  Work(j, b, t)' <= Work(j, b, t)
      <4>1. PICK u, v, w, x, y, z, o \in Nat : Sum(j, b, t, u, v, w, x, y, z, o)
        BY <1>Sums, Zenon
      <4>2. PICK u1, v1, w1, x1, y1, z1, o1 \in Nat :
                Sum(j, b, t, u1, v1, w1, x1, y1, z1, o1)'
        BY <1>SumsNext, Zenon
      <4>3. w1 = w /\ x1 = x /\ o1 = o
        BY <4>1, <4>2, <2>2, Zenon DEF Sum, Connecting
      <4>0. Sign(j, b, t) /\ Sign(j, b, s)
        BY <1>Signs, Zenon
      <4>4. y1 <= y /\ z1 <= z
        <5>1. /\ Pushes(j, t) # m /\ Pushes(j, t) # n
              /\ Done(j, t) # m /\ Done(j, t) # n
          BY <4>0, <3>4, <2>1, Zenon DEF Sign
        <5>2. /\ Copies(Pushes(j, t))' <= Copies(Pushes(j, t))
              /\ Copies(Done(j, t))' <= Copies(Done(j, t))
          BY <5>1, <3>2, <2>5
        <5>3. QED
          BY <4>1, <4>2, <5>2, Zenon DEF Sum
      <4>5. u1 + v1 <= u + v
        <5>1. CASE t = s
          <6>1. /\ Copies(m)' <= Copies(m) - 1 /\ Copies(n)' <= Copies(n) + 1
            <7>1. m # n
              BY <3>4, <2>1, Zenon
            <7>2. QED
              BY <3>2, <7>1, <2>5
          <6>2. u = Copies(m) /\ u1 = Copies(m)' /\ v = Copies(n) /\ v1 = Copies(n)'
            BY <4>1, <4>2, <3>3, <3>4, <5>1, <2>7, <2>2, Zenon DEF Sum, Unheard
          <6>3. QED
            BY <6>1, <6>2
        <5>2. CASE t # s
          <6>1. /\ Copies(In(j, b, t))' <= Copies(In(j, b, t))
                /\ Copies(New(j, b, t))' <= Copies(New(j, b, t))
            <7>1. /\ In(j, b, t) # m /\ In(j, b, t) # n
                  /\ New(j, b, t) # m /\ New(j, b, t) # n
              BY <2>0, <2>1, <3>4, <5>2, <4>0, Zenon DEF Sign
            <7>2. QED
              BY <3>2, <7>1, <2>5
          <6>2. u1 <= u /\ v1 <= v
            BY <4>1, <4>2, <6>1, <2>2 DEF Sum, Unheard
          <6>3. QED
            BY <6>2
        <5>3. QED
          BY <5>1, <5>2, Zenon
      <4>6. /\ Work(j, b, t) = u + v + w + x + y + z + o
            /\ Work(j, b, t)' = u1 + v1 + w1 + x1 + y1 + z1 + o1
        BY <4>1, <4>2, Zenon DEF Sum
      <4>7. QED
        BY <4>3, <4>4, <4>5, <4>6
    <3>6. \A t \in C : /\ Work(j, b, t)' \in Nat /\ Work(j, b, t) \in Nat
                        /\ Work(j, b, t)' <= Work(j, b, t)
      BY <3>5, <1>Parts, <1>PartsNext, Zenon
    <3>7. \A t \in C : New(j, b, t) \in Mail' => New(j, b, t) \in Mail \/ j \notin gossip[t]
      <4>1. ASSUME NEW t \in C, New(j, b, t) \in Mail'
            PROVE  New(j, b, t) \in Mail \/ j \notin gossip[t]
        <5>1. Sign(j, b, t)
          BY <1>Signs, Zenon
        <5>2. QED
          BY <3>2, <3>4, <2>7, <4>1, <5>1, Zenon DEF Sign
      <4>2. QED
        BY <4>1, Zenon
    <3>8. \A x \in Mail' : x \in Mail \/ OfPush(j, C, b, x)
      BY <3>2, <3>4, Zenon DEF OfPush
    <3>9. QED
      BY <2>2, <3>6, <3>7, <3>8, <1>OnePushKept, Zenon
  <2>8. QED
    BY <2>6, <2>7, Zenon

\* Data, and one SYNCDONE.
<1>DataSaid. ASSUME NEW s, NEW j, NEW T, NEW x \in SendDataToNode(s, j, T)
             PROVE  x.kind = "SET" \/ x = Done(j, s)
  BY <1>DataSaid DEF SendDataToNode, Done, Tell, Msg

\* A push sends one SYNCDONE.
<1>OnePushPush. ASSUME Types, Types', NEW j \in Server, NEW C \in SUBSET Server, NEW b,
                       Flood(j, C), OnePush(j, C, b), NEW m \in Mail, Push(m.to, m)
                PROVE  OnePush(j, C, b)'
  <2> USE <1>OnePushPush
  <2>0. PICK s, S : /\ s = m.to
                    /\ S = IF j \in conn[s] THEN SendDataToNode(s, j, topo[s]) ELSE {}
    BY Zenon
  <2>1. m.kind = "PUSH" /\ m.who = {j} /\ s \in C
    <3>1. m.kind = "PUSH"
      BY <2>0, Zenon DEF Push, Arrived
    <3>2. Carried(m, j, C)
      BY Zenon DEF Flood, Floods
    <3>3. QED
      BY <2>0, <3>1, <3>2, Zenon DEF Carried
  <2>2. UNCHANGED <<main, gossip, connects, done>>
    BY Zenon DEF Push, views, sync
  <2>3. Answer(m, S)
    BY <2>0, <2>1, Zenon DEF Push
  <2>4. m = Pushes(j, s)
    BY <2>0, <2>1, Zenon DEF OnePush, OfPush
  <2>5. \A x : Copies(x) \in Nat /\ Copies(x)' \in Nat
    BY <1>Counting, <1>CountingNext, Zenon
  <2>6. /\ Mail' \subseteq Mail \cup Taken(S)
        /\ \A x : Copies(x)' = Copies(x) + (IF x \in Taken(S) THEN 1 ELSE 0)
                                  - (IF x = m THEN 1 ELSE 0)
    BY <2>3, Answering, Zenon DEF Types
  <2>7. \A x \in Taken(S) : x.kind = "SET" \/ x = Done(j, s)
    BY <2>0, <1>DataSaid, Zenon DEF Taken
  <2>8. /\ \A x : x # m /\ x \notin Taken(S) => Copies(x)' = Copies(x)
        /\ \A x : x # m => Copies(x)' <= Copies(x) + 1
        /\ m \notin Taken(S) => Copies(m)' = Copies(m) - 1
    BY <2>5, <2>6
  <2>9. Sign(j, b, s)
    BY <1>Signs, Zenon
  <2>10. ASSUME NEW t \in C
         PROVE  Work(j, b, t)' <= Work(j, b, t)
    <3>0. Sign(j, b, t)
      BY <1>Signs, Zenon
    <3>1. PICK u, v, w, x, y, z, o \in Nat : Sum(j, b, t, u, v, w, x, y, z, o)
      BY <1>Sums, Zenon
    <3>2. PICK u1, v1, w1, x1, y1, z1, o1 \in Nat :
              Sum(j, b, t, u1, v1, w1, x1, y1, z1, o1)'
      BY <1>SumsNext, Zenon
    <3>3. w1 = w /\ x1 = x /\ o1 = o
      BY <3>1, <3>2, <2>2, Zenon DEF Sum, Connecting
    <3>4. u1 = u /\ v1 = v
      <4>1. /\ In(j, b, t) # m /\ In(j, b, t) \notin Taken(S)
            /\ New(j, b, t) # m /\ New(j, b, t) \notin Taken(S)
        BY <2>1, <2>7, <2>9, <3>0, Zenon DEF Sign
      <4>2. /\ Copies(In(j, b, t))' = Copies(In(j, b, t))
            /\ Copies(New(j, b, t))' = Copies(New(j, b, t))
        BY <2>8, <4>1, Zenon
      <4>3. QED
        BY <3>1, <3>2, <4>2, <2>2, Zenon DEF Sum, Unheard
    <3>5. y1 + z1 <= y + z
      <4>1. CASE t = s
        <5>1. Done(j, t) # m /\ m \notin Taken(S)
          BY <2>1, <2>7, <2>9, <3>0, Zenon DEF Sign
        <5>2. Copies(m)' = Copies(m) - 1 /\ Copies(Done(j, t))' <= Copies(Done(j, t)) + 1
          BY <5>1, <2>8, Zenon
        <5>3. y1 = y - 1 /\ z1 <= z + 1
          BY <3>1, <3>2, <5>2, <4>1, <2>4, Zenon DEF Sum
        <5>4. QED
          BY <5>3
      <4>2. CASE t # s
        <5>1. /\ Pushes(j, t) # m /\ Pushes(j, t) \notin Taken(S)
              /\ Done(j, t) # m /\ Done(j, t) \notin Taken(S)
          BY <2>0, <2>1, <2>7, <2>9, <3>0, <4>2, Zenon DEF Sign
        <5>2. /\ Copies(Pushes(j, t))' = Copies(Pushes(j, t))
              /\ Copies(Done(j, t))' = Copies(Done(j, t))
          BY <5>1, <2>8, Zenon
        <5>3. QED
          BY <3>1, <3>2, <5>2 DEF Sum
      <4>3. QED
        BY <4>1, <4>2, Zenon
    <3>6. /\ Work(j, b, t) = u + v + w + x + y + z + o
          /\ Work(j, b, t)' = u1 + v1 + w1 + x1 + y1 + z1 + o1
      BY <3>1, <3>2, Zenon DEF Sum
    <3>7. QED
      BY <3>3, <3>4, <3>5, <3>6
  <2>11. \A t \in C : /\ Work(j, b, t)' \in Nat /\ Work(j, b, t) \in Nat
                      /\ Work(j, b, t)' <= Work(j, b, t)
    BY <2>10, <1>Parts, <1>PartsNext, Zenon
  <2>12. \A t \in C : New(j, b, t) \in Mail' => New(j, b, t) \in Mail
    <3>1. \A x \in Mail' : x \in Mail \/ x.kind \in {"SET", "SYNCDONE"}
      BY <2>6, <2>7, <2>9, Zenon DEF Sign
    <3>2. ASSUME NEW t \in C
          PROVE  New(j, b, t).kind = "NODEIN new"
      <4>1. Sign(j, b, t)
        BY <1>Signs, Zenon
      <4>2. QED
        BY <4>1, Zenon DEF Sign
    <3>3. QED
      BY <3>1, <3>2, Zenon
  <2>13. \A x \in Mail' : x \in Mail \/ OfPush(j, C, b, x)
    BY <2>6, <2>7, <2>9, Zenon DEF OfPush, Sign
  <2>14. QED
    BY <2>2, <2>11, <2>12, <2>13, <1>OnePushKept, Zenon

\* The SYNCDONE of t is counted for t.
<1>OnePushSyncDone.
      ASSUME Types, Types', NEW j \in Server, NEW C \in SUBSET Server, NEW b,
             Flood(j, C), OnePush(j, C, b), NEW m \in Mail, SyncDone(m.to, m)
      PROVE  OnePush(j, C, b)' /\ m.to = j /\ m.from \in C /\ done[j][m.from] = 0
  <2> USE <1>OnePushSyncDone
  <2>0. PICK s : s = m.from
    BY Zenon
  <2>1. m.kind = "SYNCDONE" /\ m.to = j /\ s \in C
    <3>1. m.kind = "SYNCDONE"
      BY Zenon DEF SyncDone, Arrived
    <3>2. Carried(m, j, C)
      BY Zenon DEF Flood, Floods
    <3>3. QED
      BY <2>0, <3>1, <3>2, Zenon DEF Carried
  <2>2. /\ UNCHANGED <<main, gossip, connects>>
        /\ done' = [done EXCEPT ![j][s] = @ + 1]
    BY <2>0, <2>1, Zenon DEF SyncDone, views
  <2>3. done'[j][s] = done[j][s] + 1 /\ \A t \in Server : t # s => done'[j][t] = done[j][t]
    <3>1. done[j] \in [Server -> Nat] /\ done \in [Server -> [Server -> Nat]] /\ s \in Server
      BY <2>1, Zenon DEF Types, HistoryTypes
    <3>2. QED
      BY <2>2, <3>1, Zenon
  <2>4. m = Done(j, s)
    BY <2>0, <2>1, Zenon DEF OnePush, OfPush
  <2>5. \A x : Copies(x) \in Nat /\ Copies(x)' \in Nat
    BY <1>Counting, <1>CountingNext, Zenon
  <2>6. /\ Mail' \subseteq Mail
        /\ \A x : Copies(x)' = Copies(x) - (IF x = m THEN 1 ELSE 0)
    BY Consuming, Zenon DEF Types, SyncDone
  <2>7. (\A x : x # m => Copies(x)' = Copies(x)) /\ Copies(m)' = Copies(m) - 1
    BY <2>5, <2>6
  <2>8. ASSUME NEW t \in C
        PROVE  Work(j, b, t)' <= Work(j, b, t)
    <3>0. Sign(j, b, t)
      BY <1>Signs, Zenon
    <3>1. PICK u, v, w, x, y, z, o \in Nat : Sum(j, b, t, u, v, w, x, y, z, o)
      BY <1>Sums, Zenon
    <3>2. PICK u1, v1, w1, x1, y1, z1, o1 \in Nat :
              Sum(j, b, t, u1, v1, w1, x1, y1, z1, o1)'
      BY <1>SumsNext, Zenon
    <3>3. w1 = w /\ x1 = x
      BY <3>1, <3>2, <2>2, Zenon DEF Sum, Connecting
    <3>4. u1 = u /\ v1 = v /\ y1 = y
      <4>1. In(j, b, t) # m /\ New(j, b, t) # m /\ Pushes(j, t) # m
        BY <2>1, <3>0, Zenon DEF Sign
      <4>2. /\ Copies(In(j, b, t))' = Copies(In(j, b, t))
            /\ Copies(New(j, b, t))' = Copies(New(j, b, t))
            /\ Copies(Pushes(j, t))' = Copies(Pushes(j, t))
        BY <2>7, <4>1, Zenon
      <4>3. QED
        BY <3>1, <3>2, <4>2, <2>2, Zenon DEF Sum, Unheard
    <3>5. z1 + o1 = z + o
      <4>1. CASE t = s
        <5>1. z1 = z - 1 /\ o1 = o + 1
          BY <3>1, <3>2, <2>3, <2>4, <2>7, <4>1, Zenon DEF Sum
        <5>2. QED
          BY <5>1
      <4>2. CASE t # s
        <5>1. Done(j, t) # m
          BY <2>0, <3>0, <4>2, Zenon DEF Sign
        <5>2. z1 = z /\ o1 = o
          BY <3>1, <3>2, <2>3, <2>7, <4>2, <5>1, Zenon DEF Sum
        <5>3. QED
          BY <5>2, Zenon
      <4>3. QED
        BY <4>1, <4>2, Zenon
    <3>6. /\ Work(j, b, t) = u + v + w + x + y + z + o
          /\ Work(j, b, t)' = u1 + v1 + w1 + x1 + y1 + z1 + o1
      BY <3>1, <3>2, Zenon DEF Sum
    <3>7. QED
      BY <3>3, <3>4, <3>5, <3>6
  <2>9. \A t \in C : /\ Work(j, b, t)' \in Nat /\ Work(j, b, t) \in Nat
                     /\ Work(j, b, t)' <= Work(j, b, t)
    BY <2>8, <1>Parts, <1>PartsNext, Zenon
  <2>10. gossip' = gossip
    BY <2>2, Zenon
  <2>11. OnePush(j, C, b)'
    BY <2>10, <2>9, <2>6, <1>OnePushKept, Zenon
  <2>12. done[j][s] = 0
    <3>1. PICK u, v, w, x, y, z, o \in Nat : Sum(j, b, s, u, v, w, x, y, z, o)
      BY <1>Sums, <2>1, Zenon
    <3>2. z >= 1 /\ o = done[j][s]
      BY <3>1, <2>4, <1>Counting, Zenon DEF Sum
    <3>3. u + v + w + x + y + z + o <= 1
      BY <3>1, <2>1, Zenon DEF Sum, OnePush
    <3>4. o = 0
      <4>1. z >= 1
        BY <3>2, Zenon
      <4>2. QED
        BY <3>3, <4>1
    <3>5. QED
      BY <3>2, <3>4, Zenon
  <2>13. QED
    BY <2>0, <2>1, <2>11, <2>12, Zenon

\* The connect that waits is the one that begins.
<1>OnePushConnect. ASSUME Types, Types', NEW j \in Server, NEW C \in SUBSET Server, NEW b,
                          OnePush(j, C, b), NEW s \in C, Connect(s)
                   PROVE  OnePush(j, C, b)'
  <2> USE <1>OnePushConnect
  <2>0. PICK h : h = Tell("HELLO", s, Head(connects[s]))
    BY Zenon
  <2>1. /\ Send({h}) /\ main[s] = "up" /\ connects[s] # <<>>
        /\ main' = [main EXCEPT ![s] = "connects"]
        /\ connects' = [connects EXCEPT ![s] = Tail(@)]
        /\ UNCHANGED <<gossip, done>>
    BY <2>0, Zenon DEF Connect, views, sync
  <2>2. h.kind = "HELLO"
    BY <2>0, Zenon DEF Tell, Msg
  <2>3. /\ Mail' = Mail \cup Taken({h})
        /\ \A x : Copies(x)' = Copies(x) + (IF x \in Taken({h}) THEN 1 ELSE 0)
    BY <2>1, Sending, Zenon DEF Types
  <2>4. \A x : x.kind # "HELLO" => Copies(x)' = Copies(x)
    BY <2>2, <2>3, <1>Counting DEF Taken
  <2>5. /\ s \in Server /\ main'[s] = "connects" /\ connects'[s] = Tail(connects[s])
        /\ \A t \in Server : t # s => main'[t] = main[t] /\ connects'[t] = connects[t]
    BY <2>1 DEF Types, TypeOK
  <2>6. Len(connects'[s]) = Len(connects[s]) - 1
    <3>1. connects[s] \in Seq(Server) /\ connects[s] # <<>>
      BY <2>1, <2>5, Zenon DEF Types, TypeOK
    <3>2. QED
      BY <3>1, <2>5
  <2>7. ASSUME NEW t \in C
        PROVE  Work(j, b, t)' <= Work(j, b, t)
    <3>0. Sign(j, b, t)
      BY <1>Signs, Zenon
    <3>1. PICK u, v, w, x, y, z, o \in Nat : Sum(j, b, t, u, v, w, x, y, z, o)
      BY <1>Sums, Zenon
    <3>2. PICK u1, v1, w1, x1, y1, z1, o1 \in Nat :
              Sum(j, b, t, u1, v1, w1, x1, y1, z1, o1)'
      BY <1>SumsNext, Zenon
    <3>3. /\ Copies(In(j, b, t))' = Copies(In(j, b, t))
          /\ Copies(New(j, b, t))' = Copies(New(j, b, t))
          /\ Copies(Pushes(j, t))' = Copies(Pushes(j, t))
          /\ Copies(Done(j, t))' = Copies(Done(j, t))
      BY <2>4, <3>0, Zenon DEF Sign
    <3>4. u1 = u /\ v1 = v /\ y1 = y /\ z1 = z /\ o1 = o
      BY <3>1, <3>2, <3>3, <2>1, Zenon DEF Sum, Unheard
    <3>5. w1 + x1 = w + x
      <4>1. CASE t = s
        <5>1. w1 = w - 1 /\ x = 0 /\ x1 = 1
          BY <3>1, <3>2, <4>1, <2>1, <2>5, <2>6, Zenon DEF Sum, Connecting
        <5>2. QED
          BY <5>1
      <4>2. CASE t # s
        BY <3>1, <3>2, <4>2, <2>5, Zenon DEF Sum, Connecting
      <4>3. QED
        BY <4>1, <4>2, Zenon
    <3>6. /\ Work(j, b, t) = u + v + w + x + y + z + o
          /\ Work(j, b, t)' = u1 + v1 + w1 + x1 + y1 + z1 + o1
      BY <3>1, <3>2, Zenon DEF Sum
    <3>7. QED
      BY <3>4, <3>5, <3>6
  <2>8. \A t \in C : /\ Work(j, b, t)' \in Nat /\ Work(j, b, t) \in Nat
                     /\ Work(j, b, t)' <= Work(j, b, t)
    BY <2>7, <1>Parts, <1>PartsNext, Zenon
  <2>9. \A x \in Mail' : x \in Mail \/ x.kind = "HELLO"
    BY <2>2, <2>3, Zenon DEF Taken
  <2>10. ASSUME NEW t \in C, New(j, b, t) \in Mail'
         PROVE  New(j, b, t) \in Mail
    <3>1. Sign(j, b, t)
      BY <1>Signs, Zenon
    <3>2. QED
      BY <2>9, <2>10, <3>1, Zenon DEF Sign
  <2>11. \A x \in Mail' : x \in Mail \/ OfPush(j, C, b, x)
    BY <2>9, Zenon DEF OfPush
  <2>12. gossip' = gossip
    BY <2>1, Zenon
  <2>13. QED
    BY <2>8, <2>10, <2>11, <2>12, <1>OnePushKept, Zenon

\* A connect ends with a push.
<1>OnePushConnected.
      ASSUME Types, Types', Running, NEW j \in Server, NEW C \in SUBSET Server, NEW b,
             Flood(j, C), OnePush(j, C, b), NEW s \in Server, Connected(s)
      PROVE  OnePush(j, C, b)'
  <2> USE <1>OnePushConnected
  <2>0. PICK m \in Mail :
            /\ s \in C /\ Answer(m, {Pushes(j, s)}) /\ m.to = s
            /\ m.kind \in {"OK", "NODEIN", "NODEOUT", "SET", "SYNCDONE"}
    BY FloodConnected
  <2>1. /\ main[s] = "connects" /\ main' = [main EXCEPT ![s] = "up"]
        /\ UNCHANGED <<gossip, connects, done>>
    BY Zenon DEF Connected, sync
  <2>2. j \in gossip[s] /\ m.kind # "SYNCDONE"
    <3>1. Connects(j, s) /\ Carried(m, j, C) /\ j \notin C
      BY <2>0, Zenon DEF Flood, Floods
    <3>2. QED
      BY <2>0, <2>1, <3>1, Zenon DEF Connects, Carried
  <2>3. /\ Mail' \subseteq Mail \cup Taken({Pushes(j, s)})
        /\ \A x : Copies(x)' = Copies(x) + (IF x \in Taken({Pushes(j, s)}) THEN 1 ELSE 0)
                                  - (IF x = m THEN 1 ELSE 0)
    BY <2>0, Answering, Zenon DEF Types
  <2>4. \A x : Copies(x) \in Nat /\ Copies(x)' \in Nat
    BY <1>Counting, <1>CountingNext, Zenon
  <2>5. /\ \A x : x # m /\ x # Pushes(j, s) => Copies(x)' = Copies(x)
        /\ \A x : x # m => Copies(x)' <= Copies(x) + 1
    BY <2>3, <2>4 DEF Taken
  <2>6. /\ main'[s] = "up" /\ \A t \in Server : t # s => main'[t] = main[t]
    BY <2>1 DEF Types, TypeOK
  <2>7. Sign(j, b, s)
    BY <1>Signs, Zenon
  <2>8. ASSUME NEW t \in C
        PROVE  Work(j, b, t)' <= Work(j, b, t)
    <3>0. Sign(j, b, t)
      BY <1>Signs, Zenon
    <3>1. PICK u, v, w, x, y, z, o \in Nat : Sum(j, b, t, u, v, w, x, y, z, o)
      BY <1>Sums, Zenon
    <3>2. PICK u1, v1, w1, x1, y1, z1, o1 \in Nat :
              Sum(j, b, t, u1, v1, w1, x1, y1, z1, o1)'
      BY <1>SumsNext, Zenon
    <3>3. /\ New(j, b, t) # m /\ New(j, b, t) # Pushes(j, s)
          /\ Done(j, t) # m /\ Done(j, t) # Pushes(j, s)
          /\ Pushes(j, t) # m /\ In(j, b, t) # Pushes(j, s)
          /\ t # s => In(j, b, t) # m /\ Pushes(j, t) # Pushes(j, s)
      BY <2>0, <2>2, <2>7, <3>0, Zenon DEF Sign
    <3>4. v1 = v /\ z1 = z /\ w1 = w /\ o1 = o
      <4>1. /\ Copies(New(j, b, t))' = Copies(New(j, b, t))
            /\ Copies(Done(j, t))' = Copies(Done(j, t))
        BY <2>5, <3>3, Zenon
      <4>2. QED
        BY <3>1, <3>2, <4>1, <2>1, Zenon DEF Sum
    <3>5. u1 = u
      <4>1. CASE t = s
        BY <3>1, <3>2, <4>1, <2>1, <2>2, Zenon DEF Sum, Unheard
      <4>2. CASE t # s
        <5>1. Copies(In(j, b, t))' = Copies(In(j, b, t))
          BY <2>5, <3>3, <4>2, Zenon
        <5>2. QED
          BY <3>1, <3>2, <5>1, <2>1, Zenon DEF Sum, Unheard
      <4>3. QED
        BY <4>1, <4>2, Zenon
    <3>6. x1 + y1 <= x + y
      <4>1. CASE t = s
        <5>1. Copies(Pushes(j, t))' <= Copies(Pushes(j, t)) + 1
          BY <2>5, <3>3, Zenon
        <5>2. y1 <= y + 1
          BY <3>1, <3>2, <5>1, Zenon DEF Sum
        <5>3. x = 1 /\ x1 = 0
          BY <3>1, <3>2, <4>1, <2>1, <2>6, Zenon DEF Sum, Connecting
        <5>4. QED
          BY <5>2, <5>3
      <4>2. CASE t # s
        <5>1. Copies(Pushes(j, t))' = Copies(Pushes(j, t))
          BY <2>5, <3>3, <4>2, Zenon
        <5>2. x1 = x /\ y1 = y
          BY <3>1, <3>2, <5>1, <4>2, <2>6, Zenon DEF Sum, Connecting
        <5>3. QED
          BY <5>2
      <4>3. QED
        BY <4>1, <4>2, Zenon
    <3>7. /\ Work(j, b, t) = u + v + w + x + y + z + o
          /\ Work(j, b, t)' = u1 + v1 + w1 + x1 + y1 + z1 + o1
      BY <3>1, <3>2, Zenon DEF Sum
    <3>8. QED
      BY <3>4, <3>5, <3>6, <3>7
  <2>9. \A t \in C : /\ Work(j, b, t)' \in Nat /\ Work(j, b, t) \in Nat
                     /\ Work(j, b, t)' <= Work(j, b, t)
    BY <2>8, <1>Parts, <1>PartsNext, Zenon
  <2>10. \A x \in Mail' : x \in Mail \/ x = Pushes(j, s)
    BY <2>3, Zenon DEF Taken
  <2>11. ASSUME NEW t \in C, New(j, b, t) \in Mail'
         PROVE  New(j, b, t) \in Mail
    <3>1. Sign(j, b, t)
      BY <1>Signs, Zenon
    <3>2. QED
      BY <2>7, <2>10, <2>11, <3>1, Zenon DEF Sign
  <2>12. \A x \in Mail' : x \in Mail \/ OfPush(j, C, b, x)
    BY <2>7, <2>10, Zenon DEF OfPush, Sign
  <2>13. gossip' = gossip
    BY <2>1, Zenon
  <2>14. QED
    BY <2>9, <2>11, <2>12, <2>13, <1>OnePushKept, Zenon

\* The server that is told first tells the other one, which has not heard of j
\* before; what the other one answers is old news.
<1>OnePushNodeInNew.
      ASSUME Types, Types', Running, NEW j \in Server, NEW C \in SUBSET Server,
             NEW b \in C, Few(C), Flood(j, C), OnePush(j, C, b),
             NEW m \in Mail, NodeInNew(m.to, m)
      PROVE  OnePush(j, C, b)'
  <2> USE <1>OnePushNodeInNew
  <2>0. PICK s : s = m.to
    BY Zenon
  <2>1. m.kind = "NODEIN new" /\ m.who = {j} /\ s \in C /\ j \notin C
    <3>1. m.kind = "NODEIN new"
      BY Zenon DEF NodeInNew, Arrived
    <3>2. Carried(m, j, C) /\ j \notin C
      BY Zenon DEF Flood, Floods
    <3>3. s \in C
      BY <2>0, FloodHandle, Zenon DEF Handle
    <3>4. QED
      BY <3>1, <3>2, <3>3, Zenon DEF Carried, News
  <2>2. PICK S : /\ Answer(m, S)
                 /\ S = NodeInTell(s, m) \cup
                          (IF j \in conn[s] THEN SendDataToNode(s, j, topo'[s]) ELSE {})
                 /\ connects' = [connects EXCEPT ![s] = NodeInConnect(s, j)]
    BY <2>0, <2>1 DEF NodeInNew
  <2>3. /\ gossip' = [gossip EXCEPT ![s] = @ \cup {j}]
        /\ UNCHANGED <<main, done>>
    BY <2>0, <2>1, Zenon DEF NodeInNew, sync
  <2>4. /\ s \in Server /\ j \in gossip'[s] /\ connects'[s] = NodeInConnect(s, j)
        /\ \A t \in Server : t # s => gossip'[t] = gossip[t] /\ connects'[t] = connects[t]
        /\ \A t \in Server : j \in gossip[t] => j \in gossip'[t]
    <3>1. /\ s \in Server /\ gossip \in [Server -> SUBSET Ids]
          /\ connects \in [Server -> Seq(Server)]
      BY <2>1, Zenon DEF Types, TypeOK, HistoryTypes
    <3>2. connects'[s] = NodeInConnect(s, j)
      BY <2>2, <3>1, Zenon
    <3>3. \A t \in Server : t # s => connects'[t] = connects[t]
      BY <2>2, <3>1, Zenon
    <3>4. /\ j \in gossip'[s] /\ \A t \in Server : t # s => gossip'[t] = gossip[t]
          /\ \A t \in Server : j \in gossip[t] => j \in gossip'[t]
      BY <2>3, <3>1, Zenon
    <3>5. QED
      BY <3>1, <3>2, <3>3, <3>4, Zenon
  <2>5. m = New(j, b, s) /\ j \notin gossip[s]
    BY <2>0, <2>1, Zenon DEF OnePush, OfPush
  <2>6. \A x : Copies(x) \in Nat /\ Copies(x)' \in Nat
    BY <1>Counting, <1>CountingNext, Zenon
  <2>7. /\ Mail' \subseteq Mail \cup Taken(S)
        /\ \A x : Copies(x)' = Copies(x) + (IF x \in Taken(S) THEN 1 ELSE 0)
                                  - (IF x = m THEN 1 ELSE 0)
    BY <2>2, Answering, Zenon DEF Types
  <2>8. Sign(j, b, s)
    BY <1>Signs, Zenon
  <2>9. ASSUME NEW x \in Taken(S)
        PROVE  \/ /\ x = Msg("NODEIN", s, x.to, {j}, {})
                  /\ x.kind = "NODEIN" /\ x.from = s
               \/ x.kind = "SET"
               \/ x = Done(j, s) /\ x.kind = "SYNCDONE" /\ x.from = s /\ j \in conn[s]
    <3>1. CASE x \in NodeInTell(s, m)
      <4>1. PICK t : x = Msg("NODEIN", s, t, {j}, {})
        BY <3>1, <2>1, Zenon DEF NodeInTell
      <4>2. x.kind = "NODEIN" /\ x.from = s /\ x.to = t
        BY <4>1, Zenon DEF Msg
      <4>3. QED
        BY <4>1, <4>2, Zenon
    <3>2. CASE x \notin NodeInTell(s, m)
      <4>1. j \in conn[s] /\ x \in SendDataToNode(s, j, topo'[s])
        BY <2>2, <2>9, <3>2, Zenon DEF Taken
      <4>2. x.kind = "SET" \/ x = Done(j, s)
        BY <4>1, <1>DataSaid, Zenon
      <4>3. QED
        BY <4>1, <4>2, <2>8, Zenon DEF Sign
    <3>3. QED
      BY <3>1, <3>2, Zenon
  <2>10. /\ \A x : x # m /\ x \notin Taken(S) => Copies(x)' = Copies(x)
         /\ \A x : x # m => Copies(x)' <= Copies(x) + 1
         /\ m \notin Taken(S) /\ Copies(m)' = Copies(m) - 1
    <3>1. m \notin Taken(S)
      BY <2>1, <2>9, Zenon
    <3>2. QED
      BY <2>6, <2>7, <3>1
  <2>11. Work(j, b, s)' <= 1 /\ New(j, b, s) \notin Mail' /\ Work(j, b, s) # 0
    <3>1. PICK u, v, w, x, y, z, o \in Nat : Sum(j, b, s, u, v, w, x, y, z, o)
      BY <1>Sums, <2>4, Zenon
    <3>2. PICK u1, v1, w1, x1, y1, z1, o1 \in Nat :
              Sum(j, b, s, u1, v1, w1, x1, y1, z1, o1)'
      BY <1>SumsNext, <2>4, Zenon
    <3>3. /\ Work(j, b, s) = u + v + w + x + y + z + o
          /\ Work(j, b, s)' = u1 + v1 + w1 + x1 + y1 + z1 + o1
      BY <3>1, <3>2, Zenon DEF Sum
    <3>4. Work(j, b, s) <= 1
      BY <2>1, Zenon DEF OnePush
    <3>5. v >= 1
      BY <3>1, <2>5, <1>Counting, Zenon DEF Sum
    <3>6. u = 0 /\ v = 1 /\ w = 0 /\ x = 0 /\ y = 0 /\ z = 0 /\ o = 0
      BY <3>3, <3>4, <3>5
    <3>7. u1 = 0 /\ x1 = 0 /\ o1 = 0
      BY <3>1, <3>2, <3>6, <2>3, <2>4, Zenon DEF Sum, Unheard, Connecting
    <3>8. v1 = 0
      <4>1. Copies(New(j, b, s))' = Copies(New(j, b, s)) - 1
        BY <2>5, <2>10, Zenon
      <4>2. v = Copies(New(j, b, s)) /\ v1 = Copies(New(j, b, s))'
        BY <3>1, <3>2, Zenon DEF Sum
      <4>3. QED
        BY <3>6, <4>1, <4>2
    <3>9. y1 = 0
      <4>1. Pushes(j, s) # m /\ Pushes(j, s) \notin Taken(S)
        BY <2>1, <2>8, <2>9, Zenon DEF Sign
      <4>2. Copies(Pushes(j, s))' = Copies(Pushes(j, s))
        BY <4>1, <2>10, Zenon
      <4>3. QED
        BY <3>1, <3>2, <3>6, <4>2, Zenon DEF Sum
    <3>10. w1 + z1 <= 1
      <4>1. connects[s] \in Seq(Server) /\ Len(connects[s]) = 0
        BY <3>1, <3>6, <2>4, Zenon DEF Sum, Types, TypeOK
      <4>2. Done(j, s) # m
        BY <2>1, <2>8, Zenon DEF Sign
      <4>3. CASE j \in conn[s]
        <5>1. connects'[s] = connects[s]
          BY <2>4, <4>3, Zenon DEF NodeInConnect
        <5>2. w1 = 0
          BY <5>1, <3>2, <4>1, Zenon DEF Sum
        <5>3. Copies(Done(j, s))' <= Copies(Done(j, s)) + 1
          BY <4>2, <2>10, Zenon
        <5>4. z1 <= z + 1
          BY <5>3, <3>1, <3>2, Zenon DEF Sum
        <5>5. QED
          BY <5>2, <5>4, <3>6
      <4>4. CASE j \notin conn[s]
        <5>1. connects'[s] = Append(connects[s], j)
          BY <2>4, <4>4, Zenon DEF NodeInConnect
        <5>2. Len(connects'[s]) = 1
          BY <5>1, <4>1
        <5>3. w1 = 1
          BY <5>2, <3>2, Zenon DEF Sum
        <5>4. Done(j, s) \notin Taken(S)
          BY <2>9, <4>4, <2>8, Zenon DEF Sign
        <5>5. Copies(Done(j, s))' = Copies(Done(j, s))
          BY <5>4, <4>2, <2>10, Zenon
        <5>6. z1 = z
          BY <5>5, <3>1, <3>2, Zenon DEF Sum
        <5>7. QED
          BY <5>3, <5>6, <3>6
      <4>5. QED
        BY <4>3, <4>4, Zenon
    <3>11. Work(j, b, s)' <= 1
      BY <3>3, <3>7, <3>8, <3>9, <3>10
    <3>12. New(j, b, s) \notin Mail'
      <4>1. Copies(New(j, b, s))' = 0
        BY <3>2, <3>8, Zenon DEF Sum
      <4>2. QED
        BY <4>1, <1>CountingNext
    <3>13. Work(j, b, s) # 0
      BY <3>3, <3>6
    <3>14. QED
      BY <3>11, <3>12, <3>13, Zenon
  <2>12. ASSUME NEW t \in C, t # s
         PROVE  /\ Work(j, b, t)' <= Work(j, b, t) + (IF s = b THEN 1 ELSE 0)
                /\ New(j, b, t) \in Mail' => New(j, b, t) \in Mail
    <3>0. Sign(j, b, t)
      BY <1>Signs, Zenon
    <3>1. PICK u, v, w, x, y, z, o \in Nat : Sum(j, b, t, u, v, w, x, y, z, o)
      BY <1>Sums, Zenon
    <3>2. PICK u1, v1, w1, x1, y1, z1, o1 \in Nat :
              Sum(j, b, t, u1, v1, w1, x1, y1, z1, o1)'
      BY <1>SumsNext, Zenon
    <3>3. /\ Work(j, b, t) = u + v + w + x + y + z + o
          /\ Work(j, b, t)' = u1 + v1 + w1 + x1 + y1 + z1 + o1
      BY <3>1, <3>2, Zenon DEF Sum
    <3>4. w1 = w /\ x1 = x /\ o1 = o
      BY <3>1, <3>2, <2>3, <2>4, <2>12, Zenon DEF Sum, Connecting
    <3>5. /\ New(j, b, t) # m /\ New(j, b, t) \notin Taken(S)
          /\ Pushes(j, t) # m /\ Pushes(j, t) \notin Taken(S)
          /\ Done(j, t) # m /\ Done(j, t) \notin Taken(S) /\ In(j, b, t) # m
      BY <2>0, <2>1, <2>8, <2>9, <2>12, <3>0, Zenon DEF Sign
    <3>6. v1 = v /\ y1 = y /\ z1 = z
      <4>1. /\ Copies(New(j, b, t))' = Copies(New(j, b, t))
            /\ Copies(Pushes(j, t))' = Copies(Pushes(j, t))
            /\ Copies(Done(j, t))' = Copies(Done(j, t))
        BY <3>5, <2>10, Zenon
      <4>2. QED
        BY <3>1, <3>2, <4>1, Zenon DEF Sum
    <3>7. CASE s = b
      <4>1. Copies(In(j, b, t))' <= Copies(In(j, b, t)) + 1
        BY <3>5, <2>10, Zenon
      <4>2. u1 <= u + 1
        <5>1. CASE j \in gossip[t]
          <6>1. u = 0 /\ u1 = 0
            BY <5>1, <3>1, <3>2, <2>4, <2>12, Zenon DEF Sum, Unheard
          <6>2. QED
            BY <6>1
        <5>2. CASE j \notin gossip[t]
          <6>1. u = Copies(In(j, b, t)) /\ u1 = Copies(In(j, b, t))'
            BY <5>2, <3>1, <3>2, <2>4, <2>12, Zenon DEF Sum, Unheard
          <6>2. QED
            BY <4>1, <6>1, Zenon
        <5>3. QED
          BY <5>1, <5>2, Zenon
      <4>3. Work(j, b, t)' <= Work(j, b, t) + 1
        BY <3>3, <3>4, <3>6, <4>2
      <4>4. QED
        BY <4>3, <3>5, <2>7, <3>7, Zenon
    <3>8. CASE s # b
      <4>1. t = b
        BY <2>1, <2>12, <3>8, Zenon DEF Few
      <4>2. In(j, b, t) \notin Taken(S)
        <5>1. In(j, b, t).from = j
          BY <3>0, <4>1, Zenon DEF Sign
        <5>2. QED
          BY <5>1, <3>0, <2>1, <2>9, Zenon DEF Sign
      <4>3. Copies(In(j, b, t))' = Copies(In(j, b, t))
        BY <3>5, <4>2, <2>10, Zenon
      <4>4. u1 = u
        BY <4>3, <3>1, <3>2, <2>4, <2>12, Zenon DEF Sum, Unheard
      <4>5. Work(j, b, t)' = Work(j, b, t) /\ Work(j, b, t) \in Nat
        BY <3>3, <3>4, <3>6, <4>4
      <4>6. QED
        BY <4>5, <3>5, <2>7, <3>8
    <3>9. QED
      BY <3>7, <3>8, Zenon
  <2>13. s # b => j \in gossip[b]
    BY <2>1, <2>11, Zenon DEF OnePush
  <2>14. j \in gossip'[b]
    BY <2>4, <2>13, Zenon
  <2>15. ASSUME NEW t \in C
         PROVE  Work(j, b, t)' <= 1 /\ (New(j, b, t) \in Mail' => j \notin gossip'[t])
    <3>1. CASE t = s
      BY <3>1, <2>11, Zenon
    <3>2. CASE t # s
      <4>1. New(j, b, t) \in Mail' => j \notin gossip'[t]
        BY <3>2, <2>4, <2>12, Zenon DEF OnePush
      <4>2. Work(j, b, t) \in Nat /\ Work(j, b, t)' \in Nat
        BY <1>Parts, <1>PartsNext, Zenon
      <4>3. CASE s = b
        <5>1. Work(j, b, t) = 0
          BY <2>5, <4>3, <3>2, Zenon DEF OnePush
        <5>2. QED
          BY <5>1, <4>1, <4>3, <2>12, <3>2
      <4>4. CASE s # b
        <5>1. Work(j, b, t) <= 1
          BY Zenon DEF OnePush
        <5>2. Work(j, b, t)' <= Work(j, b, t)
          BY <2>12, <3>2, <4>2, <4>4
        <5>3. QED
          BY <5>1, <5>2, <4>1, <4>2
      <4>5. QED
        BY <4>3, <4>4, Zenon
    <3>3. QED
      BY <3>1, <3>2, Zenon
  <2>16. ASSUME NEW x \in Mail'
         PROVE  OfPush(j, C, b, x)'
    <3>1. CASE x \in Mail
      <4>1. OfPush(j, C, b, x)
        BY <3>1, Zenon DEF OnePush
      <4>2. QED
        BY <4>1, <2>4, Zenon DEF OfPush
    <3>2. CASE x \in Taken(S)
      <4>1. CASE x = Msg("NODEIN", s, x.to, {j}, {}) /\ x.kind = "NODEIN"
        <5>1. ASSUME x.to \in C, j \notin gossip'[x.to]
              PROVE  x = In(j, b, x.to)
          <6>1. x.to # s /\ x.to # b
            BY <2>4, <2>14, <5>1, Zenon
          <6>2. s = b
            BY <2>1, <5>1, <6>1, Zenon DEF Few
          <6>3. QED
            BY <4>1, <6>1, <6>2, Zenon DEF In
        <5>2. QED
          BY <4>1, <5>1, Zenon DEF OfPush
      <4>2. CASE x.kind = "SET"
        BY <4>2, Zenon DEF OfPush
      <4>3. CASE x = Done(j, s) /\ x.kind = "SYNCDONE" /\ x.from = s
        BY <4>3, Zenon DEF OfPush
      <4>4. QED
        BY <3>2, <4>1, <4>2, <4>3, <2>9, Zenon
    <3>3. QED
      BY <3>1, <3>2, <2>7, Zenon
  <2>17. QED
    BY <2>14, <2>15, <2>16, Zenon DEF OnePush

<1> SUFFICES ASSUME Types, Types', Running, NEW j \in Server, NEW C \in SUBSET Server,
                    NEW b \in C, Few(C), Flood(j, C), OnePush(j, C, b)
             PROVE  /\ \A m \in Mail :
                          /\ Handle(m.to, m) => OnePush(j, C, b)'
                          /\ SyncDone(m.to, m) => done[j][m.from] = 0
                    /\ \A s \in C : Connect(s) \/ Connected(s) => OnePush(j, C, b)'
  BY Zenon
<1>1. ASSUME NEW m \in Mail, Handle(m.to, m)
      PROVE  OnePush(j, C, b)'
  <2>1. m.kind \notin {"GETNETWORK", "NETWORK", "NODEOUT"}
    BY Zenon DEF Flood, Floods, Carried
  <2>2. \/ Hello(m.to, m) \/ Ok(m.to, m) \/ NodeIn(m.to, m) \/ NodeInNew(m.to, m)
        \/ Push(m.to, m) \/ Set(m.to, m) \/ SyncDone(m.to, m)
    BY <1>1, <2>1, Zenon DEF Handle, GetNetwork, Greet, NodeOut, Arrived
  <2>3. CASE Hello(m.to, m)
    <3>1. /\ Answer(m, {Tell("OK", m.to, m.from)}) /\ m.kind = "HELLO"
          /\ UNCHANGED <<main, gossip, connects, done>>
      BY <2>3, Zenon DEF Hello, Arrived, sync
    <3>2. PICK S : S = {Tell("OK", m.to, m.from)}
      BY Zenon
    <3>3. \A x \in S : x.kind = "OK"
      BY <3>2 DEF Tell, Msg
    <3>4. QED
      BY <3>1, <3>2, <3>3, <1>OnePushOther, Zenon
  <2>4. CASE Ok(m.to, m) \/ Set(m.to, m)
    <3>1. /\ Answer(m, {}) /\ m.kind \in {"OK", "SET"}
          /\ UNCHANGED <<main, gossip, connects, done>>
      BY <2>4, Zenon DEF Ok, Set, Arrived, sync, views
    <3>2. PICK S : S = {}
      BY Zenon
    <3>3. Answer(m, S) /\ \A x \in S : x.kind = "OK"
      BY <3>1, <3>2, Zenon
    <3>4. m.kind \in {"HELLO", "OK", "SET"}
      BY <3>1, Zenon
    <3>5. QED
      BY <3>1, <3>3, <3>4, <1>OnePushOther, Zenon
  <2>5. QED
    BY <2>2, <2>3, <2>4, <1>OnePushNodeIn, <1>OnePushNodeInNew, <1>OnePushPush, <1>OnePushSyncDone,
       Zenon
<1>2. \A m \in Mail : SyncDone(m.to, m) => done[j][m.from] = 0
  BY <1>OnePushSyncDone, Zenon
<1>3. ASSUME NEW s \in C, Connect(s) \/ Connected(s)
      PROVE  OnePush(j, C, b)'
  BY <1>3, <1>OnePushConnect, <1>OnePushConnected, Zenon
<1>4. QED
  BY <1>1, <1>2, <1>3, Zenon

-----------------------------------------------------------------------------
(* One join after the other.                                               *)

Fresh == {"off", "asks", "greets"}

\* A join during which nothing is under way is over.
LEMMA JoinEnds ==
    ASSUME Types, NEW j \in Server, NEW C \in SUBSET Server, Joins(j, C), Quiet
    PROVE  Settled
<1>1. main[j] \notin {"asks", "greets"}
  BY Zenon DEF Quiet
<1>2. Flood(j, C)
  BY <1>1, Zenon DEF Joins, Asks, Greets, Flood
<1>3. QED
  BY <1>2, FloodEnds, Zenon

\* All but the keys.
unstored == <<main, peer, views, connects, sync, net, past>>

\* Solo does not depend on the keys.
LEMMA SoloSame ==
    ASSUME Solo, UNCHANGED unstored
    PROVE  Solo'
<1>1. UNCHANGED <<main, peer, topo, conn, gossip, connects, pending, syncing, done, net,
                  counted, early, crossed, faults>>
  BY Zenon DEF unstored, views, sync, past
<1>2. Mail' = Mail /\ Started' = Started
  BY <1>1, Zenon DEF Mail, Started
<1>3. Settled' = Settled
  BY <1>1, <1>2, Zenon DEF Settled, Still
<1>4. \A s \in Server : Books(s) => Books(s)'
  BY <1>1, Zenon DEF Books, Doubled
<1>5. \A s \in Server : Blank(s) => Blank(s)'
  BY <1>1, Zenon DEF Blank
<1>6. ASSUME NEW j \in Server, NEW C \in SUBSET Server, Joins(j, C)
      PROVE  Joins(j, C)'
  <2>1. \A m : Single(m)' = Single(m) /\ Copies(m)' = Copies(m)
    BY <1>1, <1>2, Zenon DEF Single, Copies
  <2>2. Asks(j, C)' = Asks(j, C) /\ Greets(j, C)' = Greets(j, C)
    BY <1>1, <2>1, Zenon DEF Asks, Greets, Still, Blank
  <2>3. Cluster(C, j)'
    BY <1>1, <1>6, Zenon DEF Joins, Cluster
  <2>4. Floods(j, C)' = Floods(j, C)
    <3>1. \A s : Told(s)' = Told(s)
      BY <1>2, Zenon DEF Told
    <3>2. QED
      BY <1>1, <1>2, <3>1, Zenon DEF Floods, Spreads, Connects
  <2>5. PICK b : b = peer[j]
    BY Zenon
  <2>6. OnePush(j, C, b)' = OnePush(j, C, b)
    <3>1. \A t : Work(j, b, t)' = Work(j, b, t)
      BY <1>1, <2>1, Zenon DEF Work, Unheard, Connecting
    <3>2. \A m : OfPush(j, C, b, m)' = OfPush(j, C, b, m)
      BY <1>1, Zenon DEF OfPush
    <3>3. QED
      BY <1>1, <1>2, <3>1, <3>2 DEF OnePush
  <2>7. QED
    BY <1>1, <1>2, <1>6, <2>2, <2>3, <2>4, <2>5, <2>6, Zenon DEF Joins
<1>7. QED
  BY <1>1, <1>2, <1>3, <1>4, <1>5, <1>6, Zenon DEF Solo

\* No step breaks Solo.
LEMMA SoloStep == Counts /\ Types /\ Calm /\ Solo /\ [Next]_vars => Solo'
\* The copies of a single message.
<1>SingleCopies. ASSUME NEW m, Single(m)
                 PROVE  \A x : Copies(x) = IF x = m THEN 1 ELSE 0
  BY <1>SingleCopies, Zenon DEF Single, Copies

\* A message of which there is one copy, and of no other one.
<1>CopiesSingle. ASSUME Bagged', NEW m, \A x : Copies(x)' = IF x = m THEN 1 ELSE 0
                 PROVE  Single(m)'
  <2> USE <1>CopiesSingle
  <2>1. \A x : x \in Mail' => Copies(x)' = net'[x] /\ net'[x] # 0
    BY Zenon DEF Copies, Bagged
  <2>2. \A x : x \notin Mail' => Copies(x)' = 0
    BY Zenon DEF Copies
  <2>3. QED
    BY <2>1, <2>2 DEF Single

\* The only message is answered by another one.
<1>SingleAnswered.
      ASSUME Types, Running, NEW m, Single(m), NEW n, n # m, n.to \in Server, Answer(m, {n})
      PROVE  Single(n)'
  <2> USE <1>SingleAnswered
  <2>1. Taken({n}) = {n}
    BY TakenAll, Zenon
  <2>2. m \in Mail
    BY Zenon DEF Single
  <2>3. /\ Bagged'
        /\ \A x : Copies(x)' = Copies(x) + (IF x \in Taken({n}) THEN 1 ELSE 0)
                                 - (IF x = m THEN 1 ELSE 0)
    BY <2>2, Answering, Zenon DEF Types
  <2>4. ASSUME NEW x
        PROVE  Copies(x)' = IF x = n THEN 1 ELSE 0
    <3>1. Copies(x) = IF x = m THEN 1 ELSE 0
      BY <1>SingleCopies, Zenon
    <3>2. Copies(x)' = Copies(x) + (IF x = n THEN 1 ELSE 0) - (IF x = m THEN 1 ELSE 0)
      BY <2>1, <2>3, Zenon
    <3>3. QED
      BY <3>1, <3>2
  <2>5. QED
    BY <2>3, <2>4, <1>CopiesSingle, Zenon

\* A join begins while nothing is under way.
<1>SettledAsk. ASSUME Types, Running, Settled, \A s \in Server \ Started : Blank(s),
                      NEW j \in Server, NEW b \in Server, Ask(j, b), NEW C, C = Started
               PROVE  Joins(j, C)'
  <2> USE <1>SettledAsk
  <2>1. /\ main[j] = "off" /\ b \in C /\ j \notin C /\ C \subseteq Server
        /\ main' = [main EXCEPT ![j] = "asks"] /\ peer' = [peer EXCEPT ![j] = b]
        /\ topo' = topo /\ conn' = conn /\ gossip' = gossip /\ connects' = connects
        /\ Send({Tell("GETNETWORK", j, b)})
    BY Zenon DEF Ask, Started, Away, views
  <2>2. /\ main'[j] = "asks" /\ peer'[j] = b
        /\ \A s \in Server : s # j => main'[s] = main[s]
    BY <2>1, Zenon DEF Types, TypeOK
  <2>3. Started' = C \cup {j}
    BY <2>1, <2>2, Zenon DEF Started
  <2>4. \A c \in C : /\ main'[c] = "up" /\ gossip[c] \subseteq C /\ topo[c] = C
                     /\ conn[c] = C \ {c}
    BY <2>1, <2>2, Zenon DEF Settled
  <2>5. Cluster(C, j)'
    BY <2>1, <2>4 DEF Cluster
  <2>6. Blank(j)' /\ Still'
    <3>1. Blank(j)
      BY <2>1, Zenon
    <3>2. QED
      BY <2>1, <2>2, <3>1 DEF Blank, Still, Settled
  <2> PICK n : n = Tell("GETNETWORK", j, b)
    BY Zenon
  <2>7. Single(n)'
    <3>1. n.to = b
      BY Zenon DEF Tell, Msg
    <3>2. Taken({n}) = {n}
      BY <3>1, TakenAll, Zenon
    <3>3. /\ Bagged'
          /\ \A x : Copies(x)' = Copies(x) + (IF x \in Taken({n}) THEN 1 ELSE 0)
      BY <2>1, Sending, Zenon DEF Types
    <3>4. ASSUME NEW x
          PROVE  Copies(x)' = IF x = n THEN 1 ELSE 0
      <4>1. Copies(x) = 0
        BY Zenon DEF Settled, Copies
      <4>2. Copies(x)' = Copies(x) + (IF x = n THEN 1 ELSE 0)
        BY <3>2, <3>3, Zenon
      <4>3. QED
        BY <4>1, <4>2
    <3>5. QED
      BY <3>3, <3>4, <1>CopiesSingle, Zenon
  <2>8. Asks(j, C)'
    BY <2>1, <2>2, <2>4, <2>6, <2>7 DEF Asks
  <2>9. ~ Floods(j, C)'
    BY <2>2, Zenon DEF Floods
  <2>10. QED
    BY <2>1, <2>3, <2>5, <2>8, <2>9, Zenon DEF Joins

\* The server that is asked answers.
<1>AsksGetNetwork.
      ASSUME Types, Running, NEW j \in Server, NEW C \in SUBSET Server, Joins(j, C),
             Asks(j, C), NEW m \in Mail, GetNetwork(m.to, m)
      PROVE  Joins(j, C)'
  <2> USE <1>AsksGetNetwork
  <2> PICK b : b = peer[j]
    BY Zenon
  <2>1. b \in C /\ b \in Server /\ b # j
    BY Zenon DEF Asks, Joins
  <2>2. m = Tell("GETNETWORK", j, b) /\ Single(m)
    <3>1. m.kind = "GETNETWORK"
      BY Zenon DEF GetNetwork, Arrived
    <3>2. Msg("NETWORK", b, j, C, {}).kind = "NETWORK"
      BY Zenon DEF Msg
    <3>3. QED
      BY <3>1, <3>2, Zenon DEF Asks, Single
  <2>3. m.to = b /\ m.from = j
    BY <2>2, Zenon DEF Tell, Msg
  <2>4. topo[b] = C
    <3>1. topo[b] = C \cup (gossip[b] \cap {j}) /\ j \notin gossip[b]
      BY <2>1, Zenon DEF Joins, Cluster, Asks
    <3>2. QED
      BY <3>1, Zenon
  <2> PICK n : n = Msg("NETWORK", b, j, C, {})
    BY Zenon
  <2>5. n.to = j /\ n # m
    BY <2>2, Zenon DEF Tell, Msg
  <2>6. Answer(m, {n})
    BY <2>3, <2>4, Zenon DEF GetNetwork
  <2>7. Single(n)'
    BY <2>2, <2>5, <2>6, <1>SingleAnswered, Zenon
  <2>8. UNCHANGED <<main, peer, topo, conn, gossip, connects>>
    BY Zenon DEF GetNetwork, views
  <2>9. Asks(j, C)'
    BY <2>7, <2>8, Zenon DEF Asks, Blank, Still
  <2>10. Started' = Started /\ Cluster(C, j)'
    BY <2>8, Zenon DEF Joins, Started, Cluster
  <2>11. ~ Floods(j, C)'
    BY <2>9, Zenon DEF Asks, Floods
  <2>12. QED
    BY <2>9, <2>10, <2>11, Zenon DEF Joins

\* The new server takes over the topology.
<1>AsksGreet.
      ASSUME Types, Running, NEW j \in Server, NEW C \in SUBSET Server, Joins(j, C),
             Asks(j, C), NEW m \in Mail, Greet(m.to, m)
      PROVE  Joins(j, C)' /\ m.to = j /\ m.who = C
  <2> USE <1>AsksGreet
  <2> PICK b : b = peer[j]
    BY Zenon
  <2>1. b \in C /\ b \in Server /\ b # j
    BY Zenon DEF Asks, Joins
  <2>2. m = Msg("NETWORK", b, j, C, {}) /\ Single(m)
    <3>1. m.kind = "NETWORK"
      BY Zenon DEF Greet
    <3>2. Tell("GETNETWORK", j, b).kind = "GETNETWORK"
      BY Zenon DEF Tell, Msg
    <3>3. QED
      BY <3>1, <3>2, Zenon DEF Asks, Single
  <2>3. m.to = j /\ m.from = b /\ m.who = C
    BY <2>2, Zenon DEF Msg
  <2>4. /\ main' = [main EXCEPT ![j] = "greets"] /\ topo' = [topo EXCEPT ![j] = @ \cup C]
        /\ conn' = [conn EXCEPT ![j] = @ \cup {b}] /\ counted' = [counted EXCEPT ![j] = C]
        /\ Answer(m, {Tell("HELLO", j, b)}) /\ UNCHANGED <<peer, gossip, connects>>
    BY <2>3, Zenon DEF Greet
  <2>5. /\ main'[j] = "greets" /\ topo'[j] = C \cup {j} /\ conn'[j] = {b} /\ counted'[j] = C
        /\ \A s \in Server : s # j => /\ main'[s] = main[s] /\ topo'[s] = topo[s]
                                      /\ conn'[s] = conn[s]
    <3>1. topo[j] = {j} /\ conn[j] = {}
      BY Zenon DEF Asks, Blank
    <3>2. QED
      BY <2>4, <3>1, Zenon DEF Types, TypeOK, HistoryTypes
  <2> PICK n : n = Tell("HELLO", j, b)
    BY Zenon
  <2>6. n.to = b /\ n # m
    BY <2>2, Zenon DEF Tell, Msg
  <2>7. Single(n)'
    BY <2>1, <2>2, <2>4, <2>6, <1>SingleAnswered, Zenon
  <2>8. gossip[j] = {} /\ main[j] = "asks"
    BY Zenon DEF Asks, Blank
  <2>9. Still'
    BY <2>4, <2>5 DEF Asks, Still
  <2>10. Started' = Started
    BY <2>5, <2>8, Zenon DEF Started
  <2>11. j \notin C
    BY Zenon DEF Joins
  <2>12. Cluster(C, j)'
    BY <2>4, <2>5, <2>11, Zenon DEF Joins, Cluster
  <2>13. Greets(j, C)'
    BY <2>1, <2>4, <2>5, <2>7, <2>8, <2>9, <2>11, Zenon DEF Asks, Greets
  <2>14. ~ Floods(j, C)'
    BY <2>5, Zenon DEF Floods
  <2>15. QED
    BY <2>3, <2>10, <2>12, <2>13, <2>14, Zenon DEF Joins

\* The server that is greeted knows the link.
<1>GreetsHello.
      ASSUME Types, Running, NEW j \in Server, NEW C \in SUBSET Server, Joins(j, C),
             Greets(j, C), NEW m \in Mail, Hello(m.to, m)
      PROVE  Joins(j, C)'
  <2> USE <1>GreetsHello
  <2> PICK b : b = peer[j]
    BY Zenon
  <2>1. b \in C /\ b \in Server /\ b # j
    BY Zenon DEF Greets, Joins
  <2>2. m = Tell("HELLO", j, b) /\ Single(m)
    <3>1. m.kind = "HELLO"
      BY Zenon DEF Hello, Arrived
    <3>2. Tell("OK", b, j).kind = "OK"
      BY Zenon DEF Tell, Msg
    <3>3. QED
      BY <3>1, <3>2, Zenon DEF Greets, Single
  <2>3. m.to = b /\ m.from = j
    BY <2>2, Zenon DEF Tell, Msg
  <2>4. /\ conn' = [conn EXCEPT ![b] = @ \cup {j}] /\ Answer(m, {Tell("OK", b, j)})
        /\ UNCHANGED <<main, peer, topo, gossip, connects, counted>>
    BY <2>3, Zenon DEF Hello, past
  <2>5. conn'[b] = conn[b] \cup {j} /\ \A s \in Server : s # b => conn'[s] = conn[s]
    BY <2>1, <2>4, Zenon DEF Types, TypeOK
  <2> PICK n : n = Tell("OK", b, j)
    BY Zenon
  <2>6. n.to = j /\ n # m
    BY <2>2, Zenon DEF Tell, Msg
  <2>7. Single(n)'
    BY <2>2, <2>4, <2>6, <1>SingleAnswered, Zenon
  <2>8. Started' = Started /\ Still'
    BY <2>4, Zenon DEF Started, Greets, Still
  <2>9. Cluster(C, j)'
    BY <2>4, <2>5, Zenon DEF Joins, Cluster
  <2>10. \A c \in C : j \in conn'[c] => c = b
    BY <2>5, Zenon DEF Greets
  <2>11. Greets(j, C)'
    BY <2>1, <2>4, <2>5, <2>7, <2>8, <2>10, Zenon DEF Greets
  <2>12. ~ Floods(j, C)'
    BY <2>11, Zenon DEF Greets, Floods
  <2>13. QED
    BY <2>8, <2>9, <2>11, <2>12, Zenon DEF Joins

\* The new server announces itself.
<1>GreetsAnnounce.
      ASSUME Types, Running, NEW j \in Server, NEW C \in SUBSET Server, Joins(j, C),
             Greets(j, C), Books(j), NEW s \in Server, Announce(s)
      PROVE  Joins(j, C)'
  <2> USE <1>GreetsAnnounce
  <2> PICK b : b = peer[j]
    BY Zenon
  <2>1. b \in C /\ b \in Server /\ b # j /\ j \notin C
    BY Zenon DEF Greets, Joins
  <2>2. s = j
    <3>1. s \in Started /\ main[s] = "greets"
      BY Zenon DEF Announce, Started
    <3>2. s \in C => main[s] \in {"up", "connects"}
      BY Zenon DEF Joins, Cluster
    <3>3. QED
      BY <3>1, <3>2, Zenon DEF Joins
  <2> PICK n : n = In(j, b, b)
    BY Zenon
  <2>3. n = Msg("NODEIN", j, b, {j}, {})
    BY Zenon DEF In
  <2>16. n.kind = "NODEIN" /\ n.to = b /\ n.who = {j}
    BY <2>3 DEF Msg
  <2>4. PICK M : M \in SUBSET OnLink(j) /\ M # {}
                   /\ Exchange(M, {n})
    BY <2>2, <2>3, Zenon DEF Announce
  <2>5. Single(Tell("OK", b, j)) /\ M = {Tell("OK", b, j)}
    <3>1. M \subseteq Mail /\ \A x \in M : x.kind # "HELLO"
      BY <2>4, Zenon DEF OnLink, Mail
    <3>2. Tell("HELLO", j, b).kind = "HELLO"
      BY Zenon DEF Tell, Msg
    <3>3. ~ Single(Tell("HELLO", j, b))
      BY <2>4, <3>1, <3>2, Zenon DEF Single
    <3>4. Single(Tell("OK", b, j))
      BY <3>3, Zenon DEF Greets
    <3>5. QED
      BY <2>4, <3>1, <3>4, Zenon DEF Single
  <2> PICK k : k = Tell("OK", b, j)
    BY Zenon
  <2>6. Single(n)'
    <3>1. Taken({n}) = {n}
      BY <2>1, <2>16, TakenAll, Zenon
    <3>2. M \subseteq Mail
      BY <2>4, Zenon DEF OnLink, Mail
    <3>3. /\ Bagged'
          /\ \A x : Copies(x)' = Copies(x) + (IF x \in Taken({n}) THEN 1 ELSE 0)
                                   - (IF x \in M THEN 1 ELSE 0)
      BY <2>4, <3>2, Exchanging, Zenon DEF Types
    <3>4. ASSUME NEW x
          PROVE  Copies(x)' = IF x = n THEN 1 ELSE 0
      <4>1. Copies(x) = IF x = k THEN 1 ELSE 0
        BY <2>5, <1>SingleCopies, Zenon
      <4>2. Copies(x)' = Copies(x) + (IF x = n THEN 1 ELSE 0) - (IF x = k THEN 1 ELSE 0)
        BY <2>5, <3>1, <3>3, Zenon
      <4>3. QED
        BY <4>1, <4>2
    <3>5. QED
      BY <3>3, <3>4, <1>CopiesSingle, Zenon
  <2>7. /\ main' = [main EXCEPT ![j] = "up"] /\ gossip' = [gossip EXCEPT ![j] = @ \cup {j}]
        /\ UNCHANGED <<peer, topo, conn, connects, done, counted>>
    BY <2>2, Zenon DEF Announce, sync, past
  <2>8. /\ main'[j] = "up" /\ gossip'[j] = {j}
        /\ \A t \in Server : t # j => main'[t] = main[t] /\ gossip'[t] = gossip[t]
    BY <2>7, Zenon DEF Types, TypeOK, HistoryTypes, Greets
  <2>9. Started' = Started
    BY <2>8, Zenon DEF Started, Greets
  <2>10. Cluster(C, j)'
    BY <2>1, <2>7, <2>8, Zenon DEF Joins, Cluster
  <2>11. /\ Mail' = {n} /\ n.kind = "NODEIN" /\ n.to = b /\ n.who = {j}
    BY <2>6, <2>16, Zenon DEF Single
  <2>12. \A c \in C : /\ c \in Server /\ c # j /\ j \notin gossip'[c] /\ connects'[c] = <<>>
                      /\ main'[c] # "connects" /\ (j \in conn'[c] => c = b)
    BY <2>1, <2>7, <2>8 DEF Greets, Still
  <2>13. Floods(j, C)'
    <3>1. Spreads(j, C, b)'
      BY <2>1, <2>11, <2>12, Zenon DEF Spreads, Told, News
    <3>2. \A m \in Mail' : Carried(m, j, C)
      BY <2>11, Zenon DEF Carried
    <3>3. Range(<<>>) = {}
      BY DEF Range
    <3>4. \A c \in C : Connects(j, c)'
      BY <2>1, <2>7, <2>12, <3>3, Zenon DEF Connects, Greets
    <3>5. QED
      BY <2>1, <2>7, <2>8, <3>1, <3>2, <3>4, Zenon DEF Floods, Greets, Still
  <2>14. OnePush(j, C, b)'
    <3>1. ASSUME NEW t \in C
          PROVE  Work(j, b, t)' = (IF t = b THEN 1 ELSE 0) /\ New(j, b, t) \notin Mail'
      <4>5. /\ In(j, b, t).to = t /\ New(j, b, t).kind = "NODEIN new"
            /\ Pushes(j, t).kind = "PUSH" /\ Done(j, t).kind = "SYNCDONE"
        BY Zenon DEF In, New, Pushes, Done, Tell, Msg
      <4>1. /\ New(j, b, t) \notin Mail' /\ Pushes(j, t) \notin Mail' /\ Done(j, t) \notin Mail'
            /\ In(j, b, t) \in Mail' <=> t = b
        BY <2>11, <4>5, Zenon
      <4>2. /\ Copies(New(j, b, t))' = 0 /\ Copies(Pushes(j, t))' = 0
            /\ Copies(Done(j, t))' = 0 /\ Copies(In(j, b, t))' = (IF t = b THEN 1 ELSE 0)
        BY <2>6, <4>1, Zenon DEF Copies, Single
      <4>3. done'[j][t] = 0 /\ Len(connects'[t]) = 0
        BY <2>7, <2>12, Zenon DEF Books, Greets
      <4>4. QED
        BY <2>12, <4>1, <4>2, <4>3 DEF Work, Unheard, Connecting
    <3>2. ASSUME NEW t \in C
          PROVE  /\ Work(j, b, t)' <= 1
                 /\ New(j, b, t) \in Mail' => j \notin gossip'[t]
                 /\ t # b => Work(j, b, t)' = 0 /\ j \notin gossip'[t]
      BY <2>12, <3>1
    <3>3. QED
      BY <2>11, <3>2, Zenon DEF OnePush, OfPush
  <2>15. QED
    BY <2>7, <2>9, <2>10, <2>13, <2>14, Zenon DEF Joins

\* Nobody changes a server that has not started.
<1>BlankKept. ASSUME Types, Running, [Next]_vars, faults' = {}, Calm,
                     \A s \in Server \ Started : Blank(s)
              PROVE  \A s \in Server \ Started' : Blank(s)'
  <2> USE <1>BlankKept
  <2> SUFFICES ASSUME NEW s \in Server, main'[s] = "off"
               PROVE  Blank(s)'
    BY Zenon DEF Started
  <2> DEFINE Same == /\ main[s] = "off" /\ topo'[s] = topo[s] /\ conn'[s] = conn[s]
                     /\ gossip'[s] = gossip[s] /\ connects'[s] = connects[s]
  <2>1. ASSUME NEW m \in Mail, Handle(m.to, m)
        PROVE  Same
    <3>1. m.to \in Server
      BY Zenon DEF Types, MailTypes, Good, Message
    <3>2. main[m.to] # "off"
      BY <2>1, Zenon DEF Handle, GetNetwork, Greet, Hello, Ok, NodeIn, NodeInNew, Push,
         Set, SyncDone, NodeOut, Arrived
    <3>3. \A t \in Server : t # m.to =>
              /\ main'[t] = main[t] /\ topo'[t] = topo[t] /\ conn'[t] = conn[t]
              /\ gossip'[t] = gossip[t] /\ connects'[t] = connects[t]
      <4>1. CASE Greet(m.to, m)
        <5>1. \A t \in Server : t # m.to => main'[t] = main[t] /\ topo'[t] = topo[t]
          BY <3>1, <4>1, Zenon DEF Greet, Types, TypeOK
        <5>2. \A t \in Server : t # m.to => conn'[t] = conn[t]
          BY <3>1, <4>1, Zenon DEF Greet, Types, TypeOK
        <5>3. QED
          BY <4>1, <5>1, <5>2, Zenon DEF Greet
      <4>2. CASE Hello(m.to, m)
        BY <3>1, <4>2, Zenon DEF Hello, Types, TypeOK
      <4>3. CASE NodeInNew(m.to, m)
        <5>1. PICK q : connects' = [connects EXCEPT ![m.to] = q]
          BY <4>3, Zenon DEF NodeInNew
        <5>2. \A t \in Server : t # m.to => connects'[t] = connects[t]
          BY <5>1, Zenon DEF Types, TypeOK
        <5>3. \A t \in Server : t # m.to => gossip'[t] = gossip[t] /\ topo'[t] = topo[t]
          <6>1. /\ gossip' = [gossip EXCEPT ![m.to] = @ \cup m.who]
                /\ topo' = [topo EXCEPT ![m.to] = @ \cup m.who]
            BY <4>3, Zenon DEF NodeInNew
          <6>2. QED
            BY <6>1, Zenon DEF Types, TypeOK, HistoryTypes
        <5>4. main' = main /\ conn' = conn
          BY <4>3, Zenon DEF NodeInNew
        <5>5. QED
          BY <5>2, <5>3, <5>4, Zenon
      <4>4. CASE NodeOut(m.to, m)
        BY <3>1, <4>4, Zenon DEF NodeOut, Types, HistoryTypes
      <4>5. CASE \/ GetNetwork(m.to, m) \/ Ok(m.to, m) \/ NodeIn(m.to, m) \/ Push(m.to, m)
                 \/ Set(m.to, m) \/ SyncDone(m.to, m)
        BY <4>5, Zenon DEF GetNetwork, Ok, NodeIn, Push, Set, SyncDone, views
      <4>6. QED
        BY <2>1, <4>1, <4>2, <4>3, <4>4, <4>5, Zenon DEF Handle
    <3>4. main'[m.to] # "off"
      <4>1. main' = main \/ main' = [main EXCEPT ![m.to] = "greets"]
        BY <2>1, Zenon DEF Handle, GetNetwork, Greet, Hello, Ok, NodeIn, NodeInNew, Push,
           Set, SyncDone, NodeOut
      <4>2. QED
        BY <3>1, <3>2, <4>1, Zenon DEF Types, TypeOK
    <3>5. QED
      BY <3>3, <3>4, Zenon
  <2>2. ASSUME NEW t \in Server,
               Announce(t) \/ Connect(t) \/ Connected(t) \/ \E u \in Server : Ask(t, u)
        PROVE  Same
    <3>1. main'[t] # "off"
      <4>1. \E x \in {"up", "connects", "asks"} : main' = [main EXCEPT ![t] = x]
        BY <2>2, Zenon DEF Announce, Connect, Connected, Ask
      <4>2. QED
        BY <4>1, Zenon DEF Types, TypeOK
    <3>2. \A u \in Server : u # t =>
              /\ main'[u] = main[u] /\ topo'[u] = topo[u] /\ conn'[u] = conn[u]
              /\ gossip'[u] = gossip[u] /\ connects'[u] = connects[u]
      <4>1. CASE Announce(t)
        BY <4>1 DEF Announce, Types, TypeOK, HistoryTypes
      <4>2. CASE Connect(t)
        BY <4>2, Zenon DEF Connect, views, Types, TypeOK
      <4>3. CASE Connected(t)
        BY <4>3, Zenon DEF Connected, views, Types, TypeOK
      <4>4. CASE \E u \in Server : Ask(t, u)
        <5>1. main' = [main EXCEPT ![t] = "asks"] /\ UNCHANGED <<views, connects>>
          BY <4>4, Zenon DEF Ask
        <5>2. QED
          BY <5>1, Zenon DEF views, Types, TypeOK
      <4>5. QED
        BY <2>2, <4>1, <4>2, <4>3, <4>4, Zenon
    <3>3. QED
      BY <3>1, <3>2, Zenon
  <2>3. ASSUME UNCHANGED vars
        PROVE  Same
    BY <2>3, Zenon DEF vars, views
  <2>4. Same
    BY <2>1, <2>2, <2>3, FaultFree, Zenon
  <2>5. Blank(s)
    BY <2>4, Zenon DEF Started
  <2>6. QED
    BY <2>4, <2>5, Zenon DEF Blank

\* The books of a server that nobody writes in.
<1>BooksSame. ASSUME NEW s \in Server, Books(s), main'[s] \in Fresh => main[s] \in Fresh,
                     UNCHANGED <<pending, syncing, done, counted, early>>
              PROVE  Books(s)'
  BY <1>BooksSame, Zenon DEF Books, Doubled, Fresh, Few

\* A server that greets opens its books.
<1>BooksGreet. ASSUME Types, \A s \in Server : Books(s), NEW m \in Mail, Greet(m.to, m)
               PROVE  \A s \in Server : Books(s)'
  <2> USE <1>BooksGreet
  <2> PICK j : j = m.to
    BY Zenon
  <2>1. j \in Server /\ main[j] = "asks" /\ m.who \subseteq Server
    BY Zenon DEF Greet, Types, MailTypes, Good, Message
  <2>2. /\ main' = [main EXCEPT ![j] = "greets"]
        /\ pending' = [pending EXCEPT ![j] = Cardinality(m.who)]
        /\ syncing' = [syncing EXCEPT ![j] = TRUE]
        /\ counted' = [counted EXCEPT ![j] = m.who]
        /\ done' = done /\ early' = early
    BY Zenon DEF Greet, MarkSyncing
  <2>3. ASSUME NEW s \in Server, s # j
        PROVE  Books(s)'
    <3>1. /\ main'[s] = main[s] /\ pending'[s] = pending[s] /\ syncing'[s] = syncing[s]
          /\ counted'[s] = counted[s]
      BY <2>2, <2>3, Zenon DEF Types, TypeOK, HistoryTypes
    <3>2. Books(s)
      BY Zenon
    <3>3. QED
      BY <2>2, <3>1, <3>2, Zenon DEF Books, Doubled, Few
  <2>4. Books(j)'
    <3>1. \A t \in Server : done[j][t] = 0
      BY <2>1, Zenon DEF Books
    <3>2. ~ Doubled(j)' /\ ~ Doubled(j)
      BY <2>2, <3>1 DEF Doubled
    <3>3. pending'[j] = Cardinality(m.who) /\ counted'[j] = m.who /\ syncing'[j]
      BY <2>1, <2>2, Zenon DEF Types, TypeOK, HistoryTypes
    <3>4. {t \in m.who : done[j][t] = 0} = m.who
      BY <2>1, <3>1, Zenon
    <3>5. early[j] = {}
      BY <2>1, <3>2, Zenon DEF Books
    <3>6. QED
      BY <2>2, <3>1, <3>2, <3>3, <3>4, <3>5, Zenon DEF Books
  <2>5. QED
    BY <2>3, <2>4, Zenon

\* Books that nobody writes in.
<1>BooksClosed.
      ASSUME \A s \in Server : Books(s), UNCHANGED <<pending, syncing, done, counted, early>>,
             \A s \in Server : main'[s] \in Fresh => main[s] \in Fresh
      PROVE  \A s \in Server : Books(s)'
  BY <1>BooksClosed, <1>BooksSame, Zenon

\* Keys that a server takes before the SYNCDONE of their sender.
<1>BooksSet.
      ASSUME Counts, Types, \A s \in Server : Books(s), NEW m \in Mail, Set(m.to, m)
      PROVE  \A s \in Server : Books(s)'
  <2> USE <1>BooksSet
  <2> PICK j : j = m.to
    BY Zenon
  <2>1. j \in Server /\ m.from \in Server
    BY Zenon DEF Types, MailTypes, Good, Message
  <2>2. UNCHANGED <<main, pending, syncing, done, counted>>
    BY Zenon DEF Set, sync
  <2>3. /\ \A s \in Server : s # j => early'[s] = early[s]
        /\ early'[j] # {} => \/ early[j] # {}
                             \/ ~ syncing[j] /\ m.from \in counted[j] /\ done[j][m.from] = 0
    <3>1. early' = [early EXCEPT ![j] =
              @ \cup {k \in {x \in m.keys : ~ Refuses(j, x)} :
                          m.from \in counted[j] /\ done[j][m.from] = 0}]
      BY Zenon DEF Set
    <3>2. early'[j] = early[j] \cup {k \in {x \in m.keys : ~ Refuses(j, x)} :
                          m.from \in counted[j] /\ done[j][m.from] = 0}
      BY <2>1, <3>1, Zenon DEF Types, HistoryTypes
    <3>3. \A s \in Server : s # j => early'[s] = early[s]
      BY <2>1, <3>1, Zenon DEF Types, HistoryTypes
    <3>4. \A k : ~ Refuses(j, k) => ~ syncing[j]
      BY Zenon DEF Refuses
    <3>5. QED
      BY <3>2, <3>3, <3>4, Zenon
  <2>4. ~ syncing[j] /\ m.from \in counted[j] /\ done[j][m.from] = 0 => Doubled(j)
    <3> SUFFICES ASSUME ~ syncing[j], m.from \in counted[j], done[j][m.from] = 0, ~ Doubled(j)
                 PROVE  FALSE
      BY Zenon
    <3> PICK D : D = {t \in counted[j] : done[j][t] = 0}
      BY Zenon
    <3>1. pending[j] = Cardinality(D) /\ pending[j] = 0
      <4>1. /\ pending[j] = Cardinality({t \in counted[j] : done[j][t] = 0})
            /\ syncing[j] \/ pending[j] = 0
        BY <2>1, Zenon DEF Books
      <4>2. pending[j] = 0
        BY <4>1, Zenon
      <4>3. QED
        BY <4>1, <4>2, Zenon
    <3>2. D \subseteq Server /\ m.from \in D
      BY <2>1, Zenon DEF Types, HistoryTypes
    <3>4. D = {}
      BY <3>1, <3>2, Zenon DEF Counts
    <3>5. QED
      BY <3>2, <3>4, Zenon
  <2>5. ASSUME NEW s \in Server
        PROVE  Books(s)'
    <3>1. Books(s)
      BY Zenon
    <3>2. early'[s] # {} => Doubled(s)
      <4>1. CASE s = j
        BY <2>1, <2>3, <2>4, <3>1, <4>1, Zenon DEF Books
      <4>2. CASE s # j
        BY <2>3, <3>1, <4>2, Zenon DEF Books
      <4>3. QED
        BY <4>1, <4>2, Zenon
    <3>3. Doubled(s)' = Doubled(s)
      BY <2>2, Zenon DEF Doubled
    <3>4. QED
      BY <2>2, <3>1, <3>2, <3>3, Zenon DEF Books, Few
  <2>6. QED
    BY <2>5, Zenon

\* One SYNCDONE of a server that is counted.
<1>BooksSyncDone. ASSUME Counts, Types, \A s \in Server : Books(s),
                         NEW m \in Mail, SyncDone(m.to, m), m.from \in counted[m.to],
                         Few(counted[m.to]) => done[m.to][m.from] = 0
                  PROVE  \A s \in Server : Books(s)'
  <2> USE <1>BooksSyncDone
  <2> PICK j, t : j = m.to /\ t = m.from
    BY Zenon
  <2>1. j \in Server /\ t \in Server /\ main[j] = "up" /\ t \in counted[j]
    BY Zenon DEF Types, MailTypes, Good, Message, SyncDone, Arrived
  <2>2. /\ pending' = [pending EXCEPT ![j] = @ - 1]
        /\ syncing' = [syncing EXCEPT ![j] = @ /\ pending[j] # 1]
        /\ done' = [done EXCEPT ![j][t] = @ + 1]
        /\ UNCHANGED <<main, counted, early>>
    BY Zenon DEF SyncDone, past
  <2>3. /\ done'[j][t] = done[j][t] + 1
        /\ \A u \in Server : u # t => done'[j][u] = done[j][u]
        /\ \A s \in Server : s # j => done'[s] = done[s]
    BY <2>1, <2>2, Zenon DEF Types, HistoryTypes
  <2>4. done[j] \in [Server -> Nat] /\ pending[j] \in Int
    BY <2>1, Zenon DEF Types, TypeOK, HistoryTypes
  <2>5. ASSUME NEW s \in Server, s # j
        PROVE  Books(s)'
    <3>1. pending'[s] = pending[s] /\ syncing'[s] = syncing[s] /\ done'[s] = done[s]
      BY <2>2, <2>3, <2>5, Zenon DEF Types, TypeOK
    <3>2. Books(s)
      BY Zenon
    <3>3. QED
      BY <2>2, <3>1, <3>2 DEF Books, Doubled, Few
  <2>6. Doubled(j) => Doubled(j)'
    BY <2>1, <2>3, <2>4 DEF Doubled
  <2>7. ASSUME ~ Doubled(j)'
        PROVE  /\ pending'[j] = Cardinality({u \in counted[j] : done'[j][u] = 0})
               /\ syncing'[j] \/ pending'[j] = 0
    <3>1. ~ Doubled(j) /\ done[j][t] = 0
      BY <2>1, <2>3, <2>4, <2>6, <2>7 DEF Doubled
    <3> PICK D : D = {u \in counted[j] : done[j][u] = 0}
      BY Zenon
    <3>2. pending[j] = Cardinality(D)
      BY <2>1, <3>1, Zenon DEF Books
    <3>3. D \subseteq Server /\ t \in D
      BY <2>1, <3>1, Zenon DEF Types, HistoryTypes
    <3>5. {u \in counted[j] : done'[j][u] = 0} = D \ {t}
      BY <2>1, <2>3, <2>4, <3>3 DEF Types, HistoryTypes
    <3>6. Cardinality(D \ {t}) = Cardinality(D) - 1
      BY <3>3, Zenon DEF Counts
    <3>7. pending'[j] = pending[j] - 1
      BY <2>1, <2>2, Zenon DEF Types, TypeOK
    <3>8. pending[j] # 0
      BY <3>2, <3>3, Zenon DEF Counts
    <3>9. syncing[j]
      BY <2>1, <3>1, <3>8, Zenon DEF Books
    <3>10. pending[j] # 1 => syncing'[j]
      BY <2>1, <2>2, <3>9, Zenon DEF Types, TypeOK
    <3>11. pending'[j] = Cardinality({u \in counted[j] : done'[j][u] = 0})
      BY <3>2, <3>5, <3>6, <3>7, Zenon
    <3>12. pending[j] = 1 => pending'[j] = 0
      BY <3>7
    <3>13. QED
      BY <3>10, <3>11, <3>12, Zenon
  <2>8. early[j] # {} => Doubled(j)'
    BY <2>1, <2>6, Zenon DEF Books
  <2>9. Few(counted[j]) => ~ Doubled(j)'
    <3> SUFFICES ASSUME Few(counted[j])
                 PROVE  ~ Doubled(j)'
      BY Zenon
    <3>1. done[j][t] = 0 /\ ~ Doubled(j)
      BY <2>1, Zenon DEF Books
    <3>2. QED
      BY <2>3, <2>4, <3>1 DEF Doubled
  <2>10. Books(j)'
    BY <2>1, <2>2, <2>7, <2>8, <2>9 DEF Books, Few
  <2>11. QED
    BY <2>5, <2>10, Zenon

\* The news of j go on spreading, and pushes stay single.
<1>FloodStep. ASSUME NEW j \in Server, NEW C \in SUBSET Server,
                     Flood(j, C)', peer'[j] = peer[j], Few(C) => OnePush(j, C, peer[j])'
              PROVE  Joins(j, C)'
  <2> USE <1>FloodStep
  <2>1. PICK b : b = peer[j]
    BY Zenon
  <2>2. Few(C) => OnePush(j, C, b)'
    BY <2>1, Zenon
  <2>3. QED
    BY <2>1, <2>2, Zenon DEF Flood, Joins

\* While j asks, the other server answers and j greets.
<1>HandleAsks.
      ASSUME Types, Running, NEW j \in Server, NEW C \in SUBSET Server, Joins(j, C),
             Asks(j, C), \A s \in Server : Books(s), NEW m \in Mail, Handle(m.to, m)
      PROVE  Joins(j, C)' /\ \A s \in Server : Books(s)'
  <2> USE <1>HandleAsks
  <2>1. m.kind \in {"GETNETWORK", "NETWORK"}
    <3>1. CASE m = Tell("GETNETWORK", j, peer[j])
      BY <3>1, Zenon DEF Tell, Msg
    <3>2. CASE m = Msg("NETWORK", peer[j], j, C, {})
      BY <3>2, Zenon DEF Msg
    <3>3. QED
      BY <3>1, <3>2, Zenon DEF Asks, Single
  <2>2. GetNetwork(m.to, m) \/ Greet(m.to, m)
    BY <2>1, Zenon DEF Handle, Hello, Ok, NodeIn, NodeInNew, Push, Set, SyncDone,
       NodeOut, Arrived
  <2>3. CASE GetNetwork(m.to, m)
    <3>1. UNCHANGED <<pending, syncing, done, counted, early>> /\ main' = main
      BY <2>3, Zenon DEF GetNetwork, sync, past
    <3>2. QED
      BY <2>3, <3>1, <1>AsksGetNetwork, <1>BooksClosed, Zenon
  <2>4. CASE Greet(m.to, m)
    BY <2>4, <1>AsksGreet, <1>BooksGreet, Zenon
  <2>5. QED
    BY <2>2, <2>3, <2>4, Zenon

\* While j greets, the other server answers.
<1>HandleGreets.
      ASSUME Types, Running, NEW j \in Server, NEW C \in SUBSET Server, Joins(j, C),
             Greets(j, C), \A s \in Server : Books(s), NEW m \in Mail, Handle(m.to, m)
      PROVE  Joins(j, C)' /\ \A s \in Server : Books(s)'
  <2> USE <1>HandleGreets
  <2>1. m.kind = "HELLO" \/ (m.kind = "OK" /\ m.to = j)
    <3>1. CASE m = Tell("HELLO", j, peer[j])
      BY <3>1, Zenon DEF Tell, Msg
    <3>2. CASE m = Tell("OK", peer[j], j)
      BY <3>2, Zenon DEF Tell, Msg
    <3>3. QED
      BY <3>1, <3>2, Zenon DEF Greets, Single
  <2>2. main[j] # "up"
    BY Zenon DEF Greets
  <2>3. Hello(m.to, m)
    BY <2>1, <2>2, Zenon DEF Handle, GetNetwork, Greet, Ok, NodeIn, NodeInNew, Push, Set,
       SyncDone, NodeOut, Arrived
  <2>4. UNCHANGED <<pending, syncing, done, counted, early>> /\ main' = main
    BY <2>3, Zenon DEF Hello, sync, past
  <2>5. QED
    BY <2>3, <2>4, <1>GreetsHello, <1>BooksClosed, Zenon

\* Handlers while the news spread.
<1>HandleFlood.
      ASSUME Counts, Types, Types', Running, NEW j \in Server, NEW C \in SUBSET Server,
             Joins(j, C), Flood(j, C), \A s \in Server : Books(s),
             NEW m \in Mail, Handle(m.to, m)
      PROVE  Joins(j, C)' /\ \A s \in Server : Books(s)'
  <2> USE <1>HandleFlood
  <2>1. PICK b \in C : b = peer[j] /\ (Few(C) => OnePush(j, C, b)) /\ counted[j] = C
    BY Zenon DEF Joins, Flood, Floods
  <2>2. m.kind \notin {"GETNETWORK", "NETWORK", "NODEOUT"}
    BY Zenon DEF Flood, Floods, Carried
  <2>3. \/ Hello(m.to, m) \/ Ok(m.to, m) \/ NodeIn(m.to, m) \/ NodeInNew(m.to, m)
        \/ Push(m.to, m) \/ Set(m.to, m) \/ SyncDone(m.to, m)
    BY <2>2, Zenon DEF Handle, GetNetwork, Greet, NodeOut, Arrived
  <2>4. peer' = peer
    BY <2>3, Zenon DEF Hello, Ok, NodeIn, NodeInNew, Push, Set, SyncDone
  <2>5. Flood(j, C)'
    BY FloodHandle, Zenon
  <2>6. ASSUME Few(C)
        PROVE  OnePush(j, C, b)'
    BY <2>1, <2>6, OnePushStep, Zenon
  <2>7. Joins(j, C)'
    BY <2>1, <2>4, <2>5, <2>6, <1>FloodStep, Zenon
  <2>8. \A s \in Server : Books(s)'
    <3>1. CASE Set(m.to, m)
      BY <3>1, <1>BooksSet, Zenon
    <3>2. CASE SyncDone(m.to, m)
      <4>1. m.to = j /\ m.from \in C
        BY <3>2, Zenon DEF SyncDone, Arrived, Flood, Floods, Carried
      <4>2. Few(C) => done[j][m.from] = 0
        BY <2>1, <3>2, <4>1, OnePushStep, Zenon
      <4>3. m.from \in counted[m.to] /\ (Few(counted[m.to]) => done[m.to][m.from] = 0)
        BY <2>1, <4>1, <4>2, Zenon
      <4>4. QED
        BY <3>2, <4>3, <1>BooksSyncDone, Zenon
    <3>3. CASE ~ Set(m.to, m) /\ ~ SyncDone(m.to, m)
      <4>1. UNCHANGED <<pending, syncing, done, counted, early>> /\ main' = main
        BY <2>3, <3>3, Zenon DEF Hello, Ok, NodeIn, NodeInNew, Push, sync, past
      <4>2. QED
        BY <4>1, <1>BooksClosed, Zenon
    <3>4. QED
      BY <3>1, <3>2, <3>3, Zenon
  <2>9. QED
    BY <2>7, <2>8, Zenon

\* Main threads during a join.
<1>MainJoins.
      ASSUME Types, Types', Running, NEW j \in Server, NEW C \in SUBSET Server, Joins(j, C),
             \A s \in Server : Books(s), \A s \in Server \ Started : Blank(s),
             NEW s \in Server, Announce(s) \/ Connect(s) \/ Connected(s)
      PROVE  Joins(j, C)' /\ \A t \in Server : Books(t)'
  <2> USE <1>MainJoins
  <2>1. UNCHANGED <<pending, syncing, done, counted, early>>
    BY Zenon DEF Announce, Connect, Connected, sync, past
  <2>2. \A t \in Server : main'[t] \in Fresh => main[t] \in Fresh
    <3>1. PICK x \in {"up", "connects"} : main' = [main EXCEPT ![s] = x]
      BY Zenon DEF Announce, Connect, Connected
    <3>4. x \notin Fresh
      BY Zenon DEF Fresh
    <3>2. \A t \in Server : main'[t] = IF t = s THEN x ELSE main[t]
      BY <3>1, Zenon DEF Types, TypeOK
    <3>3. QED
      BY <3>2, <3>4, Zenon
  <2>3. \A t \in Server : Books(t)'
    BY <2>1, <2>2, <1>BooksClosed, Zenon
  <2>4. CASE Asks(j, C)
    <3>1. main[s] # "greets" /\ connects[s] = <<>> /\ main[s] # "connects"
      BY <2>4, Zenon DEF Joins, Asks, Still, Cluster, Started
    <3>2. QED
      BY <3>1, Zenon DEF Announce, Connect, Connected
  <2>5. CASE Greets(j, C)
    <3>1. connects[s] = <<>> /\ main[s] # "connects"
      BY <2>5, Zenon DEF Greets, Still
    <3>2. Announce(s)
      BY <3>1, Zenon DEF Connect, Connected
    <3>3. QED
      BY <2>3, <2>5, <3>2, <1>GreetsAnnounce, Zenon
  <2>6. CASE Flood(j, C)
    <3>1. PICK b \in C : b = peer[j] /\ (Few(C) => OnePush(j, C, b)) /\ j \notin C
      BY <2>6, Zenon DEF Joins, Flood, Floods
    <3>2. ~ Announce(s)
      BY <2>6, Zenon DEF Announce, Flood, Floods, Cluster, Started
    <3>3. CASE Connect(s)
      <4>1. Flood(j, C)' /\ s \in C
        BY <2>6, <3>3, FloodConnect, Zenon
      <4>2. Few(C) => OnePush(j, C, b)'
        BY <2>6, <3>1, <3>3, <4>1, OnePushStep, Zenon
      <4>3. peer'[j] = peer[j]
        <5>1. s # j /\ peer' = [peer EXCEPT ![s] = Head(connects[s])]
          BY <3>1, <3>3, <4>1, Zenon DEF Connect
        <5>2. peer \in [Server -> Server]
          BY Zenon DEF Types, TypeOK
        <5>3. QED
          BY <5>1, <5>2, Zenon
      <4>4. QED
        BY <2>3, <3>1, <4>1, <4>2, <4>3, <1>FloodStep, Zenon
    <3>4. CASE Connected(s)
      <4>1. Flood(j, C)' /\ s \in C
        BY <2>6, <3>4, FloodConnected, Zenon
      <4>2. Few(C) => OnePush(j, C, b)'
        BY <2>6, <3>1, <3>4, <4>1, OnePushStep, Zenon
      <4>3. peer'[j] = peer[j]
        BY <3>4, Zenon DEF Connected
      <4>4. QED
        BY <2>3, <3>1, <4>1, <4>2, <4>3, <1>FloodStep, Zenon
    <3>5. QED
      BY <3>2, <3>3, <3>4, Zenon
  <2>7. QED
    BY <2>4, <2>5, <2>6, Zenon DEF Joins, Flood

<1> SUFFICES ASSUME Counts, Types, Calm, Solo, [Next]_vars, ~ crossed', faults' = {}
             PROVE  /\ \A s \in Server \ Started' : Blank(s)'
                    /\ \A s \in Server : Books(s)'
                    /\ Settled' \/ \E j \in Server, C \in SUBSET Server : Joins(j, C)'
  BY Zenon DEF Solo
<1>1. ~ crossed /\ faults = {}
  BY History, Zenon
<1>2. /\ Running /\ Types' /\ \A s \in Server \ Started : Blank(s)
      /\ \A s \in Server : Books(s)
      /\ Settled \/ \E j \in Server, C \in SUBSET Server : Joins(j, C)
  BY <1>1, NobodyDown, TypesStep, Zenon DEF Solo
<1>3. \A s \in Server \ Started' : Blank(s)'
  BY <1>2, <1>BlankKept, Zenon
<1>4. ASSUME NEW m \in Mail, Handle(m.to, m)
      PROVE  /\ \A s \in Server : Books(s)'
             /\ \E j \in Server, C \in SUBSET Server : Joins(j, C)'
  <2>1. ~ Settled
    BY <1>4, Zenon DEF Settled
  <2>2. PICK j \in Server, C \in SUBSET Server : Joins(j, C)
    BY <1>2, <2>1, Zenon
  <2>3. Asks(j, C) \/ Greets(j, C) \/ Flood(j, C)
    BY <2>2, Zenon DEF Joins, Flood
  <2>4. QED
    BY <1>2, <1>4, <2>2, <2>3, <1>HandleAsks, <1>HandleGreets, <1>HandleFlood, Zenon
<1>5. ASSUME NEW s \in Server, Announce(s) \/ Connect(s) \/ Connected(s)
      PROVE  /\ \A t \in Server : Books(t)'
             /\ \E j \in Server, C \in SUBSET Server : Joins(j, C)'
  <2>1. ~ Settled
    BY <1>5, Zenon DEF Settled, Still, Announce, Connect, Connected, Started
  <2>2. PICK j \in Server, C \in SUBSET Server : Joins(j, C)
    BY <1>2, <2>1, Zenon
  <2>3. QED
    BY <1>2, <1>5, <2>2, <1>MainJoins, Zenon
<1>6. ASSUME NEW s \in Server, NEW t \in Server, Ask(s, t)
      PROVE  /\ \A u \in Server : Books(u)'
             /\ \E j \in Server, C \in SUBSET Server : Joins(j, C)'
  <2>1. Quiet
    BY <1>6, Zenon DEF Ask
  <2>2. Settled
    BY <1>2, <2>1, JoinEnds, Zenon
  <2>3. PICK C \in SUBSET Server : C = Started
    BY Zenon DEF Started
  <2>4. Joins(s, C)'
    BY <1>2, <1>6, <2>2, <2>3, <1>SettledAsk, Zenon
  <2>5. UNCHANGED <<pending, syncing, done, counted, early>>
    BY <1>6, Zenon DEF Ask, sync
  <2>6. \A u \in Server : main'[u] \in Fresh => main[u] \in Fresh
    BY <1>6, Zenon DEF Ask, Types, TypeOK, Fresh
  <2>7. \A u \in Server : Books(u)'
    BY <1>2, <2>5, <2>6, <1>BooksClosed, Zenon
  <2>8. QED
    BY <2>4, <2>7, Zenon
<1>7. ASSUME UNCHANGED vars
      PROVE  /\ \A s \in Server : Books(s)'
             /\ Settled' \/ \E j \in Server, C \in SUBSET Server : Joins(j, C)'
  <2>1. UNCHANGED unstored
    BY <1>7, Zenon DEF vars, unstored
  <2>2. QED
    BY <2>1, SoloSame, Zenon DEF Solo
<1>8. QED
  BY <1>2, <1>3, <1>4, <1>5, <1>6, <1>7, FaultFree, Zenon

-----------------------------------------------------------------------------
(* The client.                                                             *)

INSTANCE FiniteSetTheorems

\* There are finitely many servers.
LEMMA CountsHold == Counts
<1> SUFFICES ASSUME NEW S \in SUBSET Server
             PROVE  /\ Cardinality(S) \in Nat /\ (Cardinality(S) = 0 <=> S = {})
                    /\ \A x \in S : Cardinality(S \ {x}) = Cardinality(S) - 1
  BY Zenon DEF Counts
<1>1. IsFiniteSet(S)
  BY JoinAssumption, FS_Subset, Zenon
<1>2. Cardinality(S) \in Nat /\ (Cardinality(S) = 0 <=> S = {})
  BY <1>1, FS_CardinalityType, FS_EmptySet, Zenon
<1>3. \A x \in S : Cardinality(S \ {x}) = Cardinality(S) - 1
  BY <1>1, FS_RemoveElement, Zenon
<1>4. QED
  BY <1>2, <1>3, Zenon

Invariants == Types /\ Calm /\ Lone /\ Solo /\ Cross /\ key \in Keys

\* The founders know each other.
LEMMA InitInvariants == RoutingInit => Invariants
<1> SUFFICES ASSUME RoutingInit
             PROVE  Invariants
  BY Zenon
<1>1. PICK F \in SUBSET Server : F = case.founders /\ F # {}
  BY JoinAssumption, Zenon DEF RoutingInit, Init
<1>2. /\ main = [s \in Server |-> IF s \in F THEN "up" ELSE "off"]
      /\ topo = [s \in Server |-> IF s \in F THEN F ELSE {s}]
      /\ conn = [s \in Server |-> IF s \in F THEN F \ {s} ELSE {}]
      /\ gossip = [s \in Server |-> {}] /\ connects = [s \in Server |-> <<>>]
  BY <1>1, Zenon DEF RoutingInit, Init
<1>3. Mail = {}
  BY DEF RoutingInit, Init, Mail
<1>4. Range(<<>>) = {}
  BY DEF Range
<1>5. Named = {} /\ Started = F
  BY <1>2, <1>3, <1>4, Zenon DEF Named, Started
<1>6. Types
  BY InitTypes, Zenon DEF RoutingInit
<1>7. Calm
  BY <1>2, <1>5, Zenon DEF Calm
<1>8. Lone
  BY <1>1, <1>2, <1>5, Zenon DEF Lone, Only
<1>9. Solo
  <2>1. \A s \in Server \ Started : Blank(s)
    BY <1>2, <1>5, Zenon DEF Blank
  <2>2. Settled
    BY <1>2, <1>3, <1>5, Zenon DEF Settled, Still
  <2>3. ASSUME NEW s \in Server
        PROVE  Books(s)
    <3>1. /\ pending[s] = 0 /\ counted[s] = {} /\ early[s] = {}
          /\ \A t \in Server : done[s][t] = 0
      BY Zenon DEF RoutingInit, Init
    <3>2. ~ Doubled(s)
      BY <3>1 DEF Doubled
    <3>3. Cardinality({t \in counted[s] : done[s][t] = 0}) = 0
      BY <3>1, CountsHold, Zenon DEF Counts
    <3>4. QED
      BY <3>1, <3>2, <3>3, Zenon DEF Books
  <2>4. QED
    BY <2>1, <2>2, <2>3, Zenon DEF Solo
<1>10. key \in Keys
  BY Zenon DEF RoutingInit
<1>11. Cross
  BY CrossInit, Zenon DEF RoutingInit
<1>12. QED
  BY <1>6, <1>7, <1>8, <1>9, <1>10, <1>11, Zenon DEF Invariants

\* The client changes nothing but the keys that a server holds.
LEMMA ClientSteps ==
    ASSUME Types, key \in Keys, ClientNext
    PROVE  UNCHANGED unstored /\ store' \in [Server -> SUBSET Keys] /\ key' = key
<1>1. CASE Start \/ RefreshTopology
  BY <1>1, Zenon DEF Start, RefreshTopology, vars, unstored, Types, TypeOK
<1>2. CASE Write \/ Retry
  <2>1. Sends /\ key' = key
    BY <1>2, Zenon DEF Write, Retry
  <2>2. UNCHANGED unstored
    BY <2>1, Zenon DEF Sends, unstored
  <2>3. store' = store \/ store' = [store EXCEPT ![Target] = @ \cup {key}]
    BY <2>1, Zenon DEF Sends
  <2>4. store \in [Server -> SUBSET Keys]
    BY Zenon DEF Types, TypeOK
  <2>5. store' \in [Server -> SUBSET Keys]
    BY <2>3, <2>4, Zenon
  <2>6. QED
    BY <2>1, <2>2, <2>5, Zenon
<1>3. QED
  BY <1>1, <1>2, Zenon DEF ClientNext

\* Nor does Cross depend on the keys.
LEMMA CrossStored ==
    ASSUME Cross, UNCHANGED unstored
    PROVE  Cross'
<1> SUFFICES ASSUME faults' = {}
             PROVE  \E r \in [Server -> Nat], q \in [Server -> Server], k \in Nat :
                        Crossing(r, q, k)'
  BY Zenon DEF Cross
<1>1. UNCHANGED <<main, peer, views, connects, case, net>> /\ faults' = faults
  BY Zenon DEF unstored, past
<1>2. PICK rank \in [Server -> Nat], par \in [Server -> Server], n \in Nat :
          Crossing(rank, par, n)
  BY <1>1, Zenon DEF Cross
<1>3. Crossing(rank, par, n)'
  BY <1>1, <1>2, CrossSame, Zenon
<1>4. QED
  BY <1>2, <1>3, Zenon

\* The invariants do not depend on the keys, but for their type.
LEMMA StoreOnly ==
    ASSUME Invariants, UNCHANGED unstored, store' \in [Server -> SUBSET Keys], key' = key
    PROVE  Invariants'
<1>1. /\ UNCHANGED <<main, peer, topo, conn, gossip, connects, net>>
      /\ UNCHANGED <<pending, syncing, done, case, counted, early, crossed, faults>>
  BY Zenon DEF unstored, views, sync, past
<1>2. TypeOK'
  <2>1. /\ main \in [Server -> Away \cup {"asks", "greets", "up", "connects", "stuck"}]
        /\ peer \in [Server -> Server]
        /\ topo \in [Server -> SUBSET Server] /\ conn \in [Server -> SUBSET Server]
        /\ \A s \in Server : s \in topo[s] /\ s \notin conn[s]
        /\ connects \in [Server -> Seq(Server)]
        /\ pending \in [Server -> Int] /\ syncing \in [Server -> BOOLEAN]
    BY Zenon DEF Invariants, Types, TypeOK
  <2>2. QED
    BY <1>1, <2>1, Zenon DEF TypeOK
<1>3. HistoryTypes'
  BY <1>1, Zenon DEF Invariants, Types, HistoryTypes
<1>4. Mail' = Mail
  BY <1>1, Zenon DEF Mail
<1>5. Bagged' /\ MailTypes'
  BY <1>1, <1>4, Zenon DEF Invariants, Types, Bagged, MailTypes, Good
<1>6. OtherPeer'
  BY <1>1, Zenon DEF Invariants, Types, OtherPeer
<1>7. Named' = Named
  BY <1>1, <1>4, Zenon DEF Named
<1>8. Calm'
  BY <1>1, <1>7, Zenon DEF Invariants, Calm
<1>9. Lone'
  BY <1>1, <1>7, Zenon DEF Invariants, Lone, Only
<1>10. Solo'
  BY SoloSame, Zenon DEF Invariants
<1>11. Cross'
  BY CrossStored, Zenon DEF Invariants
<1>12. Types'
  BY <1>2, <1>3, <1>5, <1>6, Zenon DEF Types
<1>13. QED
  BY <1>8, <1>9, <1>10, <1>11, <1>12, Zenon DEF Invariants

\* Neither a server nor a client breaks them.
LEMMA InvariantsStep == Invariants /\ [RoutingNext]_all => Invariants'
<1> SUFFICES ASSUME Invariants, [RoutingNext]_all
             PROVE  Invariants'
  BY Zenon
<1>1. CASE [Next]_vars /\ UNCHANGED client
  <2>1. Types' /\ Calm' /\ Lone' /\ Solo' /\ Cross'
    BY <1>1, CountsHold, TypesStep, CalmLone, SoloStep, CrossStep, Zenon
       DEF Invariants
  <2>2. QED
    BY <1>1, <2>1, Zenon DEF Invariants, client
<1>2. CASE ClientNext
  BY <1>2, ClientSteps, StoreOnly, Zenon DEF Invariants
<1>3. QED
  BY <1>1, <1>2, Zenon DEF RoutingNext, all

\* The invariants hold with and without a client.
THEOREM JoinInvariants == RoutingSpec => []Invariants
<1>1. RoutingInit => Invariants
  BY InitInvariants, Zenon
<1>2. Invariants /\ [RoutingNext]_all => Invariants'
  BY InvariantsStep, Zenon
<1>3. QED
  BY <1>1, <1>2, PTL DEF RoutingSpec

-----------------------------------------------------------------------------
(* What they imply.                                                        *)

\* Among servers of which some have ranks, one has the least.
LEMMA LeastRank ==
    ASSUME NEW rank \in [Server -> Nat], NEW S \in SUBSET Server, S # {}
    PROVE  \E v \in S : \A w \in S : ~ (rank[w] < rank[v])
<1> PICK T : T = {rank[v] : v \in S}
  BY Zenon
<1>1. T \subseteq Nat /\ T # {}
  BY Zenon
<1>2. PICK x \in T : \A y \in T : ~ <<y, x>> \in OpToRel(<, Nat)
  BY <1>1, NatLessThanWellFounded, WFMin, ZenonT(30)
<1>3. PICK v \in S : x = rank[v]
  BY Zenon
<1>4. ASSUME NEW w \in S
      PROVE  ~ (rank[w] < rank[v])
  <2>1. rank[w] \in T /\ rank[w] \in Nat /\ rank[v] \in Nat
    BY Zenon
  <2>2. QED
    BY <1>2, <1>3, <2>1, ZenonT(30) DEF OpToRel
<1>5. QED
  BY <1>4, Zenon

\* Once nothing is under way, all that announced themselves before u have heard
\* of it: a server on the way from u to the founders of least rank is a founder,
\* all founders have heard then, and so has whoever hangs on one that has.
LEMMA AllHeard ==
    ASSUME NEW rank, NEW par, NEW n, Crossing(rank, par, n), Mail = {},
           NEW u \in Born, NEW v \in Members, rank[v] < rank[u]
    PROVE  u \in gossip[v]
<1>1. /\ rank \in [Server -> Nat] /\ par \in [Server -> Server]
      /\ \A f \in Founders : rank[f] = 0
      /\ \A c \in Born : 0 < rank[c] /\ par[c] \in Members /\ rank[par[c]] < rank[c]
  BY Zenon DEF Crossing, Tree
<1>2. ASSUME NEW w \in Server, NEW x \in Server, Near(par, w, x), rank[x] < rank[u],
             u \in gossip[w]
      PROVE  u \in gossip[x]
  BY <1>2, Zenon DEF Crossing, Spread, Tells
<1>3. /\ Members \subseteq Server /\ Born \subseteq Members /\ u \in gossip[u]
      /\ \A s \in Members : s \in Born \/ s \in Founders
      /\ \A f \in Server : f \in Founders => f \in Members
  BY Zenon DEF Members, Born, Crossing, Talk, Knows
<1>4. PICK R \in SUBSET Server :
          R = {s \in Members : u \in gossip[s] /\ ~ (rank[u] < rank[s])}
  BY <1>3, Zenon
<1>5. u \in R
  <2>1. ~ (rank[u] < rank[u])
    BY <1>1, <1>3
  <2>2. QED
    BY <1>3, <1>4, <2>1, Zenon
<1>6. PICK w \in R : \A x \in R : ~ (rank[x] < rank[w])
  BY <1>1, <1>5, LeastRank, Zenon
<1>7. w \in Founders
  <2> SUFFICES ASSUME w \notin Founders
               PROVE  FALSE
    BY Zenon
  <2>1. w \in Born /\ w \in Server /\ u \in gossip[w] /\ ~ (rank[u] < rank[w])
    BY <1>3, <1>4, Zenon
  <2>2. par[w] \in Members /\ par[w] \in Server /\ rank[par[w]] < rank[w]
    BY <1>1, <1>3, <2>1, Zenon
  <2>3. rank[par[w]] < rank[u] /\ ~ (rank[u] < rank[par[w]])
    BY <1>1, <1>3, <2>1, <2>2
  <2>4. Near(par, w, par[w])
    BY <2>1, Zenon DEF Near
  <2>5. par[w] \in R
    BY <1>2, <1>4, <2>1, <2>2, <2>3, <2>4, Zenon
  <2>6. QED
    BY <1>6, <2>2, <2>5, Zenon
<1>8. ASSUME NEW f \in Server, f \in Founders
      PROVE  u \in gossip[f]
  <2>1. rank[f] < rank[u]
    BY <1>1, <1>8, Zenon
  <2>2. CASE f = w
    BY <1>4, <2>2, Zenon
  <2>3. CASE f # w
    <3>1. Near(par, w, f)
      BY <1>7, <1>8, <2>3, Zenon DEF Near
    <3>2. QED
      BY <1>2, <1>4, <2>1, <3>1, Zenon
  <2>4. QED
    BY <2>2, <2>3, Zenon
<1>9. SUFFICES ASSUME u \notin gossip[v]
               PROVE  FALSE
  BY Zenon
<1>10. PICK D \in SUBSET Server :
           D = {s \in Members : u \notin gossip[s] /\ rank[s] < rank[u]}
  BY <1>3, Zenon
<1>11. PICK d \in D : \A x \in D : ~ (rank[x] < rank[d])
  <2>1. D # {}
    BY <1>9, <1>10, Zenon
  <2>2. QED
    BY <1>1, <2>1, LeastRank, Zenon
<1>12. d \in Born /\ d \in Server /\ u \notin gossip[d] /\ rank[d] < rank[u]
  BY <1>3, <1>8, <1>10, Zenon
<1>13. par[d] \in Members /\ par[d] \in Server /\ rank[par[d]] < rank[d]
  BY <1>1, <1>3, <1>12, Zenon
<1>14. rank[par[d]] < rank[u]
  BY <1>1, <1>3, <1>12, <1>13
<1>15. u \in gossip[par[d]]
  BY <1>10, <1>11, <1>13, <1>14, Zenon
<1>16. Near(par, par[d], d)
  BY <1>12, Zenon DEF Near
<1>17. QED
  BY <1>2, <1>12, <1>13, <1>15, <1>16, Zenon

\* Of two servers, the one that announced itself first knows the other.
LEMMA CrossKnown ==
    ASSUME NEW rank, NEW par, NEW n, Crossing(rank, par, n), Quiet,
           NEW u \in Born, NEW v \in Members, rank[v] < rank[u]
    PROVE  u \in topo[v] /\ u \in conn[v] /\ v \in conn[u]
<1>1. Mail = {}
  BY DEF Quiet, Mail
<1>2. u \in Server /\ v \in Server /\ u # v
  <2>1. u \in Server /\ v \in Server
    BY Zenon DEF Born, Members
  <2>2. rank \in [Server -> Nat]
    BY Zenon DEF Crossing, Tree
  <2>3. QED
    BY <2>1, <2>2
<1>3. connects[v] = <<>> /\ Range(<<>>) = {} /\ ~ Waits(v, u) /\ ~ Waits(u, v)
  <2>1. Range(<<>>) = {}
    BY DEF Range
  <2>2. QED
    BY <1>2, <2>1, Zenon DEF Quiet, Waits
<1>4. u \in gossip[v]
  BY <1>1, AllHeard, Zenon
<1>5. u \in topo[v] /\ u \in conn[v]
  BY <1>2, <1>3, <1>4, Zenon DEF Crossing, Talk, Knows
<1>6. v \in conn[u]
  <2>1. Mutual(v, u) /\ ~ Hail(v, u)
    BY <1>1, <1>2, Zenon DEF Crossing, Talk, Hail
  <2>2. QED
    BY <1>3, <1>5, <2>1, Zenon DEF Mutual
<1>7. QED
  BY <1>5, <1>6, Zenon

\* One of any two is a founder or they announced themselves at different times.
LEMMA CrossKnows == Types /\ Cross => OneKnowsTheOther
<1> SUFFICES ASSUME Types, Cross, Quiet, faults = {}, NEW s \in Up, NEW t \in Up
             PROVE  (s \in topo[t] \/ t \in topo[s]) /\ (s # t => s \in conn[t])
  BY Zenon DEF OneKnowsTheOther
<1>1. PICK rank \in [Server -> Nat], par \in [Server -> Server], n \in Nat :
          Crossing(rank, par, n)
  BY Zenon DEF Cross
<1>2. s \in Members /\ t \in Members /\ s \in Server /\ t \in Server
  BY Zenon DEF Up, Members
<1>3. CASE s \in Founders /\ t \in Founders
  <2>1. t \in topo[s]
    BY <1>1, <1>2, <1>3, Zenon DEF Crossing, Talk, Knows
  <2>2. s # t => Near(par, t, s)
    BY <1>3, Zenon DEF Near
  <2>3. QED
    BY <1>1, <1>2, <2>1, <2>2, Zenon DEF Crossing, Linked
<1>4. CASE s \in Born /\ s # t
  <2>1. rank[s] < rank[t] \/ rank[t] < rank[s]
    <3>1. rank[s] # rank[t] /\ rank[s] \in Nat /\ rank[t] \in Nat
      BY <1>1, <1>2, <1>4 DEF Crossing, Tree, Born
    <3>2. QED
      BY <3>1
  <2>2. rank[s] < rank[t] => t \in Born
    BY <1>1, <1>2 DEF Crossing, Tree, Born
  <2>3. QED
    BY <1>1, <1>2, <1>4, <2>1, <2>2, CrossKnown, Zenon
<1>5. CASE t \in Born /\ s # t
  <2>1. rank[s] < rank[t] \/ rank[t] < rank[s]
    <3>1. rank[s] # rank[t] /\ rank[s] \in Nat /\ rank[t] \in Nat
      BY <1>1, <1>2, <1>5 DEF Crossing, Tree, Born
    <3>2. QED
      BY <3>1
  <2>2. rank[t] < rank[s] => s \in Born
    BY <1>1, <1>2 DEF Crossing, Tree, Born
  <2>3. QED
    BY <1>1, <1>2, <1>5, <2>1, <2>2, CrossKnown, Zenon
<1>6. QED
  BY <1>2, <1>3, <1>4, <1>5, Zenon DEF Born, Types, TypeOK

\* Three different servers are more than two.
LEMMA Three ==
    ASSUME NEW T \in SUBSET Server, ~ Few(T)
    PROVE  Cardinality(T) > 2
<1>1. PICK x \in T, y \in T, z \in T : x # y /\ y # z /\ x # z
  BY Zenon DEF Few
<1>2. IsFiniteSet({x}) /\ Cardinality({x}) = 1
  BY FS_Singleton, Zenon
<1>3. IsFiniteSet({x} \cup {y}) /\ Cardinality({x} \cup {y}) = 2
  <2>1. y \notin {x}
    BY <1>1, Zenon
  <2>2. /\ IsFiniteSet({x} \cup {y})
        /\ Cardinality({x} \cup {y}) = Cardinality({x}) + 1
    BY <1>2, <2>1, FS_AddElement, Zenon
  <2>3. QED
    BY <1>2, <2>2
<1>4. IsFiniteSet({x} \cup {y} \cup {z}) /\ Cardinality({x} \cup {y} \cup {z}) = 3
  <2>1. z \notin {x} \cup {y}
    BY <1>1, Zenon
  <2>2. /\ IsFiniteSet({x} \cup {y} \cup {z})
        /\ Cardinality({x} \cup {y} \cup {z}) = Cardinality({x} \cup {y}) + 1
    BY <1>3, <2>1, FS_AddElement, Zenon
  <2>3. QED
    BY <1>3, <2>2
<1>5. IsFiniteSet(T)
  BY JoinAssumption, FS_Subset, Zenon
<1>6. {x} \cup {y} \cup {z} \subseteq T
  BY Zenon
<1>7. Cardinality({x} \cup {y} \cup {z}) <= Cardinality(T) /\ Cardinality(T) \in Nat
  BY <1>5, <1>6, FS_Subset, FS_CardinalityType, Zenon
<1>8. QED
  BY <1>4, <1>7

\* What the books say of a server that no longer syncs.
LEMMA BooksWait ==
    ASSUME Types, NEW j \in Server, Books(j)
    PROVE  \/ syncing[j]
           \/ \A t \in counted[j] : done[j][t] > 0
           \/ Doubled(j) /\ Cardinality(counted[j]) > 2
<1>1. counted[j] \in SUBSET Server /\ done[j] \in [Server -> Nat]
  BY Zenon DEF Types, HistoryTypes
<1>2. CASE Doubled(j)
  BY <1>1, <1>2, Three, Zenon DEF Books
<1>3. CASE ~ Doubled(j) /\ ~ syncing[j]
  <2>1. PICK T \in SUBSET Server : T = {t \in counted[j] : done[j][t] = 0}
    BY <1>1, Zenon
  <2>2. Cardinality(T) = 0
    BY <1>3, <2>1, Zenon DEF Books
  <2>4. T = {}
    BY <2>2, CountsHold, Zenon DEF Counts
  <2>5. QED
    BY <1>1, <2>1, <2>4
<1>4. QED
  BY <1>2, <1>3, Zenon

\* A join that is over has told everybody.
LEMMA SoloAgrees ==
    ASSUME Types, Calm, Solo
    PROVE  JoinsAgree
<1> SUFFICES ASSUME Quiet, ~ crossed, faults = {}
             PROVE  \A s \in Up : topo[s] = Up /\ conn[s] = Up \ {s}
  BY Zenon DEF JoinsAgree
<1>1. Running
  BY NobodyDown, Zenon
<1>2. Settled
  BY JoinEnds, Zenon DEF Solo
<1>3. QED
  BY <1>1, <1>2, SettledAgree, Zenon

\* What servers, messages and histories are made of.
THEOREM TypesCorrect == RoutingSpec => []TypeOK
<1>1. Invariants => TypeOK
  BY Zenon DEF Invariants, Types
<1>2. QED
  BY <1>1, JoinInvariants, PTL

\* Joins one after the other end with every server known to every other one, for
\* any number of servers and joins, whoever each of them asked.
THEOREM JoinsAlwaysAgree == RoutingSpec => []JoinsAgree
<1>1. Invariants => JoinsAgree
  BY SoloAgrees, Zenon DEF Invariants
<1>2. QED
  BY <1>1, JoinInvariants, PTL

\* Main threads never wait for each other in a circle unless joins cross, whatever
\* is killed or shut down.
THEOREM NobodyWaitsInACircle == RoutingSpec => []NoCircleOfWaits
<1>1. Invariants => NoCircleOfWaits
  BY LoneNoCircle, Zenon DEF Invariants
<1>2. QED
  BY <1>1, JoinInvariants, PTL

\* A server that counts SYNCDONEs waits for everybody, or one of three or more
\* servers took it in twice.
THEOREM SyncAlwaysWaitsForAll == RoutingSpec => []SyncWaitsForAll
<1>1. Invariants => SyncWaitsForAll
  BY BooksWait, Zenon DEF Invariants, Solo, SyncWaitsForAll
<1>2. QED
  BY <1>1, JoinInvariants, PTL

\* What is pushed to a server before its sender is done, it refuses.
THEOREM PushedKeysAlwaysRefused == RoutingSpec => []PushedKeysRefused
<1>1. Invariants => PushedKeysRefused
  BY Zenon DEF Invariants, Solo, Books, PushedKeysRefused
<1>2. QED
  BY <1>1, JoinInvariants, PTL

\* A server that ends while nothing is under way takes no other one with it, in
\* crossed joins as well.
THEOREM CalmFaultsAreContained == RoutingSpec => []CalmFaultsContained
<1>1. Invariants => CalmFaultsContained
  BY Zenon DEF Invariants, Calm, CalmFaultsContained
<1>2. QED
  BY <1>1, JoinInvariants, PTL

\* Of any two servers that run once nothing is under way one knows the other, and
\* each is connected to the other, however many joins have crossed, as long as
\* nobody has left or failed.
THEOREM OneAlwaysKnowsTheOther == RoutingSpec => []OneKnowsTheOther
<1>1. Invariants => OneKnowsTheOther
  BY CrossKnows, Zenon DEF Invariants
<1>2. QED
  BY <1>1, JoinInvariants, PTL

-----------------------------------------------------------------------------
(* The retry of a client.                                                  *)

\* While nobody fails, servers forget nobody.  The client knows a part of what the
\* server it asks knows, and after the refresh all that one knew when the write was
\* refused; if the servers agreed then, so did all that it knew.
Follows ==
    faults = {} =>
        /\ step # "off" =>
               first \in Server /\ main[first] # "off" /\ view \subseteq topo[first]
        /\ step \in {"moved", "retry"} =>
               /\ seen \in [Server -> SUBSET Server]
               /\ \A s \in Server : s \in seen[s] /\ seen[s] \subseteq topo[s]
               /\ agreed => \A t \in seen[first] : seen[t] = seen[first]
        /\ step = "retry" => seen[first] \subseteq view
        /\ step = "refused" => ~ agreed

\* The least of some numbers.
LEMMA LeastIndex ==
    ASSUME NEW P \in SUBSET Nat, P # {}
    PROVE  Min(P) \in P
<1>1. PICK p \in P : \A q \in P : ~ <<q, p>> \in OpToRel(<, Nat)
  BY NatLessThanWellFounded, WFMin, ZenonT(30)
<1>2. ASSUME NEW q \in P
      PROVE  p <= q
  <2>1. p \in Nat /\ q \in Nat
    BY Zenon
  <2>2. ~ (q < p)
    BY <1>1, <2>1, ZenonT(30) DEF OpToRel
  <2>3. QED
    BY <2>1, <2>2
<1>3. QED
  BY <1>2, ZenonT(30) DEF Min

\* The ring gives a key to one of the servers that are on it.
LEMMA OwnerOnRing ==
    ASSUME NEW k \in Keys, NEW T \in SUBSET Server, T # {}
    PROVE  Owner(k, T) \in T
<1>1. PICK N : N = Cardinality(Server)
  BY Zenon
<1>2. N \in Nat
  BY <1>1, JoinAssumption, FS_CardinalityType, Zenon
<1>3. IsFiniteSet(1 .. N) /\ Cardinality(1 .. N) = N
  BY <1>2, FS_Interval
<1>4. PICK f : f = Walk[k] /\ f \in [1 .. N -> Server] /\ IsInjective(f)
  BY <1>1, JoinAssumption, Zenon
<1>5. f \in Injection(1 .. N, Server)
  BY <1>4, Zenon DEF Injection
<1>6. f \in Surjection(1 .. N, Server)
  BY <1>1, <1>3, <1>5, JoinAssumption, FS_Injection, Zenon
<1>7. PICK P : P = {i \in 1 .. N : f[i] \in T}
  BY Zenon
<1>12. P \in SUBSET Nat
  BY <1>2, <1>7
<1>8. P # {}
  BY <1>6, <1>7, Zenon DEF Surjection
<1>9. Min(P) \in P
  BY <1>8, <1>12, LeastIndex, Zenon
<1>10. Owner(k, T) = f[Min(P)]
  BY <1>4, <1>7, Zenon DEF Owner
<1>11. QED
  BY <1>7, <1>9, <1>10, Zenon

\* Servers that run do not forget each other, nor unstart.
LEMMA TopoGrows ==
    ASSUME Types, Running, Calm, [Next]_vars, faults' = {}
    PROVE  \A s \in Server : /\ topo[s] \subseteq topo'[s]
                             /\ main[s] # "off" => main'[s] # "off"
<1>1. ASSUME NEW m \in Mail, Handle(m.to, m)
      PROVE  \A s \in Server : /\ topo[s] \subseteq topo'[s]
                               /\ main[s] # "off" => main'[s] # "off"
  <2>1. m.to \in Server
    BY Zenon DEF Types, MailTypes, Good, Message
  <2>2. \/ topo' = topo \/ topo' = [topo EXCEPT ![m.to] = @ \cup m.who]
    BY <1>1, Zenon DEF Handle, GetNetwork, Greet, Hello, Ok, NodeIn, NodeInNew, Push,
       Set, SyncDone,
                NodeOut, views
  <2>3. \/ main' = main \/ main' = [main EXCEPT ![m.to] = "greets"]
    BY <1>1, Zenon DEF Handle, GetNetwork, Greet, Hello, Ok, NodeIn, NodeInNew, Push,
       Set, SyncDone,
                NodeOut
  <2>4. \A s \in Server : topo[s] \subseteq topo'[s]
    <3>1. topo \in [Server -> SUBSET Server]
      BY Zenon DEF Types, TypeOK
    <3>2. QED
      BY <2>1, <2>2, <3>1, Zenon
  <2>5. \A s \in Server : main[s] # "off" => main'[s] # "off"
    BY <2>1, <2>3, Zenon DEF Types, TypeOK
  <2>6. QED
    BY <2>4, <2>5, Zenon
<1>2. ASSUME NEW t \in Server,
             Announce(t) \/ Connect(t) \/ Connected(t) \/ \E u \in Server : Ask(t, u)
      PROVE  \A s \in Server : /\ topo[s] \subseteq topo'[s]
                               /\ main[s] # "off" => main'[s] # "off"
  <2>1. topo' = topo /\ \E x \in {"up", "connects", "asks"} : main' = [main EXCEPT ![t] = x]
    BY <1>2, Zenon DEF Announce, Connect, Connected, Ask, views
  <2>2. QED
    BY <2>1, Zenon DEF Types, TypeOK
<1>3. ASSUME UNCHANGED vars
      PROVE  \A s \in Server : /\ topo[s] \subseteq topo'[s]
                               /\ main[s] # "off" => main'[s] # "off"
  BY <1>3, Zenon DEF vars, views
<1>4. QED
  BY <1>1, <1>2, <1>3, FaultFree, Zenon

\* Steps of the servers.
LEMMA FollowsServers ==
    ASSUME Types, Running, Follows, faults = {}, UNCHANGED client,
           \A s \in Server : /\ topo[s] \subseteq topo'[s]
                             /\ main[s] # "off" => main'[s] # "off"
    PROVE  Follows'
<1>1. UNCHANGED <<step, view, first, seen, agreed>>
  BY Zenon DEF client
<1>2. step # "off" =>
          first' \in Server /\ main'[first'] # "off" /\ view' \subseteq topo'[first']
  BY <1>1, Zenon DEF Follows
<1>3. step \in {"moved", "retry"} =>
          /\ seen' \in [Server -> SUBSET Server]
          /\ \A s \in Server : s \in seen'[s] /\ seen'[s] \subseteq topo'[s]
          /\ agreed' => \A t \in seen'[first'] : seen'[t] = seen'[first']
  BY <1>1, Zenon DEF Follows
<1>4. (step = "retry" => seen'[first'] \subseteq view') /\ (step = "refused" => ~ agreed')
  BY <1>1, Zenon DEF Follows
<1>5. QED
  BY <1>1, <1>2, <1>3, <1>4, Zenon DEF Follows

\* The client takes over what the first server knows.
LEMMA FollowsStart ==
    ASSUME Types, Follows, Start
    PROVE  Follows'
<1>1. PICK s \in Server : main[s] = "up" /\ first' = s /\ view' = topo[s]
  BY Zenon DEF Start
<1>2. step' \in {"gone", "ready"} /\ UNCHANGED <<main, topo>>
  BY Zenon DEF Start, vars, views
<1>3. QED
  BY <1>1, <1>2, Zenon DEF Follows

\* A refused write remembers what every server knew.
LEMMA FollowsWrite ==
    ASSUME Types, Follows, faults = {}, Write
    PROVE  Follows'
<1>1. /\ step \in {"ready", "refused"} /\ step' \in {"moved", "ready"}
      /\ seen' = topo /\ agreed' = Agreed /\ UNCHANGED <<view, first, main, topo>>
  BY Zenon DEF Write, Sends, views
<1>2. first \in Server /\ main[first] # "off" /\ view \subseteq topo[first]
  BY <1>1, Zenon DEF Follows
<1>3. Agreed => \A t \in topo[first] : topo[t] = topo[first]
  BY <1>2, Zenon DEF Agreed
<1>4. topo \in [Server -> SUBSET Server] /\ \A s \in Server : s \in topo[s]
  BY Zenon DEF Types, TypeOK
<1>5. QED
  BY <1>1, <1>2, <1>3, <1>4, Zenon DEF Follows

\* The refresh adds what the first server knows by now.
LEMMA FollowsRefresh ==
    ASSUME Types, Follows, faults = {}, RefreshTopology
    PROVE  Follows'
<1>1. /\ step = "moved" /\ step' \in {"gone", "retry"} /\ view' = view \cup topo[first]
      /\ UNCHANGED <<first, seen, main, topo>> /\ agreed' = agreed
  BY Zenon DEF RefreshTopology, vars, views
<1>2. /\ first \in Server /\ main[first] # "off" /\ view \subseteq topo[first]
      /\ seen \in [Server -> SUBSET Server]
      /\ \A s \in Server : s \in seen[s] /\ seen[s] \subseteq topo[s]
      /\ agreed => \A t \in seen[first] : seen[t] = seen[first]
  BY <1>1, Zenon DEF Follows
<1>3. QED
  BY <1>1, <1>2, Zenon DEF Follows

\* A client that knows what all servers know finds the one they all name.
LEMMA FollowsRetry ==
    ASSUME Types, Follows, faults = {}, key \in Keys, Retry
    PROVE  Follows'
<1>1. /\ step = "retry" /\ step' \in {"refused", "ready"}
      /\ step' = "refused" => Reply = "MOVED"
      /\ agreed' = (agreed /\ seen = topo)
      /\ UNCHANGED <<view, first, main, topo>>
  BY Zenon DEF Retry, Sends, views
<1>2. /\ first \in Server /\ main[first] # "off" /\ view \subseteq topo[first]
      /\ \A s \in Server : s \in seen[s] /\ seen[s] \subseteq topo[s]
      /\ agreed => \A t \in seen[first] : seen[t] = seen[first]
      /\ seen[first] \subseteq view
  BY <1>1, Zenon DEF Follows
<1>3. ASSUME Reply = "MOVED", agreed, seen = topo
      PROVE  FALSE
  <2>1. PICK T \in SUBSET Server : T = topo[first] /\ T # {}
    BY <1>2, Zenon DEF Types, TypeOK
  <2>2. view = T
    BY <1>2, <1>3, <2>1, Zenon
  <2>3. Target = Owner(key, T) /\ Target \in T
    BY <2>1, <2>2, OwnerOnRing, Zenon DEF Target
  <2>4. topo[Target] = T
    BY <1>2, <1>3, <2>1, <2>3, Zenon
  <2>5. ~ syncing[Target] /\ Refuses(Target, key)
    BY <1>3, Zenon DEF Reply
  <2>6. QED
    BY <2>3, <2>4, <2>5, Zenon DEF Refuses
<1>4. QED
  BY <1>1, <1>2, <1>3, Zenon DEF Follows

\* Neither a server nor a client breaks Follows.
LEMMA FollowsStep == Invariants /\ Follows /\ [RoutingNext]_all => Follows'
<1> SUFFICES ASSUME Invariants, Follows, [RoutingNext]_all, faults' = {}
             PROVE  Follows'
  BY Zenon DEF Follows
<1>1. CASE [Next]_vars /\ UNCHANGED client
  <2>1. faults = {}
    BY <1>1, History, Zenon
  <2>2. Running
    BY <2>1, NobodyDown, Zenon DEF Invariants
  <2>3. QED
    BY <1>1, <2>1, <2>2, TopoGrows, FollowsServers, Zenon DEF Invariants
<1>2. CASE ClientNext
  <2>1. faults = {}
    BY <1>2, ClientSteps, Zenon DEF Invariants, unstored, past
  <2>2. QED
    BY <1>2, <2>1, FollowsStart, FollowsWrite, FollowsRefresh, FollowsRetry, Zenon
       DEF ClientNext, Invariants
<1>3. QED
  BY <1>1, <1>2, Zenon DEF RoutingNext, all

\* One retry is enough for a client if the servers agreed all along.
THEOREM RetryAlwaysLands == RoutingSpec => []RetryLands
<1>1. RoutingInit => Follows
  BY Zenon DEF RoutingInit, Follows
<1>2. Invariants /\ Follows /\ [RoutingNext]_all => Follows'
  BY FollowsStep, Zenon
<1>3. Follows => RetryLands
  BY Zenon DEF Follows, RetryLands
<1>4. QED
  BY <1>1, <1>2, <1>3, JoinInvariants, PTL DEF RoutingSpec
=============================================================================
