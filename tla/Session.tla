------------------------------ MODULE Session -------------------------------
(***************************************************************************)
(* One kvjet server and those who connect to it: the sockets, the RESP     *)
(* texts that travel over them, the main loop that reads and sends, the    *)
(* pool that handles one request per task, and the clients (the            *)
(* constructor of Client, run, benchmark and latencyBenchmark) that send   *)
(* requests and wait for replies.  A peer is another server that has said  *)
(* HELLO and is sent heartbeats.                                           *)
(*                                                                         *)
(* A connection is named after the one who made it.  What the store does   *)
(* with a request is the subject of WritePath; here a request has one      *)
(* reply, and the matter is who gets it.                                   *)
(***************************************************************************)
EXTENDS Parser, FiniteSets, FiniteSetsExt

CONSTANTS Client,      \* those who connect
          Casts,       \* bound: what they are: run, benchmark, latency, or peer
          Fds,         \* the numbers accept may give out, 1 .. n
          Workers,     \* the threads of the pool
          Batches,     \* the batches of requests a client of a kind may send
          BatchSize,   \* batch_size in benchmark
          Rounds,      \* bound: batches of one client of a kind
          Beats,       \* bound: heartbeats
          Room,        \* characters that fit into a socket nobody reads
          Cuts,        \* bound: how much of a text may come before the rest
          Held,        \* what the store holds for a key
          Self         \* the server, as its topology has it

\* What main makes of its arguments.
ClientKinds == {"run", "benchmark", "latency"}

ASSUME SessionAssumption ==
    /\ \A cast \in Casts : /\ cast \in [Client -> ClientKinds \cup {"peer"}]
                           /\ Cardinality({c \in Client : cast[c] = "peer"}) <= 1
    /\ Fds \subseteq Nat \ {0} /\ Workers \in Nat \ {0}

VARIABLES
    kind,       \* what a client is
    phase,      \* of a client: off, net, idle, waiting, or left
    round,      \* batches it has sent
    parser,     \* its Socket::parser()
    remaining,  \* replies it still waits for
    topology,   \* what it took from GETNETWORK
    toServer,   \* text on its way to the server
    toClient,   \* text on its way to it
    reset,      \* the other end will answer what is sent with a reset
    main,       \* the main thread: in its events, sending, or down
    fd,         \* Server::connections: the descriptor of a connection
    reader,     \* the parser of that connection
    tasks,      \* the queue of the pool
    busy,       \* what the workers are handling
    queue,      \* Server::message_queue
    registered, \* Cluster::connections: the descriptor of a peer
    marked,     \* peers in Cluster::heartbeat_time
    beats,
    asked,      \* history: the requests of a connection, in the order sent
    parsed,     \* history: those the server has parsed
    got,        \* history: the replies a client has counted
    stray,      \* history: whose messages a client was sent by mistake
    torn,       \* history: connections that lost a part of a message
    hasty,      \* history: who left and was owed a reply
    partial     \* history: clients that took a part of a reply for all of it

\* What only clients change, and what only the server changes.
clientVars == <<kind, phase, round, parser, remaining, topology, asked, got, partial, hasty>>
serverVars == <<main, fd, reader, tasks, busy, queue, registered, marked, beats, parsed,
                stray, torn>>
vars == <<clientVars, serverVars, toServer, toClient, reset>>
-----------------------------------------------------------------------------
(* Requests and replies                                                    *)

\* Client::handle
Request(command, arguments) == Arr(<<Simple(<<command>>)>> \o arguments)
Get(key) == Request("GET", <<Simple(<<key>>)>>)
Set(key, value) == Request("SET", <<Simple(<<key>>), Bulk(value)>>)
GetNetwork == Request("GETNETWORK", <<>>)
Hello(c) == Request("HELLO", <<Simple(<<c>>)>>)

\* Cluster::sendHeartbeats
Heartbeat == Encode(Request("HEARTBEAT", <<Simple(Decimal(Self.uuid))>>))

\* Handler::GETNETWORK of a server without peers in its topology: itself, and
\* its only group, filled up to three members with zeros.
GETNETWORK ==
    <<"*", "2">> \o EOL \o EncodeTopo(<<Self>>)
        \o <<"*", "1">> \o EOL \o <<"*", "4">> \o EOL \o <<"+", "0">> \o EOL
        \o <<"+">> \o Decimal(Self.uuid) \o EOL
        \o <<"+", "0">> \o EOL \o <<"+", "0">> \o EOL

GET(key) == Encode(IF key \in DOMAIN Held THEN Held[key] ELSE NilBulk)
OK == Encode(Simple(<<"OK">>))

\* Handler::handle, by the name of the command.
Reply(request) ==
    LET command == request.body[1].body[1]
    IN CASE command = "GETNETWORK" -> GETNETWORK
         [] command = "GET" -> GET(request.body[2].body[1])
         [] command \in {"SET", "HELLO"} -> OK

\* The replies to what clients send.
Replies == {Reply(r) : r \in {GetNetwork} \cup
               UNION {{b[i] : i \in 1 .. Len(b)} : b \in UNION {Batches[k] : k \in DOMAIN Batches}}}
-----------------------------------------------------------------------------
Peers == {c \in Client : kind[c] = "peer"}

NoFd == 0      \* not accepted yet, or not registered
Closed == -1

Open(f) == \E c \in Client : fd[c] = f
Holder(f) == CHOOSE c \in Client : fd[c] = f
Lost(c) == phase[c] = "left"

Init ==
    /\ kind \in Casts
    /\ phase = [c \in Client |-> "off"]
    /\ round = [c \in Client |-> 0]
    /\ parser = [c \in Client |-> NewParser]
    /\ remaining = [c \in Client |-> 0]
    /\ topology = [c \in Client |-> <<>>]
    /\ toServer = [c \in Client |-> <<>>]
    /\ toClient = [c \in Client |-> <<>>]
    /\ reset = [c \in Client |-> FALSE]
    /\ main = "events"
    /\ fd = [c \in Client |-> NoFd]
    /\ reader = [c \in Client |-> NewParser]
    /\ tasks = <<>>
    /\ busy = {}
    /\ queue = <<>>
    /\ registered = [c \in Client |-> NoFd]
    /\ marked = {}
    /\ beats = 0
    /\ asked = [c \in Client |-> <<>>]
    /\ parsed = [c \in Client |-> <<>>]
    /\ got = [c \in Client |-> <<>>]
    /\ stray = [c \in Client |-> {}]
    /\ torn = {}
    /\ hasty = {}
    /\ partial = {}
-----------------------------------------------------------------------------
(* Clients                                                                 *)

\* The lengths a recv may return of a text.
Reads(text) == {n \in 1 .. Len(text) : n \in Cuts \/ n = Len(text)}

\* What a parser is after the first n characters of a text.
Parsed(p, text, n) == {AppendText(p, SubSeq(text, 1, n))}

Write(c, requests) ==
    /\ toServer' = [toServer EXCEPT ![c] =
                        @ \o FlattenSeq([i \in 1 .. Len(requests) |-> Encode(requests[i])])]
    /\ asked' = [asked EXCEPT ![c] = @ \o requests]

\* recv of n characters.
Read(c, n) == toClient' = [toClient EXCEPT ![c] = SubSeq(@, n + 1, Len(@))]

\* The sockets of a client are closed: unread text makes it a reset.
Gone(c, unread) ==
    /\ phase' = [phase EXCEPT ![c] = "left"]
    /\ hasty' = IF phase[c] = "idle" THEN hasty ELSE hasty \cup {c}
    /\ parser' = [parser EXCEPT ![c] = NewParser]
    /\ remaining' = [remaining EXCEPT ![c] = 0]
    /\ reset' = [reset EXCEPT ![c] = unread]

\* The constructor of Client connects and asks for the topology; a server that
\* joins or connects says HELLO.
Connect(c) ==
    /\ phase[c] = "off" /\ main # "down"
    /\ phase' = [phase EXCEPT ![c] = "net"]
    /\ Write(c, <<IF c \in Peers THEN Hello(c) ELSE GetNetwork>>)
    /\ UNCHANGED <<serverVars, kind, round, parser, remaining, topology, got, partial, hasty,
                   toClient, reset>>

\* The constructor reads until there is a result, takes the topology from it or
\* throws, and resets the parser.  A server that waits for the answer to HELLO
\* takes whatever comes first for it.
Learn(c) ==
    /\ phase[c] = "net"
    /\ \E n \in Reads(toClient[c]) : \E p \in Parsed(parser[c], toClient[c], n) :
         LET known == p.out # <<>> /\ (c \in Peers \/ IsTopology(p.out[1]))
         IN /\ Read(c, n)
            /\ \/ /\ known
                  /\ phase' = [phase EXCEPT ![c] = "idle"]
                  /\ parser' = [parser EXCEPT ![c] = NewParser]
                  /\ got' = [got EXCEPT ![c] = Append(@, Encode(p.out[1]))]
                  /\ topology' = IF c \in Peers THEN topology
                       ELSE [topology EXCEPT ![c] = [nodes |-> GetTopo(p.out[1].body[1]),
                                                    groups |-> GetGroups(p.out[1])]]
                  /\ UNCHANGED <<hasty, remaining, reset>>
               \/ /\ p.out = <<>> /\ p.state # "thrown"
                  /\ parser' = [parser EXCEPT ![c] = p]
                  /\ UNCHANGED <<phase, got, topology, hasty, remaining, reset>>
               \/ /\ ~known /\ (p.out # <<>> \/ p.state = "thrown")
                  /\ Gone(c, n < Len(toClient[c]))
                  /\ UNCHANGED <<got, topology>>
    /\ UNCHANGED <<serverVars, kind, round, asked, partial, toServer>>

Send(c, requests) ==
    /\ phase[c] = "idle" /\ round[c] < Rounds[kind[c]]
    /\ phase' = [phase EXCEPT ![c] = "waiting"]
    /\ round' = [round EXCEPT ![c] = @ + 1]
    /\ remaining' = [remaining EXCEPT ![c] = Len(requests)]
    /\ Write(c, requests)
    /\ UNCHANGED <<serverVars, kind, topology, got, partial, hasty, toClient, reset>>

\* run sends a command, latencyBenchmark too, after a reset of the parser.
SendOne(c) == \E requests \in Batches[kind[c]] :
    /\ kind[c] \in {"run", "latency"} /\ Len(requests) = 1
    /\ Send(c, requests)
    /\ parser' = [parser EXCEPT ![c] = IF kind[c] = "latency" THEN NewParser ELSE @]

\* benchmark sends when batch_size requests have come together.
SendFull(c) == \E requests \in Batches[kind[c]] :
    /\ kind[c] = "benchmark" /\ Len(requests) = BatchSize
    /\ Send(c, requests)
    /\ UNCHANGED parser

\* It sends what is left at the end, and waits for that in the same way.
SendRest(c) == \E requests \in Batches[kind[c]] :
    /\ kind[c] = "benchmark" /\ Len(requests) < BatchSize
    /\ Send(c, requests)
    /\ UNCHANGED parser

\* run prints what one recv returns.
ShowReply(c) == \E n \in Reads(toClient[c]) :
    LET text == SubSeq(toClient[c], 1, n)
    IN /\ phase[c] = "waiting" /\ kind[c] = "run"
       /\ Read(c, n)
       /\ phase' = [phase EXCEPT ![c] = "idle"]
       /\ remaining' = [remaining EXCEPT ![c] = 0]
       /\ got' = [got EXCEPT ![c] = Append(@, text)]
       /\ partial' = IF \E r \in Replies : text = r THEN partial ELSE partial \cup {c}
       /\ UNCHANGED <<serverVars, kind, round, parser, topology, asked, hasty, toServer, reset>>

\* Faulty: every recv counts as a reply.
TakePerRead(c, n, p, taken) ==
    /\ Read(c, n)
    /\ remaining' = [remaining EXCEPT ![c] = @ - 1]
    /\ phase' = [phase EXCEPT ![c] = IF remaining'[c] = 0 THEN "idle" ELSE @]
    /\ parser' = [parser EXCEPT ![c] = TakeResults(p)]
    /\ got' = [got EXCEPT ![c] = @ \o [i \in 1 .. taken |-> Encode(p.out[i])]]
    /\ UNCHANGED <<hasty, reset>>
    /\ UNCHANGED <<serverVars, kind, round, topology, asked, partial, toServer>>

\* The first results are taken; what the parser throws ends the client.
TakeReplies(c, n, p, taken) ==
    /\ Read(c, n)
    /\ \/ /\ p.state # "thrown"
          /\ remaining' = [remaining EXCEPT ![c] = Max({0, @ - taken})]
          /\ phase' = [phase EXCEPT ![c] = IF remaining'[c] = 0 THEN "idle" ELSE @]
          /\ parser' = [parser EXCEPT ![c] = [p EXCEPT !.out = SubSeq(@, taken + 1, Len(@))]]
          /\ got' = [got EXCEPT ![c] = @ \o [i \in 1 .. taken |-> Encode(p.out[i])]]
          /\ UNCHANGED <<hasty, reset>>
       \/ /\ p.state = "thrown"
          /\ Gone(c, n < Len(toClient[c]))
          /\ UNCHANGED got
    /\ UNCHANGED <<serverVars, kind, round, topology, asked, partial, toServer>>

\* benchmark waits for as many results as it has sent requests.
CountReplies(c) ==
    /\ phase[c] = "waiting" /\ kind[c] = "benchmark"
    /\ \E n \in Reads(toClient[c]) : \E p \in Parsed(parser[c], toClient[c], n) :
         TakeReplies(c, n, p, Len(p.out))

\* latencyBenchmark waits for one.
AwaitReply(c) ==
    /\ phase[c] = "waiting" /\ kind[c] = "latency"
    /\ \E n \in Reads(toClient[c]) : \E p \in Parsed(parser[c], toClient[c], n) :
         TakeReplies(c, n, p, Min({1, Len(p.out)}))

\* A peer reads what it is sent, and has no more to say.
PeerReads(p) ==
    /\ phase[p] = "idle" /\ kind[p] = "peer" /\ toClient[p] # <<>>
    /\ toClient' = [toClient EXCEPT ![p] = <<>>]
    /\ UNCHANGED <<clientVars, serverVars, toServer, reset>>

\* A client ends, or is ended, at any point.
Leave(c) ==
    /\ phase[c] \notin {"off", "left"} /\ main # "down"
    /\ Gone(c, toClient[c] # <<>>)
    /\ toClient' = [toClient EXCEPT ![c] = <<>>]
    /\ UNCHANGED <<serverVars, kind, round, topology, asked, got, partial, toServer>>

\* The server is gone: recv or send fails.
ServerGone(c) ==
    /\ phase[c] \notin {"off", "left"} /\ main = "down"
    /\ Gone(c, FALSE)
    /\ toClient' = [toClient EXCEPT ![c] = <<>>]
    /\ UNCHANGED <<serverVars, kind, round, topology, asked, got, partial, toServer>>
-----------------------------------------------------------------------------
(* The main thread                                                         *)

\* Server::accept takes the lowest descriptor that is free.
Accept(c) ==
    /\ main = "events"
    /\ phase[c] # "off" /\ fd[c] = NoFd
    /\ fd' = [fd EXCEPT ![c] = Min(Fds \ {fd[d] : d \in Client})]
    /\ UNCHANGED <<clientVars, main, reader, tasks, busy, queue, registered, marked, beats,
                   parsed, stray, torn, toServer, toClient, reset>>

\* Faulty: one result is taken where several may have come.
RecvOne(c) ==
    /\ main = "events" /\ fd[c] \in Fds
    /\ \E n \in Reads(toServer[c]) : \E p \in Parsed(reader[c], toServer[c], n) :
         LET task(i) == [of |-> c, fd |-> fd[c], n |-> Len(parsed[c]) + i]
         IN /\ toServer' = [toServer EXCEPT ![c] = SubSeq(@, n + 1, Len(@))]
            /\ main' = IF p.state = "thrown" THEN "down" ELSE main
            /\ IF p.state = "thrown"
               THEN UNCHANGED <<reader, tasks, parsed>>
               ELSE /\ reader' = [reader EXCEPT ![c] = TakeResults(p)]
                    /\ tasks' = tasks \o [i \in 1 .. Min({1, Len(p.out)}) |-> task(i)]
                    /\ parsed' = [parsed EXCEPT ![c] = @ \o p.out]
    /\ UNCHANGED <<clientVars, fd, busy, queue, registered, marked, beats, stray, torn,
                   toClient, reset>>

\* Server::recv and what epoll_step does with the text: one task per result.
\* An exception of the parser leaves run().
Recv(c) ==
    /\ main = "events" /\ fd[c] \in Fds
    /\ \E n \in Reads(toServer[c]) : \E p \in Parsed(reader[c], toServer[c], n) :
         LET task(i) == [of |-> c, fd |-> fd[c], n |-> Len(parsed[c]) + i]
         IN /\ toServer' = [toServer EXCEPT ![c] = SubSeq(@, n + 1, Len(@))]
            /\ main' = IF p.state = "thrown" THEN "down" ELSE main
            /\ IF p.state = "thrown"
               THEN UNCHANGED <<reader, tasks, parsed>>
               ELSE /\ reader' = [reader EXCEPT ![c] = TakeResults(p)]
                    /\ tasks' = tasks \o [i \in 1 .. Len(p.out) |-> task(i)]
                    /\ parsed' = [parsed EXCEPT ![c] = @ \o p.out]
    /\ UNCHANGED <<clientVars, fd, busy, queue, registered, marked, beats, stray, torn,
                   toClient, reset>>

\* Server::recv reads to the end: the connection is erased, and what was read
\* with the end is dropped.
RecvEnd(c) ==
    /\ main = "events" /\ fd[c] \in Fds /\ phase[c] = "left"
    /\ fd' = [fd EXCEPT ![c] = Closed]
    /\ reader' = [reader EXCEPT ![c] = NewParser]
    /\ toServer' = [toServer EXCEPT ![c] = <<>>]
    /\ UNCHANGED <<clientVars, main, tasks, busy, queue, registered, marked, beats, parsed,
                   stray, torn, toClient, reset>>

\* The rest of a pass: the queue is locked until all messages are sent.  A pass
\* with nothing to send and no peer to mark changes nothing.
Alive == {p \in Peers : registered[p] \in {fd[c] : c \in Client} \cap Fds}

StartSending ==
    /\ main = "events"
    /\ queue # <<>> \/ ~ (Alive \subseteq marked)
    /\ main' = "sending"
    /\ UNCHANGED <<clientVars, fd, reader, tasks, busy, queue, registered, marked, beats,
                   parsed, stray, torn, toServer, toClient, reset>>

\* Faulty: a socket that is full is taken for an error.
SendToOrThrow(h, m) ==
    LET fits == Len(m.text) <= Room - Len(toClient[h])
    IN /\ toClient' = [toClient EXCEPT ![h] = IF fits THEN @ \o m.text ELSE @]
       /\ main' = IF fits THEN main ELSE "down"
       /\ stray' = [stray EXCEPT ![h] = @ \cup ({m.to} \ {h})]
       /\ UNCHANGED <<torn, reset>>

\* Faulty: the last free place of a socket is not used.
SendToShort(h, m) ==
    LET free == Room - 1 - Len(toClient[h])
        fits == Min({free, Len(m.text)})
    IN \/ /\ phase[h] # "left"
          /\ toClient' = [toClient EXCEPT ![h] = @ \o SubSeq(m.text, 1, fits)]
          /\ torn' = IF fits < Len(m.text) THEN torn \cup {h} ELSE torn
          /\ stray' = [stray EXCEPT ![h] = @ \cup ({m.to} \ {h})]
          /\ UNCHANGED <<main, reset>>
       \/ /\ phase[h] = "left"
          /\ reset' = [reset EXCEPT ![h] = TRUE]
          /\ main' \in IF reset[h] THEN {"sending", "down"} ELSE {"sending"}
          /\ UNCHANGED <<toClient, torn, stray>>

\* Server::send to whoever has the descriptor: what does not fit is dropped
\* (EAGAIN), and a connection that was reset throws.
SendTo(h, m) ==
    LET free == Room - Len(toClient[h])
        fits == Min({free, Len(m.text)})
    IN \/ /\ phase[h] # "left"
          /\ toClient' = [toClient EXCEPT ![h] = @ \o SubSeq(m.text, 1, fits)]
          /\ torn' = IF fits < Len(m.text) THEN torn \cup {h} ELSE torn
          /\ stray' = [stray EXCEPT ![h] = @ \cup ({m.to} \ {h})]
          /\ UNCHANGED <<main, reset>>
       \/ /\ phase[h] = "left"
          /\ reset' = [reset EXCEPT ![h] = TRUE]
          /\ main' \in IF reset[h] THEN {"sending", "down"} ELSE {"sending"}
          /\ UNCHANGED <<toClient, torn, stray>>

SendNext ==
    /\ main = "sending" /\ queue # <<>>
    /\ queue' = Tail(queue)
    /\ IF Open(Head(queue).fd)
       THEN SendTo(Holder(Head(queue).fd), Head(queue))
       ELSE UNCHANGED <<main, reset, toClient, torn, stray>>
    /\ UNCHANGED <<clientVars, fd, reader, tasks, busy, registered, marked, beats, parsed,
                   toServer>>

\* Peers whose descriptor is open are taken to be alive, whoever has it now.
EndPass ==
    /\ main = "sending" /\ queue = <<>>
    /\ main' = "events"
    /\ marked' = marked \cup Alive
    /\ UNCHANGED <<clientVars, fd, reader, tasks, busy, queue, registered, beats, parsed,
                   stray, torn, toServer, toClient, reset>>

\* Cluster::checkTimeouts, which the main thread and the heartbeat thread call
\* again and again; a peer that was never marked has no time to compare.
TimeOut(p) ==
    /\ main # "down"
    /\ p \in marked /\ p \notin Alive /\ registered[p] # NoFd
    /\ registered' = [registered EXCEPT ![p] = NoFd]
    /\ marked' = marked \ {p}
    /\ UNCHANGED <<clientVars, main, fd, reader, tasks, busy, queue, beats, parsed, stray,
                   torn, toServer, toClient, reset>>
-----------------------------------------------------------------------------
(* The other threads; they wait while the queue is locked.                 *)

\* Cluster::sendHeartbeats
Beat(p) ==
    /\ main = "events" /\ registered[p] # NoFd /\ beats < Beats
    /\ beats' = beats + 1
    /\ queue' = Append(queue, [text |-> Heartbeat, fd |-> registered[p], to |-> p])
    /\ UNCHANGED <<clientVars, main, fd, reader, tasks, busy, registered, marked, parsed,
                   stray, torn, toServer, toClient, reset>>

\* A worker takes the first task.
Take ==
    /\ main # "down"
    /\ tasks # <<>> /\ Cardinality(busy) < Workers
    /\ busy' = busy \cup {Head(tasks)}
    /\ tasks' = Tail(tasks)
    /\ UNCHANGED <<clientVars, main, fd, reader, queue, registered, marked, beats, parsed,
                   stray, torn, toServer, toClient, reset>>

\* Handler::HELLO registers the descriptor; no other request here does.
HELLO(request, f) == [c \in Client |-> IF request = Hello(c) THEN f ELSE registered[c]]

\* Faulty: the task refers to the variable of the loop, not to its value: the
\* reply goes to the connection with the highest descriptor.
HandleLast(t) ==
    LET request == parsed[t.of][t.n]
        last == Max({t.fd} \cup {fd[c] : c \in Client})
    IN /\ main = "events" /\ t \in busy
       /\ busy' = busy \ {t}
       /\ queue' = Append(queue, [text |-> Reply(request), fd |-> last, to |-> t.of])
       /\ registered' = HELLO(request, t.fd)
       /\ UNCHANGED <<clientVars, main, fd, reader, tasks, marked, beats, parsed, stray, torn,
                      toServer, toClient, reset>>

\* Server::handleCommand: the reply goes to the queue.
Handle(t) ==
    LET request == parsed[t.of][t.n]
    IN /\ main = "events" /\ t \in busy
       /\ busy' = busy \ {t}
       /\ queue' = Append(queue, [text |-> Reply(request), fd |-> t.fd, to |-> t.of])
       /\ registered' = HELLO(request, t.fd)
       /\ UNCHANGED <<clientVars, main, fd, reader, tasks, marked, beats, parsed, stray, torn,
                      toServer, toClient, reset>>
-----------------------------------------------------------------------------
\* What goes on by itself: the main loop, the workers, the delivery of what was
\* sent, and the reading of a client that waits.
Progress ==
    \/ StartSending \/ SendNext \/ EndPass \/ Take
    \/ \E t \in busy : Handle(t)
    \/ \E c \in Client :
          \/ PeerReads(c) \/ ServerGone(c) \/ Accept(c) \/ RecvEnd(c) \/ TimeOut(c)
          \/ ShowReply(c) \/ Learn(c) \/ CountReplies(c) \/ AwaitReply(c) \/ Recv(c)

Next ==
    \/ \E c \in Client : Connect(c) \/ SendOne(c) \/ SendFull(c) \/ SendRest(c) \/ Leave(c) \/ Beat(c)
    \/ Progress

Spec == Init /\ [][Next]_vars

\* Something of it happens as long as something can: a weak assumption, and
\* enough, since what was sent and queued is finite.
FairSpec == Spec /\ WF_vars(Progress)
-----------------------------------------------------------------------------
(* Properties                                                              *)

\* Whatever pieces a text comes in, both ends understand what the other one
\* wrote.  The server parses the requests that were sent, each as soon as its
\* last character is there, and its parser never throws (RespParser::append,
\* Server::epoll_step against resp::encode).  A client past its constructor has
\* the topology and the groups that the server wrote, whatever else it was sent
\* (Handler::GETNETWORK against Utils::getTopoV2).
ParsedAsSent ==
    /\ \A c \in Client : fd[c] \in Fds =>
          /\ IsPrefix(parsed[c], asked[c])
          /\ reader[c].state # "thrown"
          /\ toServer[c] = <<>> => parsed[c] = asked[c]
    /\ \A c \in Client \ Peers : phase[c] \in {"idle", "waiting"} =>
          topology[c] = [nodes |-> <<Self>>,
                         groups |-> {[gid |-> 0, members |-> <<Self.uuid>>]}]

\* A client that waits for nothing has been given the replies to its own
\* requests, one for each: those of run and latencyBenchmark one after the
\* other, those of a benchmark in any order.  Excepted are clients that got a
\* message of another connection, lost a part of one, or took a part of a
\* reply for all of it.
RepliesMatch == \A c \in Client \ Peers :
    phase[c] = "idle" /\ stray[c] = {} /\ c \notin torn \cup partial =>
        LET due == [i \in 1 .. Len(asked[c]) |-> Reply(asked[c][i])]
        IN IF kind[c] = "benchmark"
           THEN \A r \in Replies : Cardinality({i \in DOMAIN due : due[i] = r})
                                     = Cardinality({i \in DOMAIN got[c] : got[c][i] = r})
           ELSE got[c] = due

\* Those who may leave something to be sent to their descriptor: clients that
\* left while they waited, or had taken something else for their reply, and a
\* peer that left.
Owed == hasty \cup partial \cup {c \in Client : stray[c] # {}}
              \cup {p \in Peers : phase[p] = "left"}

\* A message reaches another connection than the one it answers only when that
\* one left something behind; a client that waits for its replies and then
\* leaves never does (message_queue holds descriptors, Server::epoll_step).
StrayOnlyAfterLoss == \A c \in Client : stray[c] \subseteq Owed

\* The main loop is left only when something was to be sent to one who had
\* left (Server::send throws); nothing that arrives ends it.
StaysUp == main = "down" => Owed # {}

\* A client whose replies, besides the topology, fit into its socket together
\* loses no part of one, unless it was sent what others had asked for or took a
\* part of a reply for all of it (Server::send drops what does not fit).
FitsNeverTorn == \A c \in Client \ Peers :
    /\ stray[c] = {} /\ c \notin partial
    /\ Len(FlattenSeq([i \in 1 .. Len(asked[c]) - 1 |-> Reply(asked[c][i + 1])])) <= Room
    => c \notin torn

\* A client that waits gets what it waits for, or learns that the server is
\* gone, unless a part of a reply was dropped (Client::Client, benchmark,
\* latencyBenchmark, run: none of them has a timeout).
EveryBatchEnds == \A c \in Client :
    phase[c] \in {"net", "waiting"} ~> phase[c] \in {"idle", "left"} \/ c \in torn
=============================================================================
