----------------------------- MODULE MCSession ------------------------------
(***************************************************************************)
(* An instance of Session: a benchmark, a client that sends one request at *)
(* a time and a server that says HELLO.                                    *)
(***************************************************************************)
EXTENDS Session

\* Bulk strings of n characters, two of them the end of a line.
Text(n) == [i \in 1 .. n |-> IF i = 2 THEN "CR" ELSE IF i = 3 THEN "LF" ELSE "x"]
MCHeld == [key \in {"a", "e"} |-> Bulk(Text(IF key = "a" THEN 20 ELSE 25))]
MCSelf == [ip |-> <<"i">>, port |-> 80, uuid |-> 7]

\* Two at a time: each kind of client after, or beside, a benchmark or a peer.
MCCasts == {cast \in [Client -> {"run", "benchmark", "latency", "peer"}] :
               /\ cast["c1"] \in {"benchmark", "peer"} /\ cast["c2"] \in {"run", "latency"}}

\* Two replies that fill the socket, two that do not fit, and the rest.
MCBatches == [k \in {"run", "benchmark", "latency", "peer"} |->
    CASE k = "benchmark" -> {<<Get("a"), Get("a")>>, <<Get("a"), Get("e")>>,
                             <<Set("k", Text(10))>>}
      [] k = "run" -> {<<Get("a")>>}
      [] k = "latency" -> {<<Get("b")>>}
      [] k = "peer" -> {}]
MCRounds == [k \in {"run", "benchmark", "latency", "peer"} |-> 1]
=============================================================================
