------------------------------- MODULE Parser -------------------------------
(***************************************************************************)
(* The RESP protocol of kvjet: resp::encode and RespParser, and what the   *)
(* client reads out of the answer to GETNETWORK (Utils).                   *)
(*                                                                         *)
(* A text is a sequence of characters.  "CR" and "LF" are single           *)
(* characters, and so is the name of a command, which nothing here takes   *)
(* apart.  A value is a record: its type (the character that announces     *)
(* it), whether it is nil (an empty optional), and its body, a sequence of *)
(* characters, of values (arrays) or of one number.                        *)
(*                                                                         *)
(* A parser is a value too: append is a function of the parser and of the  *)
(* characters that have come, so that one text may come in any pieces.     *)
(***************************************************************************)
EXTENDS Integers, Sequences, SequencesExt

Value(type, nil, body) == [type |-> type, nil |-> nil, body |-> body]
Simple(s) == Value("+", FALSE, s)
Bulk(s) == Value("$", FALSE, s)
NilBulk == Value("$", TRUE, <<>>)
Arr(vs) == Value("*", FALSE, vs)

EOL == <<"CR", "LF">>
Numerals == <<"0", "1", "2", "3", "4", "5", "6", "7", "8", "9">>
IsDigit(c) == \E i \in 1 .. 10 : Numerals[i] = c
DigitOf(c) == (CHOOSE i \in 1 .. 10 : Numerals[i] = c) - 1
-----------------------------------------------------------------------------
(* resp::encode                                                            *)

\* std::to_string
RECURSIVE Decimal(_)
Decimal(n) ==
    CASE n < 0 -> <<"-">> \o Decimal(-n)
      [] n \in 0 .. 9 -> <<Numerals[n + 1]>>
      [] OTHER -> Append(Decimal(n \div 10), Numerals[(n % 10) + 1])

RECURSIVE Encode(_)
Encode(v) ==
    CASE v.type \in {"+", "-"} -> <<v.type>> \o v.body \o EOL
      [] v.type = ":" -> <<":">> \o Decimal(v.body[1]) \o EOL
      [] v.nil -> <<v.type, "-", "1">> \o EOL
      [] v.type = "$" -> <<"$">> \o Decimal(Len(v.body)) \o EOL \o v.body \o EOL
      [] OTHER -> <<"*">> \o Decimal(Len(v.body)) \o EOL
                    \o FlattenSeq([i \in 1 .. Len(v.body) |-> Encode(v.body[i])])

\* encodeNode: ip, port and number of a server, written without encode.
EncodeNode(node) ==
    <<"*", "3">> \o EOL \o <<"+">> \o node.ip \o EOL
        \o <<":">> \o Decimal(node.port) \o EOL
        \o <<"+">> \o Decimal(node.uuid) \o EOL

\* encodeTopo: the servers in the order of the map.
EncodeTopo(nodes) ==
    <<"*">> \o Decimal(Len(nodes)) \o EOL
        \o FlattenSeq([i \in 1 .. Len(nodes) |-> EncodeNode(nodes[i])])
-----------------------------------------------------------------------------
(* RespParser                                                              *)

\* node is what is being read: its value so far, and total, the number of
\* elements or characters it shall have (for a number: 1 or -1 once its sign
\* is known).
NoNode == [value |-> Value("*", TRUE, <<>>), total |-> 0]
NewParser == [state |-> "WaitType", node |-> NoNode, stack |-> <<>>, out |-> <<>>]

\* An exception leaves append; nothing uses the parser afterwards.
Thrown(p) == [p EXCEPT !.state = "thrown"]

\* push: an array that lacks elements waits on the stack; any other value is a
\* message, or the next element of the array on top, which may complete it.
RECURSIVE Push(_, _)
Push(p, n) ==
    IF n.value.type = "*" /\ ~n.value.nil /\ Len(n.value.body) # n.total
    THEN [p EXCEPT !.stack = Append(@, n)]
    ELSE IF p.stack = <<>>
         THEN [p EXCEPT !.out = Append(@, n.value)]
         ELSE LET top == [Last(p.stack) EXCEPT !.value.body = Append(@, n.value)]
              IN IF Len(top.value.body) = top.total
                 THEN Push([p EXCEPT !.stack = Front(@)], top)
                 ELSE [p EXCEPT !.stack = Append(Front(@), top)]

\* The node has been moved away; WaitType makes the next one.
Complete(p) == [Push(p, p.node) EXCEPT !.state = "WaitType", !.node = NoNode]

WaitType(p, c) ==
    LET start(nil, body, state) ==
            [p EXCEPT !.node = [value |-> Value(c, nil, body), total |-> 0], !.state = state]
    IN CASE c \in {"+", "-"} -> start(FALSE, <<>>, "ReadLine")
         [] c = ":" -> start(FALSE, <<0>>, "ReadLine")
         [] c \in {"$", "*"} -> start(TRUE, <<>>, "ReadSize")
         [] OTHER -> Thrown(p)

\* A size of no digits, which encode never writes, is undefined in the code:
\* it reserves room in an optional that is empty.
ReadSize(p, c) ==
    CASE c = "-" /\ p.node.value.nil -> [p EXCEPT !.state = "WaitNil"]
      [] c = "CR" /\ ~p.node.value.nil -> [p EXCEPT !.state = "WaitLFSZ"]
      [] IsDigit(c) -> [p EXCEPT !.node.value.nil = FALSE,
                                 !.node.total = 10 * @ + DigitOf(c)]
      [] OTHER -> Thrown(p)

WaitLFSZ(p, c) ==
    CASE c # "LF" -> Thrown(p)
      [] p.node.value.type = "*" -> Complete(p)
      [] OTHER -> [p EXCEPT !.state = "ReadBulk"]

WaitNil(p, c) == IF c = "1" THEN [p EXCEPT !.state = "WaitNilCR"] ELSE Thrown(p)
WaitNilCR(p, c) == IF c = "CR" THEN [p EXCEPT !.state = "WaitLF"] ELSE Thrown(p)
WaitLF(p, c) == IF c = "LF" THEN Complete(p) ELSE Thrown(p)

\* The digits of a number; its sign, kept in total, is settled by the first.
ReadNumber(p, c) ==
    LET sign == IF p.node.total = 0 THEN 1 ELSE p.node.total
    IN CASE c = "-" /\ p.node.total = 0 -> [p EXCEPT !.node.total = -1]
         [] IsDigit(c) -> [p EXCEPT !.node.total = sign,
                                    !.node.value.body[1] = 10 * @ + sign * DigitOf(c)]
         [] OTHER -> Thrown(p)

ReadLine(p, c) ==
    CASE c = "CR" -> [p EXCEPT !.state = "WaitLF"]
      [] p.node.value.type = ":" -> ReadNumber(p, c)
      [] OTHER -> [p EXCEPT !.node.value.body = Append(@, c)]

\* Faulty: a CR ends the text of a bulk string, whatever its size.
ReadBulkToCR(p, c) ==
    IF c = "CR" THEN [p EXCEPT !.state = "WaitLF"]
    ELSE [p EXCEPT !.node.value.body = Append(@, c)]

ReadBulk(p, c) ==
    IF Len(p.node.value.body) = p.node.total
    THEN IF c = "CR" THEN [p EXCEPT !.state = "WaitLF"] ELSE Thrown(p)
    ELSE [p EXCEPT !.node.value.body = Append(@, c)]

ParseChar(p, c) ==
    CASE p.state = "WaitType" -> WaitType(p, c)
      [] p.state = "ReadSize" -> ReadSize(p, c)
      [] p.state = "WaitLFSZ" -> WaitLFSZ(p, c)
      [] p.state = "WaitNil" -> WaitNil(p, c)
      [] p.state = "WaitNilCR" -> WaitNilCR(p, c)
      [] p.state = "ReadLine" -> ReadLine(p, c)
      [] p.state = "WaitLF" -> WaitLF(p, c)
      [] p.state = "ReadBulk" -> ReadBulk(p, c)

\* append; the sets of one element make TLC compute each parser once.
RECURSIVE AppendText(_, _)
AppendText(p, text) ==
    IF p.state = "thrown" \/ text = <<>> THEN p
    ELSE CHOOSE last \in {AppendText(next, rest) : next \in {ParseChar(p, Head(text))},
                                                 rest \in {Tail(text)}} : TRUE

\* getResult, again and again until hasResult is false.
TakeResults(p) == [p EXCEPT !.out = <<>>]
-----------------------------------------------------------------------------
(* Utils: the answer to GETNETWORK as the client reads it.                 *)

\* to_uint64_t
ToNumber(s) == FoldLeft(LAMBDA n, c : 10 * n + DigitOf(c), 0, s)

IsList(v, atLeast) == v.type = "*" /\ ~v.nil /\ Len(v.body) >= atLeast

IsNode(v) == /\ IsList(v, 3) /\ Len(v.body) = 3
             /\ v.body[1].type = "+" /\ v.body[2].type = ":" /\ v.body[3].type = "+"

\* getTopo and getTopoV2 throw unless this holds.
IsTopology(v) == /\ IsList(v, 1) /\ IsList(v.body[1], 0)
                 /\ \A i \in 1 .. Len(v.body[1].body) : IsNode(v.body[1].body[i])

\* getNode
GetNode(v) == [ip |-> v.body[1].body, port |-> v.body[2].body[1],
               uuid |-> ToNumber(v.body[3].body)]

\* getTopo, the first part
GetTopo(v) == [i \in 1 .. Len(v.body) |-> GetNode(v.body[i])]

\* getTopoV2, the second part: the members of a group, without the zeros that
\* fill it up to three.
GetMembers(v) == SelectSeq([i \in 1 .. Len(v.body) - 1 |-> ToNumber(v.body[i + 1].body)],
                           LAMBDA uuid : uuid # 0)

GetGroups(v) ==
    LET lists == IF IsList(v, 2) /\ IsList(v.body[2], 0) THEN v.body[2].body ELSE <<>>
        usable == SelectSeq(lists, LAMBDA g : IsList(g, 2))
    IN {[gid |-> ToNumber(usable[i].body[1].body), members |-> GetMembers(usable[i])]
           : i \in 1 .. Len(usable)}
=============================================================================
