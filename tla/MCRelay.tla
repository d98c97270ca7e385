------------------------------ MODULE MCRelay ------------------------------
(* What arrives, for TLC: with 7 bits a number has up to three digits.      *)
EXTENDS Relay

Script(s, msgs) == [side |-> s, msgs |-> msgs]

(* Any text of up to three characters as the length of a command's string. *)
Texts == UNION {[1 .. n -> {0, 1, 2, 6, 9, Minus, Other}] : n \in 0 .. 3}
Cmd1  == Array(<<<<1>>>>)
Cmd2  == Array(<<<<2>>, <<1>>>>)
Commands == {<<Array(<<t>>)>> : t \in Texts}
            \cup [1 .. 2 -> {Cmd1, Cmd2, Bad}] \cup [1 .. 3 -> {Cmd1}]

(* Every reply of RESP2, alone (an array may hold numbers, lines and       *)
(* arrays, as the reply to an EXEC does), and up to three lines or strings.*)
Ten    == <<1, 0>>
Nil    == <<Minus, 1>>
Plain  == {Line, Number(<<2>>), Number(<<0>>), Number(Nil), Number(Ten),
           Bulk(<<1>>), Bulk(Ten), Bulk(Nil), Bulk(<<0>>), TextLine("*", Nil)}
Mixed  == {Array(<<>>), Array(<<<<1>>, Nil>>), Array(<<<<1>>, <<2>>>>), Array(<<Ten>>)}
          \cup {ArrayOf(<<m>>) : m \in {Number(<<2>>), Array(<<>>), Cmd1}}
          \cup {ArrayOf(<<Bulk(<<1>>), Line>>), ArrayOf(<<Line, Bulk(<<1>>)>>)}
Single == Plain \cup Mixed
Replies == {<<m>> : m \in Single}
           \cup [1 .. 2 -> {Line, Bulk(<<1>>), Bulk(<<0>>), Cmd1}]
           \cup [1 .. 3 -> {Line, Bulk(<<1>>)}]

MCScripts == {Script("client", m) : m \in Commands} \cup {Script("redis", m) : m \in Replies}
=============================================================================
