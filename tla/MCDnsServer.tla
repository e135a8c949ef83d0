---------------------------- MODULE MCDnsServer -----------------------------
(***************************************************************************)
(* An instance of DnsServer for TLC: messages, and files of names.         *)
(***************************************************************************)
EXTENDS DnsServer

CONSTANTS c1, c2, t1, t2, ip1, ip2, ip3, ip4

\* Two labels, one with a dot in it, and a name of 255 bytes in more than 80
\* labels, where the first one has the text of all.
A == Label(1, <<"a">>)
B == Label(1, <<"b">>)
Short == <<A, B>>
Dotted == <<Label(3, <<"a", "b">>)>>
Long == [k \in 1..85 |-> IF k = 1 THEN Label(1, <<"a", "long">>) ELSE Label(2, <<>>)]

Nothing == <<<<>>, <<>>, <<>>>>
Edns == <<<<>>, <<>>, <<Record(1, 0)>>>>
\* 512 bytes: 21 to the end of a question of two labels, and 480, and 11.
Full == <<<<>>, <<Record(1, 469)>>, <<Record(1, 0)>>>>
Two == <<<<Packed(4, 10), Packed(4, 10)>>, <<>>, <<>>>>
Zone == <<<<>>, <<Packed(22, 192)>>, <<>>>>

Mail ==
  [short    |-> Letter(1, 256, <<Question(Short, 1, 1)>>, Nothing),
   dotted   |-> Letter(2, 256, <<Question(Dotted, 1, 1)>>, Edns),
   long     |-> Letter(3, 0, <<Question(Long, 1, 1)>>, Edns),
   full     |-> Letter(12, 0, <<Question(Short, 1, 1)>>, Full),
   unknown  |-> Letter(4, 0, <<Question(<<B>>, 1, 1)>>, Nothing),
   ipv6     |-> Letter(5, 256, <<Question(Short, 28, 1)>>, Edns),
   inverse  |-> Letter(6, 2048, <<Question(Short, 1, 1)>>, Nothing),
   double   |-> Letter(7, 0, <<Question(Short, 1, 1), Question(<<B>>, 1, 1)>>, Nothing),
   empty    |-> Letter(8, 0, <<>>, Nothing),
   response |-> Letter(9, 33152, <<Question(Short, 1, 1)>>, Two),
   zone     |-> Letter(10, 0, <<Question(Short, 251, 1)>>, Zone),
   status   |-> Letter(11, 36864, <<Question(Short, 1, 1)>>, Edns)]

\* By another name: TLC keeps the value of a definition that is used by name,
\* and computes the one a constant is replaced by again and again.
Sendable == Mail

\* A file that makes the table grow; one with a word too many, and one too few.
Hosts ==
  {<<Line(ip1, Text(Short), "newline"), Blank, Line(ip2, Text(Short), "newline"),
     Line(ip3, Text(Long), "newline"), Line(ip4, <<"b">>, "eof")>>,
   <<Line(ip1, Text(Short), "more"), Line(ip2, NoName, "newline")>>}
=============================================================================
