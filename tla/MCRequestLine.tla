--------------------------- MODULE MCRequestLine ---------------------------
(***************************************************************************)
(* Instances of RequestLine for TLC.                                       *)
(***************************************************************************)
EXTENDS RequestLine

CONSTANTS t1, t2, hostA, hostB

\* Every request, with a known or an unknown method, all of its line there or not.
Ordinary == Parts

\* What curl makes of "-x proxy http://.." and "-x proxy https://..".
Browsing ==
  {r \in Parts :
     /\ r.whole
     /\ \/ r.method = "GET" /\ r.scheme = "http" /\ r.port = None /\ r.path = "word"
        \/ r.method = "CONNECT" /\ r.scheme = None /\ r.port # None /\ r.path = None}
=============================================================================
