------------------------------ MODULE MCProxy ------------------------------
(***************************************************************************)
(* Instances of Proxy for TLC.                                             *)
(***************************************************************************)
EXTENDS Proxy, TLC

CONSTANTS h1, h2, j1, j2, j3

\* The connections are alike as long as all or none are tunnels.
Alike == Permutations(Conns) \cup Permutations(Handlers)
=============================================================================
