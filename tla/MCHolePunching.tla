--------------------------- MODULE MCHolePunching ---------------------------
(***************************************************************************)
(* Instances of HolePunching for TLC: who wants whom.                      *)
(***************************************************************************)
EXTENDS HolePunching

CONSTANTS c1, c2, c3, c4, id10, id14, id15

\* Two clients that want each other.
Pair == (c1 :> id10 @@ c2 :> id14)
PairWants == (c1 :> id14 @@ c2 :> id10)

\* A third wants the first, which is started again as c4 and now wants the
\* third.
Crowd == (c1 :> id10 @@ c2 :> id14 @@ c3 :> id15 @@ c4 :> id10)
CrowdWants == (c1 :> id14 @@ c2 :> id10 @@ c3 :> id10 @@ c4 :> id15)

\* A third client names the peer it wants and not itself.
Anonymous == (c1 :> id10 @@ c2 :> id14 @@ c3 :> NoId)
AnonymousWants == (c1 :> id14 @@ c2 :> id10 @@ c3 :> id10)
=============================================================================
