--------------------------- MODULE OrderedStream ---------------------------
(***************************************************************************)
(* What a reliable channel promises its two ends: what comes out is what   *)
(* went in, in the same order, without gaps, copies or inventions.         *)
(* FairSpec adds that what went in does come out.                          *)
(***************************************************************************)
EXTENDS Naturals, Sequences

CONSTANT Data          \* the datagrams the applications exchange

VARIABLES
  input,               \* everything the sending application handed over
  delivered            \* everything handed to the receiving application

vars == <<input, delivered>>

Init ==
  /\ input = <<>>
  /\ delivered = <<>>

Accept(d) ==
  /\ input' = Append(input, d)
  /\ UNCHANGED delivered

Deliver ==
  /\ Len(delivered) < Len(input)
  /\ delivered' = Append(delivered, input[Len(delivered) + 1])
  /\ UNCHANGED input

Next == Deliver \/ \E d \in Data : Accept(d)

Spec == Init /\ [][Next]_vars

FairSpec == Spec /\ WF_vars(Deliver)
=============================================================================
