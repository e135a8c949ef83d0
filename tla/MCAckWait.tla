----------------------------- MODULE MCAckWait -----------------------------
(***************************************************************************)
(* Instances of AckWait for TLC: payloads as model values.                 *)
(***************************************************************************)
EXTENDS AckWait

CONSTANTS a, b, bin    \* two texts, and a payload that is not UTF-8
=============================================================================
