----------------------------- MODULE Datagrams -----------------------------
(***************************************************************************)
(* One direction of UDP between two sockets, as the programs under src/    *)
(* use it through socket.sendto and socket.recvfrom.  The network is not   *)
(* part of the repository; what it may do to a datagram is chosen by the   *)
(* constant Faults, so that a run states which faults it assumes.          *)
(*                                                                         *)
(* A channel is a sequence of datagrams in the order they were sent.  It   *)
(* holds at most MaxInFlight of them: a datagram sent on a full channel    *)
(* is dropped, which is what a full UDP receive buffer does.               *)
(***************************************************************************)
EXTENDS Naturals, Sequences, SequencesExt

CONSTANTS
  Faults,       \* what the network and the timers may do wrong
  MaxInFlight   \* capacity of a channel: a bound of the model

\* "loss", "duplicate", "reorder": the network loses, copies or reorders
\*                                 datagrams
\* "early_timeout":  a timer may fire although the answer is still under way
\* "send_raises":    sendto on a non-blocking socket may raise BlockingIOError
FaultKinds == {"loss", "duplicate", "reorder", "early_timeout", "send_raises"}

ASSUME DatagramsAssumption ==
  /\ Faults \subseteq FaultKinds
  /\ MaxInFlight \in Nat \ {0}

\* The channel after one more datagram was handed to sendto.
Enqueue(ch, m) == IF Len(ch) < MaxInFlight THEN Append(ch, m) ELSE ch

\* The positions recvfrom may take its datagram from.
Receivable(ch) ==
  {i \in DOMAIN ch : "reorder" \in Faults \/ i = 1}

\* The channel after the datagram at position i was received, or lost.
Without(ch, i) == RemoveAt(ch, i)

\* The network loses one datagram of the channel.
Loses(ch, chNext) ==
  /\ "loss" \in Faults
  /\ \E i \in DOMAIN ch : chNext = Without(ch, i)

\* The network delivers one more copy of a datagram of the channel.
Duplicates(ch, chNext) ==
  /\ "duplicate" \in Faults
  /\ Len(ch) < MaxInFlight
  /\ \E i \in DOMAIN ch : chNext = Append(ch, ch[i])
=============================================================================
