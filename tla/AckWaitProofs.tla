--------------------------- MODULE AckWaitProofs ---------------------------
(***************************************************************************)
(* Proofs about AckWait, for any payloads, bounds and faults.              *)
(*                                                                         *)
(* InOrder is not inductive: that an accepted payload is the right one     *)
(* rests on the numbers of the datagrams under way, those on the numbers   *)
(* the sender thread stamped, and those on the counter the waiter thread   *)
(* keeps ahead of it.  IInv says the whole of that.                        *)
(***************************************************************************)
EXTENDS AckWait, DatagramsProofs

\* Everything the sender thread ever handed to the network.
SentPackets == {[seq |-> stamp[i], data |-> input[i]] : i \in 1..Len(stamp)}

\* Datagrams are stamped in the order they are taken, each with a number that
\* is at least its position; a payload that cannot be decoded gets none.
StampsAhead ==
  /\ Len(stamp) <= taken
  /\ spc # "dead" => Len(stamp) = taken
  /\ spc = "get" => taken < Len(input)
  /\ \A i \in 1..Len(stamp) : stamp[i] >= i

\* The network and the sender thread hold nothing but datagrams so stamped.
ChannelSound ==
  /\ dataCh \in Seq(SentPackets)
  /\ spc = "wait" => packet \in SentPackets

\* The receiver's counter is the number of payloads it queued, and those are
\* the first ones of the input.
ReceiverInStep ==
  /\ rcvCounter = Len(output)
  /\ NothingPastGap
  /\ \A i \in 1..Len(output) : output[i] = input[i]

ForwardedInOrder ==
  /\ Len(delivered) <= Len(output)
  /\ \A i \in 1..Len(delivered) : delivered[i] = output[i]

IInv ==
  /\ TypeOK
  /\ CounterCovers
  /\ StampsAhead
  /\ ChannelSound
  /\ ReceiverInStep
  /\ ForwardedInOrder

-----------------------------------------------------------------------------
(* The initial states, and one lemma per part of the invariant.            *)

LEMMA InitIInv == Init => IInv
<1>. SUFFICES ASSUME Init PROVE IInv
  OBVIOUS
<1>. USE DEF Init
<1>1. TypeOK
  <2>1. taken \in 0..Len(input) /\ spc # "wait"
    OBVIOUS
  <2>2. event \in BOOLEAN
    OBVIOUS
  <2>. QED
    BY <2>1, <2>2, EmptySeq DEF TypeOK
<1>2. CounterCovers
  BY DEF CounterCovers, Covers
<1>3. StampsAhead
  BY DEF StampsAhead
<1>4. ChannelSound
  BY EmptySeq DEF ChannelSound
<1>5. ReceiverInStep
  BY DEF ReceiverInStep, NothingPastGap
<1>6. ForwardedInOrder
  BY DEF ForwardedInOrder
<1>. QED
  BY <1>1, <1>2, <1>3, <1>4, <1>5, <1>6 DEF IInv

USE DEF senderVars, waiterVars, receiverVars, forwarderVars

LEMMA TypeStep ==
  ASSUME TypeOK, StampsAhead, [Next]_vars
  PROVE  TypeOK'
<1>. USE DEF TypeOK
<1>1. CASE ClientReceives
  <2>1. PICK d \in Data : input' = Append(input, d)
    BY <1>1 DEF ClientReceives
  <2>. QED
    BY <1>1, <2>1, AppendProperties DEF ClientReceives
<1>2. CASE Poll
  BY <1>2 DEF Poll
<1>3. CASE SendNext
  <2>1. taken + 1 \in 1..Len(input) /\ input[taken + 1] \in Data
    BY <1>3, ElementOfSeq DEF SendNext, StampsAhead
  <2>2. AddSeq(input[taken + 1]) \in Packets
    BY <2>1 DEF AddSeq, Packets
  <2>3. dataCh' \in Seq(Packets) /\ spc' \in {"wait", "dead"}
    BY <1>3, <2>2, EnqueueInSeq DEF SendNext, SendTo
  <2>4. stamp' \in Seq(Nat) /\ taken' \in 0..Len(input') /\ packet' \in Packets
    BY <1>3, <2>1, <2>2 DEF SendNext
  <2>. QED
    BY <1>3, <2>3, <2>4 DEF SendNext
<1>4. CASE SendNextRaises
  BY <1>4 DEF SendNextRaises, StampsAhead
<1>5. CASE WaitReturns
  BY <1>5 DEF WaitReturns
<1>6. CASE Retransmit
  <2>1. dataCh' \in Seq(Packets) /\ spc' \in {"wait", "dead"}
    BY <1>6, EnqueueInSeq DEF Retransmit, SendTo
  <2>. QED
    BY <1>6, <2>1 DEF Retransmit
<1>7. CASE RecvAck
  <2>1. ackCh' \in Seq(Packets)
    BY <1>7, WithoutInSeq DEF RecvAck, Receivable
  <2>. QED
    BY <1>7, <2>1 DEF RecvAck
<1>8. CASE SetEvent
  BY <1>8 DEF SetEvent
<1>9. CASE ServerReceives
  <2>1. PICK i \in Receivable(dataCh) :
          /\ dataCh' = Without(dataCh, i)
          /\ IF IsNext(dataCh[i]) THEN Put(dataCh[i]) ELSE UNCHANGED receiverVars
          /\ ackCh' = Acknowledge(dataCh[i])
    BY <1>9 DEF ServerReceives
  <2>2. i \in DOMAIN dataCh /\ dataCh[i] \in Packets
    BY ElementOfSeq, LenProperties DEF Receivable
  <2>3. dataCh' \in Seq(Packets) /\ ackCh' \in Seq(Packets)
    BY <2>1, <2>2, WithoutInSeq, EnqueueInSeq DEF Acknowledge
  <2>4. rcvCounter' \in Nat /\ output' \in Seq(Data)
    <3>1. CASE IsNext(dataCh[i])
      <4>1. dataCh[i].data \in Data
        BY <2>2 DEF Packets
      <4>2. Put(dataCh[i])
        BY <2>1, <3>1
      <4>. QED
        BY <4>1, <4>2 DEF Put
    <3>2. CASE ~IsNext(dataCh[i])
      BY <2>1, <3>2 DEF IsNext
    <3>. QED
      BY <3>1, <3>2
  <2>. QED
    BY <1>9, <2>3, <2>4 DEF ServerReceives
<1>10. CASE ServerForwards
  <2>1. output[Len(delivered) + 1] \in Data
    BY <1>10, ElementOfSeq DEF ServerForwards
  <2>2. CASE delivered' = Append(delivered, output[Len(delivered) + 1])
    <3>1. delivered' \in Seq(Data)
      BY <2>1, <2>2
    <3>2. forwarding' = forwarding \/ forwarding' = FALSE
      BY <1>10 DEF ServerForwards
    <3>. QED
      BY <1>10, <3>1, <3>2 DEF ServerForwards
  <2>3. CASE forwarding' = FALSE /\ UNCHANGED delivered
    BY <1>10, <2>3 DEF ServerForwards
  <2>. QED
    BY <1>10, <2>2, <2>3 DEF ServerForwards
<1>11. CASE Network
  <2>1. dataCh' \in Seq(Packets) /\ ackCh' \in Seq(Packets)
    BY <1>11, FaultsInSeq DEF Network
  <2>. QED
    BY <1>11, <2>1 DEF Network
<1>12. CASE UNCHANGED vars
  BY <1>12 DEF vars
<1>. QED
  BY <1>1, <1>2, <1>3, <1>4, <1>5, <1>6, <1>7, <1>8, <1>9, <1>10, <1>11, <1>12
  DEF Next, SenderThread, WaiterThread

LEMMA CounterStep ==
  ASSUME TypeOK, CounterCovers, [Next]_vars
  PROVE  CounterCovers'
<1>. USE DEF TypeOK, CounterCovers, Covers
<1>1. CASE Poll
  BY <1>1 DEF Poll
<1>2. CASE SendNext
  BY <1>2 DEF SendNext, SendTo
<1>3. CASE SendNextRaises
  BY <1>3 DEF SendNextRaises
<1>4. CASE WaitReturns
  BY <1>4 DEF WaitReturns
<1>5. CASE Retransmit
  BY <1>5 DEF Retransmit, SendTo
<1>6. CASE RecvAck
  BY <1>6 DEF RecvAck
<1>7. CASE SetEvent
  BY <1>7 DEF SetEvent
<1>8. CASE ClientReceives \/ ServerReceives \/ ServerForwards \/ Network
            \/ UNCHANGED vars
  BY <1>8 DEF ClientReceives, ServerReceives, ServerForwards, Network, vars
<1>. QED
  BY <1>1, <1>2, <1>3, <1>4, <1>5, <1>6, <1>7, <1>8
  DEF Next, SenderThread, WaiterThread

LEMMA StampsStep ==
  ASSUME TypeOK, CounterCovers, StampsAhead, [Next]_vars
  PROVE  StampsAhead'
<1>. USE DEF TypeOK, StampsAhead
<1>1. CASE ClientReceives
  <2>1. PICK d \in Data : input' = Append(input, d)
    BY <1>1 DEF ClientReceives
  <2>2. Len(input') = Len(input) + 1
    BY <2>1
  <2>. QED
    BY <1>1, <2>2 DEF ClientReceives
<1>2. CASE Poll
  BY <1>2 DEF Poll
<1>3. CASE SendNext
  <2>1. sndCounter >= taken + 1
    BY <1>3 DEF SendNext, CounterCovers, Covers
  <2>2. /\ stamp' = Append(stamp, sndCounter)
        /\ taken' = taken + 1 /\ spc' \in {"wait", "dead"}
        /\ Len(stamp) = taken
    BY <1>3 DEF SendNext, SendTo
  <2>3. \A i \in 1..Len(stamp') : stamp'[i] >= i
    BY <2>1, <2>2
  <2>. QED
    BY <2>2, <2>3
<1>4. CASE SendNextRaises
  BY <1>4 DEF SendNextRaises
<1>5. CASE WaitReturns
  BY <1>5 DEF WaitReturns
<1>6. CASE Retransmit
  BY <1>6 DEF Retransmit, SendTo
<1>7. CASE WaiterThread \/ ServerReceives \/ ServerForwards \/ Network
            \/ UNCHANGED vars
  BY <1>7 DEF WaiterThread, RecvAck, SetEvent, ServerReceives, ServerForwards,
              Network, vars
<1>. QED
  BY <1>1, <1>2, <1>3, <1>4, <1>5, <1>6, <1>7 DEF Next, SenderThread

\* What was handed to the network once stays so: the input and the stamps only
\* grow.
LEMMA SentPacketsGrow ==
  ASSUME TypeOK, StampsAhead, [Next]_vars
  PROVE  /\ SentPackets \subseteq SentPackets'
         /\ \A i \in 1..Len(input) : i \in 1..Len(input') /\ input'[i] = input[i]
         /\ \A i \in 1..Len(stamp) : i \in 1..Len(stamp') /\ stamp'[i] = stamp[i]
<1>. USE DEF TypeOK, StampsAhead
<1>1. \A i \in 1..Len(input) : i \in 1..Len(input') /\ input'[i] = input[i]
  <2>1. CASE ClientReceives
    <3>1. PICK d \in Data : input' = Append(input, d)
      BY <2>1 DEF ClientReceives
    <3>. QED
      BY <3>1
  <2>2. CASE ~ClientReceives
    <3>1. input' = input
      BY <2>2 DEF Next, SenderThread, WaiterThread, Poll, SendNext,
        SendNextRaises, WaitReturns, Retransmit, RecvAck, SetEvent,
        ServerReceives, ServerForwards, Network, vars
    <3>. QED
      BY <3>1
  <2>. QED
    BY <2>1, <2>2
<1>2. \A i \in 1..Len(stamp) : i \in 1..Len(stamp') /\ stamp'[i] = stamp[i]
  <2>1. CASE SendNext
    <3>1. stamp' = Append(stamp, sndCounter)
      BY <2>1 DEF SendNext
    <3>. QED
      BY <3>1
  <2>2. CASE ~SendNext
    <3>1. stamp' = stamp
      BY <2>2 DEF Next, SenderThread, WaiterThread, ClientReceives, Poll,
        SendNextRaises, WaitReturns, Retransmit, RecvAck, SetEvent,
        ServerReceives, ServerForwards, Network, vars
    <3>. QED
      BY <3>1
  <2>. QED
    BY <2>1, <2>2
<1>3. SentPackets \subseteq SentPackets'
  <2>1. \A i \in 1..Len(stamp) : i \in 1..Len(input)
    OBVIOUS
  <2>. QED
    BY <1>1, <1>2, <2>1 DEF SentPackets
<1>. QED
  BY <1>1, <1>2, <1>3

LEMMA ChannelStep ==
  ASSUME TypeOK, TypeOK', StampsAhead, ChannelSound, [Next]_vars
  PROVE  ChannelSound'
<1>. USE DEF TypeOK, ChannelSound
<1>1. dataCh \in Seq(SentPackets') /\ (spc = "wait" => packet \in SentPackets')
  BY SentPacketsGrow, SeqMonotonic
<1>2. CASE SendNext
  <2>1. /\ stamp' = Append(stamp, sndCounter) /\ input' = input
        /\ taken = Len(stamp) /\ taken + 1 \in 1..Len(input)
        /\ packet' = AddSeq(input[taken + 1])
    BY <1>2 DEF SendNext, StampsAhead
  <2>2. taken + 1 \in 1..Len(stamp') /\ stamp'[taken + 1] = sndCounter
    BY <2>1
  <2>3. AddSeq(input[taken + 1]) \in SentPackets'
    BY <2>1, <2>2 DEF SentPackets, AddSeq
  <2>4. dataCh' \in Seq(SentPackets')
    BY <1>1, <1>2, <2>3, EnqueueInSeq DEF SendNext, SendTo
  <2>. QED
    BY <2>1, <2>3, <2>4
<1>3. CASE Retransmit
  <2>1. packet \in SentPackets' /\ packet' = packet
    BY <1>1, <1>3 DEF Retransmit
  <2>2. dataCh' \in Seq(SentPackets')
    BY <1>1, <1>3, <2>1, EnqueueInSeq DEF Retransmit, SendTo
  <2>. QED
    BY <2>1, <2>2
<1>4. CASE Poll \/ SendNextRaises \/ WaitReturns
  BY <1>1, <1>4 DEF Poll, SendNextRaises, WaitReturns
<1>5. CASE ServerReceives
  <2>1. PICK i \in DOMAIN dataCh : dataCh' = Without(dataCh, i)
    BY <1>5 DEF ServerReceives, Receivable
  <2>2. dataCh' \in Seq(SentPackets')
    BY <1>1, <2>1, WithoutInSeq
  <2>. QED
    BY <1>1, <1>5, <2>2 DEF ServerReceives
<1>6. CASE Network
  <2>1. dataCh' \in Seq(SentPackets')
    BY <1>1, <1>6, FaultsInSeq DEF Network
  <2>. QED
    BY <1>1, <1>6, <2>1 DEF Network
<1>7. CASE ClientReceives \/ WaiterThread \/ ServerForwards \/ UNCHANGED vars
  BY <1>1, <1>7 DEF ClientReceives, WaiterThread, RecvAck, SetEvent,
                    ServerForwards, vars
<1>. QED
  BY <1>2, <1>3, <1>4, <1>5, <1>6, <1>7 DEF Next, SenderThread

\* The heart of the argument: a datagram under way that carries the number the
\* receiver waits for was stamped at exactly that position.  Its position is
\* not higher, because a number is at least its position, and not lower,
\* because every lower position carried its own number.
LEMMA NextIsNext ==
  ASSUME TypeOK, StampsAhead, ReceiverInStep,
         NEW p \in SentPackets, IsNext(p)
  PROVE  /\ Len(output) + 1 \in 1..Len(stamp)
         /\ stamp[Len(output) + 1] = Len(output) + 1
         /\ p.data = input[Len(output) + 1]
<1>1. PICK i \in 1..Len(stamp) : p = [seq |-> stamp[i], data |-> input[i]]
  BY DEF SentPackets
<1>2. stamp[i] = Len(output) + 1
  BY <1>1 DEF IsNext, ReceiverInStep
<1>3. i <= Len(output) + 1
  BY <1>2 DEF StampsAhead, TypeOK
<1>4. ~(i <= Len(output))
  BY <1>2 DEF ReceiverInStep, NothingPastGap, TypeOK
<1>5. i = Len(output) + 1
  BY <1>3, <1>4 DEF TypeOK
<1>. QED
  BY <1>1, <1>2, <1>5

LEMMA ReceiverStep ==
  ASSUME TypeOK, TypeOK', StampsAhead, ChannelSound, ReceiverInStep, [Next]_vars
  PROVE  ReceiverInStep'
<1>. USE DEF TypeOK, ReceiverInStep, NothingPastGap
<1>. DEFINE k == Len(output) + 1
<1>1. ASSUME output' = output, rcvCounter' = rcvCounter
      PROVE  ReceiverInStep'
  <2>1. Len(stamp) <= Len(input)
    BY DEF StampsAhead
  <2>2. ASSUME NEW i \in 1..Len(output')
        PROVE  /\ i <= Len(stamp') /\ stamp'[i] = i
               /\ output'[i] = input'[i]
    <3>1. /\ i \in 1..Len(stamp) /\ stamp[i] = i
          /\ i \in 1..Len(input) /\ output[i] = input[i]
      <4>1. i \in 1..Len(output)
        BY <1>1
      <4>2. i <= Len(stamp) /\ stamp[i] = i /\ output[i] = input[i]
        BY <4>1
      <4>3. Len(output) \in Nat /\ Len(stamp) \in Nat /\ Len(input) \in Nat
        BY LenProperties
      <4>. HIDE DEF TypeOK, ReceiverInStep, NothingPastGap
      <4>. QED
        BY <2>1, <4>1, <4>2, <4>3
    <3>2. i \in 1..Len(stamp') /\ stamp'[i] = stamp[i] /\ input'[i] = input[i]
      BY <3>1, SentPacketsGrow
    <3>. QED
      BY <1>1, <3>1, <3>2
  <2>. QED
    BY <1>1, <2>2
<1>2. CASE ServerReceives
  <2>1. PICK i \in DOMAIN dataCh :
          IF IsNext(dataCh[i]) THEN Put(dataCh[i]) ELSE UNCHANGED receiverVars
    BY <1>2 DEF ServerReceives, Receivable
  <2>2. dataCh[i] \in SentPackets
    BY ElementOfSeq, LenProperties DEF ChannelSound
  <2>3. CASE IsNext(dataCh[i])
    <3>1. /\ k \in 1..Len(stamp) /\ stamp[k] = k
          /\ dataCh[i].data = input[k]
      BY <2>2, <2>3, NextIsNext
    <3>2. Put(dataCh[i])
      BY <2>1, <2>3
    <3>3. output' = Append(output, input[k]) /\ rcvCounter' = rcvCounter + 1
      BY <3>1, <3>2 DEF Put
    <3>4. stamp' = stamp /\ input' = input
      BY <1>2 DEF ServerReceives
    <3>5. input[k] \in Data
      BY <3>1, ElementOfSeq DEF StampsAhead
    <3>6. Len(output') = k /\ output'[k] = input[k]
          /\ \A j \in 1..Len(output) : output'[j] = output[j]
      BY <3>3, <3>5
    <3>7. ASSUME NEW j \in 1..Len(output')
          PROVE  /\ j <= Len(stamp') /\ stamp'[j] = j
                 /\ output'[j] = input'[j]
      <4>1. CASE j = k
        BY <3>1, <3>4, <3>6, <4>1
      <4>2. CASE j # k
        <5>1. j \in 1..Len(output)
          <6>1. Len(output) \in Nat
            BY LenProperties
          <6>. HIDE DEF TypeOK, ReceiverInStep, NothingPastGap
          <6>. QED
            BY <3>6, <4>2, <6>1
        <5>2. j <= Len(stamp) /\ stamp[j] = j /\ output[j] = input[j]
          BY <5>1
        <5>. QED
          BY <3>4, <3>6, <5>1, <5>2
      <4>. QED
        BY <4>1, <4>2
    <3>. QED
      BY <3>3, <3>6, <3>7
  <2>4. CASE ~IsNext(dataCh[i])
    BY <1>1, <2>1, <2>4 DEF IsNext
  <2>. QED
    BY <2>3, <2>4
<1>3. CASE ClientReceives \/ SenderThread \/ WaiterThread \/ ServerForwards
            \/ Network \/ UNCHANGED vars
  BY <1>1, <1>3 DEF ClientReceives, SenderThread, Poll, SendNext,
     SendNextRaises, WaitReturns, Retransmit, WaiterThread, RecvAck, SetEvent,
     ServerForwards, Network, vars
<1>. QED
  BY <1>2, <1>3 DEF Next

LEMMA OutputGrows ==
  ASSUME TypeOK, [Next]_vars
  PROVE  \A i \in 1..Len(output) : i \in 1..Len(output') /\ output'[i] = output[i]
<1>. USE DEF TypeOK
<1>1. CASE ServerReceives
  <2>1. output' = output \/ \E d \in Data : output' = Append(output, d)
    <3>1. PICK i \in DOMAIN dataCh :
            IF IsNext(dataCh[i]) THEN Put(dataCh[i]) ELSE UNCHANGED receiverVars
      BY <1>1 DEF ServerReceives, Receivable
    <3>2. CASE IsNext(dataCh[i])
      <4>1. Put(dataCh[i])
        BY <3>1, <3>2
      <4>2. dataCh[i].data \in Data
        <5>1. dataCh[i] \in Packets
          BY ElementOfSeq, LenProperties
        <5>. QED
          BY <5>1 DEF Packets
      <4>. QED
        BY <4>1, <4>2 DEF Put
    <3>3. CASE ~IsNext(dataCh[i])
      BY <3>1, <3>3 DEF IsNext
    <3>. QED
      BY <3>2, <3>3
  <2>2. CASE output' = output
    BY <2>2
  <2>3. ASSUME NEW d \in Data, output' = Append(output, d)
        PROVE  \A i \in 1..Len(output) : i \in 1..Len(output') /\ output'[i] = output[i]
    <3>1. Len(output') = Len(output) + 1
      BY <2>3
    <3>2. \A i \in 1..Len(output) : output'[i] = output[i]
      BY <2>3
    <3>3. Len(output) \in Nat
      OBVIOUS
    <3>. QED
      BY <3>1, <3>2, <3>3
  <2>. QED
    BY <2>1, <2>2, <2>3
<1>2. CASE ~ServerReceives
  <2>1. output' = output
    BY <1>2 DEF Next, ClientReceives, SenderThread, Poll, SendNext,
       SendNextRaises, WaitReturns, Retransmit, WaiterThread, RecvAck, SetEvent,
       ServerForwards, Network, vars
  <2>. QED
    BY <2>1
<1>. QED
  BY <1>1, <1>2

LEMMA ForwardStep ==
  ASSUME TypeOK, TypeOK', ForwardedInOrder, [Next]_vars
  PROVE  ForwardedInOrder'
<1>. USE DEF TypeOK, ForwardedInOrder
<1>1. CASE ServerForwards
  <2>1. UNCHANGED output
    BY <1>1 DEF ServerForwards
  <2>2. CASE UNCHANGED delivered
    BY <2>1, <2>2
  <2>3. CASE /\ Len(delivered) < Len(output)
             /\ delivered' = Append(delivered, output[Len(delivered) + 1])
    BY <2>1, <2>3
  <2>. QED
    BY <1>1, <2>2, <2>3 DEF ServerForwards
<1>2. CASE ~ServerForwards
  <2>1. delivered' = delivered
    BY <1>2 DEF Next, ClientReceives, SenderThread, Poll, SendNext,
       SendNextRaises, WaitReturns, Retransmit, WaiterThread, RecvAck, SetEvent,
       ServerReceives, Network, vars
  <2>2. Len(output) <= Len(output')
    <3>1. CASE Len(output) = 0
      BY <3>1
    <3>2. CASE Len(output) # 0
      <4>1. Len(output) \in 1..Len(output)
        BY <3>2
      <4>2. Len(output) \in 1..Len(output')
        BY <4>1, OutputGrows
      <4>. QED
        BY <4>2
    <3>. QED
      BY <3>1, <3>2
  <2>. QED
    BY <2>1, <2>2, OutputGrows
<1>. QED
  BY <1>1, <1>2

-----------------------------------------------------------------------------
(* The theorems.                                                           *)

LEMMA IInvStep == IInv /\ [Next]_vars => IInv'
<1>. SUFFICES ASSUME IInv, [Next]_vars PROVE IInv'
  OBVIOUS
<1>1. TypeOK'
  BY TypeStep DEF IInv
<1>2. CounterCovers'
  BY CounterStep DEF IInv
<1>3. StampsAhead'
  BY StampsStep DEF IInv
<1>4. ChannelSound'
  BY <1>1, ChannelStep DEF IInv
<1>5. ReceiverInStep'
  BY <1>1, ReceiverStep DEF IInv
<1>6. ForwardedInOrder'
  BY <1>1, ForwardStep DEF IInv
<1>. QED
  BY <1>1, <1>2, <1>3, <1>4, <1>5, <1>6 DEF IInv

LEMMA Invariance == Spec => []IInv
BY InitIInv, IInvStep, PTL DEF Spec

\* The state of both programs keeps its type, whatever the network and the
\* scheduler do.
THEOREM TypeCorrect == Spec => []TypeOK
<1>1. IInv => TypeOK
  BY DEF IInv
<1>. QED
  BY <1>1, Invariance, PTL

\* The counter that __add_seq stamps with never falls behind the datagrams
\* already stamped, although waiter and sender thread share it without a lock.
THEOREM CounterNeverBehind == Spec => []CounterCovers
<1>1. IInv => CounterCovers
  BY DEF IInv
<1>. QED
  BY <1>1, Invariance, PTL

\* The receiver never accepts a datagram past a number the sender skipped.
THEOREM GapIsFinal == Spec => []NothingPastGap
<1>1. IInv => NothingPastGap
  BY DEF IInv, ReceiverInStep
<1>. QED
  BY <1>1, Invariance, PTL

\* Loss, duplication, reordering, early timeouts and threads that die cannot
\* make the tunnel deliver anything but a prefix of its input, in order.
THEOREM DeliveredInOrder == Spec => []InOrder
<1>1. IInv => InOrder
  <2>. SUFFICES ASSUME IInv PROVE InOrder
    OBVIOUS
  <2>. USE DEF IInv, TypeOK
  <2>1. Len(output) <= taken
    <3>1. CASE Len(output) = 0
      BY <3>1
    <3>2. CASE Len(output) # 0
      <4>1. Len(output) \in 1..Len(output)
        BY <3>2
      <4>2. Len(output) <= Len(stamp)
        BY <4>1 DEF ReceiverInStep, NothingPastGap
      <4>. QED
        BY <4>2 DEF StampsAhead
    <3>. QED
      BY <3>1, <3>2
  <2>. QED
    BY <2>1 DEF ReceiverInStep, ForwardedInOrder, InOrder
<1>. QED
  BY <1>1, Invariance, PTL

LEMMA StreamInit == Init => Stream!Init
BY DEF Init, Stream!Init

LEMMA StreamStep ==
  TypeOK /\ InOrder /\ [Next]_vars => [Stream!Next]_(Stream!vars)
<1>. SUFFICES ASSUME TypeOK, InOrder, [Next]_vars
              PROVE  Stream!Next \/ UNCHANGED Stream!vars
  BY DEF Stream!vars
<1>. USE DEF TypeOK
<1>1. CASE ClientReceives
  BY <1>1 DEF ClientReceives, Stream!Next, Stream!Accept
<1>2. CASE ServerForwards
  <2>1. Len(delivered) + 1 \in 1..Len(output)
    BY <1>2 DEF ServerForwards
  <2>2. output[Len(delivered) + 1] = input[Len(delivered) + 1]
    BY <2>1 DEF InOrder
  <2>3. Len(delivered) < Len(input)
    BY <2>1 DEF InOrder
  <2>4. CASE UNCHANGED delivered
    BY <1>2, <2>4 DEF ServerForwards, Stream!vars
  <2>5. CASE delivered' = Append(delivered, output[Len(delivered) + 1])
    BY <1>2, <2>2, <2>3, <2>5 DEF ServerForwards, Stream!Next, Stream!Deliver
  <2>. QED
    BY <1>2, <2>4, <2>5 DEF ServerForwards
<1>3. CASE SenderThread \/ WaiterThread \/ ServerReceives \/ Network
            \/ UNCHANGED vars
  BY <1>3 DEF SenderThread, Poll, SendNext, SendNextRaises, WaitReturns,
     Retransmit, WaiterThread, RecvAck, SetEvent, ServerReceives, Network,
     vars, Stream!vars
<1>. QED
  BY <1>1, <1>2, <1>3 DEF Next

\* The tunnel implements an ordered stream: every step of its five threads and
\* of the network is a step of the stream or none.
THEOREM RefinesStream == Spec => ImplementsStream
BY StreamInit, StreamStep, TypeCorrect, DeliveredInOrder, PTL
   DEF Spec, ImplementsStream, Stream!Spec

-----------------------------------------------------------------------------
(* With a patient timer and no copies, there is one thing under way: the   *)
(* datagram, its acknowledgement, or the signal of the waiter.             *)

Patient == {"early_timeout", "duplicate"} \cap Faults = {}

\* The exchange of datagram n, from the sender thread's wait on.
Sending(n) ==
  /\ ackCh = <<>> /\ wpc = "recv" /\ ~event
  /\ sndCounter = n /\ Len(output) \in {n - 1, n}
  /\ \/ dataCh = <<>>
     \/ dataCh = <<dataCh[1]>> /\ dataCh[1].seq = n

Acknowledging(n) ==
  /\ dataCh = <<>> /\ wpc = "recv" /\ ~event
  /\ sndCounter = n /\ Len(output) = n
  /\ ackCh # <<>> /\ ackCh = <<ackCh[1]>>

Acknowledged(n) ==
  /\ dataCh = <<>> /\ ackCh = <<>>
  /\ sndCounter = n + 1 /\ Len(output) = n
  /\ IF wpc = "set" THEN ~event ELSE event

InStep ==
  /\ \A i \in 1..Len(stamp) : stamp[i] = i
  /\ spc \in {"poll", "get"} =>
       /\ Quiet /\ (spc = "get" => ~event)
       /\ sndCounter = Len(stamp) + 1 /\ Len(output) = Len(stamp)
  /\ spc = "wait" =>
       /\ packet.seq = Len(stamp)
       /\ \/ Sending(Len(stamp))
          \/ Acknowledging(Len(stamp))
          \/ Acknowledged(Len(stamp))

LEMMA OneUnderWay ==
  ASSUME NEW p
  PROVE  /\ Enqueue(<<>>, p) = <<p>>
         /\ \A i \in DOMAIN <<p>> : i = 1
         /\ \A i \in Receivable(<<p>>) : i = 1
         /\ Without(<<p>>, 1) = <<>>
         /\ Receivable(<<>>) = {}
<1>1. Enqueue(<<>>, p) = <<p>>
  BY DatagramsAssumption DEF Enqueue
<1>2. Without(<<p>>, 1) = <<>>
  BY DEF Without, RemoveAt
<1>. QED
  BY <1>1, <1>2 DEF Receivable

LEMMA InStepInit == Init => InStep
BY DEF Init, InStep, Quiet

LEMMA SenderInStep ==
  ASSUME Patient, TypeOK, StampsAhead, InStep, SenderThread
  PROVE  InStep'
<1>. DEFINE n == Len(stamp)
<1>0. n \in Nat /\ stamp \in Seq(Nat) /\ sndCounter \in Nat /\ event \in BOOLEAN
  BY DEF TypeOK
<1>1. CASE Poll
  BY <1>0, <1>1 DEF Poll, InStep, Quiet
<1>2. CASE SendNext
  <2>. DEFINE p == AddSeq(input[taken + 1])
  <2>1. /\ Quiet /\ ~event /\ sndCounter = n + 1 /\ Len(output) = n
        /\ \A i \in 1..n : stamp[i] = i
    BY <1>2 DEF SendNext, InStep
  <2>2. /\ stamp' = Append(stamp, n + 1) /\ packet' = p /\ p.seq = n + 1
        /\ UNCHANGED <<event, sndCounter, wpc, ackCh, output>>
        /\ \/ dataCh' = Enqueue(dataCh, p) /\ spc' = "wait"
           \/ spc' = "dead"
    BY <1>2, <2>1 DEF SendNext, SendTo, AddSeq
  <2>3. Len(stamp') = n + 1 /\ \A i \in 1..(n + 1) : stamp'[i] = i
    BY <1>0, <2>1, <2>2
  <2>. HIDE DEF p
  <2>4. CASE spc' = "dead"
    BY <2>3, <2>4 DEF InStep
  <2>5. CASE dataCh' = Enqueue(dataCh, p) /\ spc' = "wait"
    <3>1. dataCh' = <<p>>
      BY <2>1, <2>5, OneUnderWay DEF Quiet
    <3>2. Sending(n)'
      BY <1>0, <2>1, <2>2, <2>3, <3>1 DEF Sending, Quiet
    <3>. QED
      BY <2>2, <2>3, <2>5, <3>2 DEF InStep
  <2>. QED
    BY <2>2, <2>4, <2>5
<1>3. CASE SendNextRaises
  BY <1>3 DEF SendNextRaises, InStep
<1>4. CASE WaitReturns
  <2>1. Acknowledged(n) /\ wpc # "set"
    BY <1>4 DEF WaitReturns, InStep, Sending, Acknowledging, Acknowledged
  <2>2. wpc = "recv"
    BY <2>1 DEF TypeOK
  <2>. QED
    BY <1>0, <1>4, <2>1, <2>2 DEF WaitReturns, InStep, Acknowledged, Quiet
<1>5. CASE Retransmit
  <2>1. Quiet /\ ~event /\ packet.seq = n /\ spc = "wait"
    BY <1>5 DEF Retransmit, InStep, Patient
  <2>2. sndCounter = n /\ Len(output) \in {n - 1, n}
    BY <2>1, EmptySeq
    DEF InStep, Sending, Acknowledging, Acknowledged, Quiet
  <2>3. /\ UNCHANGED <<stamp, packet, event, sndCounter, wpc, ackCh, output>>
        /\ \/ dataCh' = Enqueue(dataCh, packet) /\ spc' = "wait"
           \/ spc' = "dead"
    BY <1>5 DEF Retransmit, SendTo
  <2>4. CASE spc' = "dead"
    BY <2>3, <2>4 DEF InStep
  <2>5. CASE dataCh' = Enqueue(dataCh, packet) /\ spc' = "wait"
    <3>1. dataCh' = <<packet>>
      BY <2>1, <2>5, OneUnderWay DEF Quiet
    <3>2. Sending(n)'
      BY <2>1, <2>2, <2>3, <3>1 DEF Sending, Quiet
    <3>. QED
      BY <2>1, <2>3, <2>5, <3>2 DEF InStep
  <2>. QED
    BY <2>3, <2>4, <2>5
<1>. QED
  BY <1>1, <1>2, <1>3, <1>4, <1>5 DEF SenderThread

\* The other steps of the exchange leave the sender thread where it is.
LEMMA OthersInStep ==
  ASSUME Patient, TypeOK, InStep, UNCHANGED <<stamp, packet, spc>>,
         spc = "poll" => Quiet' /\ UNCHANGED <<sndCounter, output>>,
         spc = "get" => Quiet' /\ UNCHANGED <<sndCounter, output, event>>,
         spc = "wait" => \/ Sending(Len(stamp))'
                         \/ Acknowledging(Len(stamp))'
                         \/ Acknowledged(Len(stamp))'
  PROVE  InStep'
BY DEF InStep

LEMMA WaiterInStep ==
  ASSUME Patient, TypeOK, InStep, WaiterThread
  PROVE  InStep'
<1>. DEFINE n == Len(stamp)
<1>0. UNCHANGED <<stamp, packet, spc>> /\ n \in Nat
  BY DEF WaiterThread, RecvAck, SetEvent, TypeOK
<1>1. CASE RecvAck
  <2>1. PICK i \in Receivable(ackCh) : ackCh' = Without(ackCh, i)
    BY <1>1 DEF RecvAck
  <2>2. ackCh # <<>>
    BY <2>1, OneUnderWay
  <2>3. CASE spc = "wait"
    <3>1. Acknowledging(n)
      BY <2>2, <2>3 DEF InStep, Sending, Acknowledged
    <3>2. ackCh' = <<>>
      BY <2>1, <3>1, OneUnderWay DEF Acknowledging
    <3>3. Acknowledged(n)'
      BY <1>0, <1>1, <3>1, <3>2 DEF Acknowledging, Acknowledged, RecvAck
    <3>. QED
      BY <1>0, <2>3, <3>3, OthersInStep
  <2>4. CASE spc \in {"poll", "get"}
    BY <2>2, <2>4 DEF InStep, Quiet
  <2>5. CASE spc = "dead"
    BY <1>0, <2>5 DEF InStep
  <2>. QED
    BY <2>3, <2>4, <2>5 DEF TypeOK
<1>2. CASE SetEvent
  <2>1. CASE spc = "wait"
    <3>1. Acknowledged(n)
      BY <1>2, <2>1 DEF InStep, Sending, Acknowledging, SetEvent
    <3>2. Acknowledged(n)'
      BY <1>0, <1>2, <3>1 DEF Acknowledged, SetEvent
    <3>. QED
      BY <1>0, <2>1, <3>2, OthersInStep
  <2>2. CASE spc \in {"poll", "get"}
    BY <1>2, <2>2 DEF InStep, Quiet, SetEvent
  <2>3. CASE spc = "dead"
    BY <1>0, <2>3 DEF InStep
  <2>. QED
    BY <2>1, <2>2, <2>3 DEF TypeOK
<1>. QED
  BY <1>1, <1>2 DEF WaiterThread

LEMMA ServerInStep ==
  ASSUME Patient, TypeOK, ReceiverInStep, InStep, ServerReceives
  PROVE  InStep'
<1>. DEFINE n == Len(stamp)
<1>0. /\ UNCHANGED <<stamp, packet, spc, event, wpc, sndCounter>>
      /\ n \in Nat /\ output \in Seq(Data) /\ rcvCounter = Len(output)
  BY DEF ServerReceives, TypeOK, ReceiverInStep
<1>1. PICK i \in Receivable(dataCh) :
        /\ dataCh' = Without(dataCh, i)
        /\ IF IsNext(dataCh[i]) THEN Put(dataCh[i]) ELSE UNCHANGED receiverVars
        /\ ackCh' = Acknowledge(dataCh[i])
  BY DEF ServerReceives
<1>2. dataCh # <<>>
  BY <1>1, OneUnderWay
<1>3. CASE spc = "wait"
  <2>1. Sending(n)
    BY <1>2, <1>3 DEF InStep, Acknowledging, Acknowledged
  <2>2. PICK p : dataCh = <<p>> /\ p.seq = n
    BY <1>2, <2>1 DEF Sending
  <2>3. i = 1 /\ dataCh[i] = p /\ dataCh' = <<>>
    BY <1>1, <2>2, OneUnderWay
  <2>4. ackCh' = <<p>>
    BY <1>1, <2>1, <2>3, OneUnderWay DEF Acknowledge, Sending
  <2>5. Len(output') = n
    <3>1. CASE Len(output) = n
      BY <1>0, <1>1, <2>2, <2>3, <3>1 DEF IsNext
    <3>2. CASE Len(output) = n - 1
      <4>1. Put(p)
        BY <1>0, <1>1, <2>2, <2>3, <3>2 DEF IsNext
      <4>. QED
        BY <1>0, <3>2, <4>1 DEF Put
    <3>. QED
      BY <2>1, <3>1, <3>2 DEF Sending
  <2>6. Acknowledging(n)'
    BY <1>0, <2>1, <2>3, <2>4, <2>5 DEF Sending, Acknowledging
  <2>. QED
    BY <1>0, <1>3, <2>6, OthersInStep
<1>4. CASE spc \in {"poll", "get"}
  BY <1>2, <1>4 DEF InStep, Quiet
<1>5. CASE spc = "dead"
  BY <1>0, <1>5 DEF InStep
<1>. QED
  BY <1>3, <1>4, <1>5 DEF TypeOK

\* Without copies the network can only lose the one thing under way.
LEMMA NetworkInStep ==
  ASSUME Patient, TypeOK, InStep, Network
  PROVE  InStep'
<1>. DEFINE n == Len(stamp)
<1>0. UNCHANGED <<stamp, packet, spc, event, wpc, sndCounter, output>> /\ n \in Nat
  BY DEF Network, TypeOK
<1>1. \/ \E i \in DOMAIN dataCh : dataCh' = Without(dataCh, i) /\ ackCh' = ackCh
      \/ \E i \in DOMAIN ackCh : ackCh' = Without(ackCh, i) /\ dataCh' = dataCh
  BY DEF Network, Loses, Duplicates, Patient
<1>2. CASE spc = "wait"
  <2>1. CASE \E i \in DOMAIN dataCh : dataCh' = Without(dataCh, i) /\ ackCh' = ackCh
    <3>1. Sending(n)
      BY <1>2, <2>1 DEF InStep, Acknowledging, Acknowledged
    <3>2. dataCh = <<dataCh[1]>>
      BY <2>1, <3>1 DEF Sending
    <3>3. PICK i \in DOMAIN dataCh : dataCh' = Without(dataCh, i)
      BY <2>1
    <3>4. i = 1 /\ dataCh' = <<>>
      BY <3>2, <3>3, OneUnderWay
    <3>5. Sending(n)'
      BY <1>0, <2>1, <3>1, <3>4 DEF Sending
    <3>. QED
      BY <1>0, <1>2, <3>5, OthersInStep
  <2>2. CASE \E i \in DOMAIN ackCh : ackCh' = Without(ackCh, i) /\ dataCh' = dataCh
    <3>1. Acknowledging(n)
      BY <1>2, <2>2 DEF InStep, Sending, Acknowledged
    <3>2. ackCh = <<ackCh[1]>>
      BY <3>1 DEF Acknowledging
    <3>3. PICK i \in DOMAIN ackCh : ackCh' = Without(ackCh, i)
      BY <2>2
    <3>4. i = 1 /\ ackCh' = <<>>
      BY <3>2, <3>3, OneUnderWay
    <3>5. Sending(n)'
      BY <1>0, <2>2, <3>1, <3>4 DEF Sending, Acknowledging
    <3>. QED
      BY <1>0, <1>2, <3>5, OthersInStep
  <2>. QED
    BY <1>1, <2>1, <2>2
<1>3. CASE spc \in {"poll", "get"}
  BY <1>1, <1>3 DEF InStep, Quiet
<1>4. CASE spc = "dead"
  BY <1>0, <1>4 DEF InStep
<1>. QED
  BY <1>2, <1>3, <1>4 DEF TypeOK

LEMMA InStepStep ==
  ASSUME Patient
  PROVE  IInv /\ InStep /\ [Next]_vars => InStep'
<1>. SUFFICES ASSUME IInv, InStep, [Next]_vars PROVE InStep'
  OBVIOUS
<1>0. TypeOK /\ StampsAhead /\ ReceiverInStep
  BY DEF IInv
<1>1. CASE ClientReceives \/ ServerForwards \/ UNCHANGED vars
  <2>1. UNCHANGED <<stamp, packet, spc, event, wpc, sndCounter, output, dataCh, ackCh>>
    BY <1>1 DEF ClientReceives, ServerForwards, vars
  <2>. QED
    BY <2>1 DEF InStep, Quiet, Sending, Acknowledging, Acknowledged
<1>. QED
  BY <1>0, <1>1, SenderInStep, WaiterInStep, ServerInStep, NetworkInStep DEF Next

\* With a timer longer than a round trip and a network that makes no copies,
\* the sender thread goes on to the next datagram only when the receiver has
\* accepted this one, whatever is lost.
THEOREM AckedIsAccepted ==
  ASSUME Patient
  PROVE  Spec => []AckMeansAccepted
<1>1. InStep => AckMeansAccepted
  BY DEF InStep, AckMeansAccepted
<1>2. IInv /\ InStep /\ [Next]_vars => InStep'
  BY InStepStep
<1>. QED
  BY <1>1, <1>2, InStepInit, Invariance, PTL DEF Spec
=============================================================================
