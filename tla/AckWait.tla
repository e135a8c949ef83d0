------------------------------ MODULE AckWait ------------------------------
(***************************************************************************)
(* The acknowledge-and-wait tunnel of hw4-py.                              *)
(*                                                                         *)
(* On the client, a ReliableChannelReceiver thread puts every datagram of  *)
(* the local application on a queue.  AckWaitUdtSender empties the queue   *)
(* with two threads that share self.counter and a threading.Event: the     *)
(* sender thread stamps one datagram at a time with the counter, sends it  *)
(* and repeats it every 0.2 s until the event is set; the waiter thread    *)
(* adds one to the counter and sets the event for EVERY datagram that      *)
(* comes back, whatever it acknowledges.                                   *)
(*                                                                         *)
(* On the server, AckWaitUdtReceiver accepts the datagram whose number is  *)
(* the one after its own counter, acknowledges every datagram, accepted    *)
(* or not, and a ReliableChannelSender thread forwards what was accepted   *)
(* to the remote application.                                              *)
(***************************************************************************)
EXTENDS Datagrams

CONSTANTS
  Data,        \* the payloads the applications exchange
  Text,        \* the payloads that data.decode() accepts (UTF-8)
  MaxInput,    \* bound: how many datagrams the application hands over
  MaxCounter   \* bound: the sender's counter stops growing here

ASSUME AckWaitAssumption ==
  /\ Text \subseteq Data
  /\ MaxInput \in Nat
  /\ MaxCounter \in Nat

VARIABLES
  input,       \* every datagram put on the client's queue, in order
  taken,       \* how many of them queue.get() has returned: the rest is queued
  stamp,       \* history: the number each sent datagram was stamped with
  packet,      \* the sender thread's local variable data
  spc,         \* where the sender thread is
  event,       \* the threading.Event of snd_data
  sndCounter,  \* AckWaitUdtSender.counter
  wpc,         \* where the waiter thread is
  dataCh,      \* datagrams under way to the server
  ackCh,       \* acknowledgements under way to the client
  rcvCounter,  \* AckWaitUdtReceiver.counter
  output,      \* every payload put on the server's queue, in order
  delivered,   \* every payload forwarded to the remote application
  forwarding   \* the forwarding thread runs: no exception ended it

senderVars   == <<taken, stamp, packet, spc>>
waiterVars   == <<wpc, sndCounter>>
receiverVars == <<rcvCounter, output>>
forwarderVars == <<delivered, forwarding>>
vars == <<input, senderVars, event, waiterVars, dataCh, ackCh,
          receiverVars, forwarderVars>>

Packets == [seq : Nat, data : Data]

TypeOK ==
  /\ input \in Seq(Data)
  /\ taken \in 0..Len(input)
  /\ stamp \in Seq(Nat)
  /\ spc \in {"poll", "get", "wait", "dead"}
  /\ spc = "wait" => packet \in Packets
  /\ event \in BOOLEAN
  /\ sndCounter \in Nat
  /\ wpc \in {"recv", "set"}
  /\ dataCh \in Seq(Packets)
  /\ ackCh \in Seq(Packets)
  /\ rcvCounter \in Nat
  /\ output \in Seq(Data)
  /\ delivered \in Seq(Data)
  /\ forwarding \in BOOLEAN

Init ==
  /\ input = <<>> /\ output = <<>> /\ delivered = <<>> /\ forwarding = TRUE
  /\ taken = 0 /\ stamp = <<>> /\ packet = <<>>
  /\ spc = "poll" /\ wpc = "recv" /\ event = FALSE
  /\ sndCounter = 1 /\ rcvCounter = 0
  /\ dataCh = <<>> /\ ackCh = <<>>

-----------------------------------------------------------------------------
(* Client: ReliableChannelReceiver.rcv_data, its own thread.               *)

\* recvfrom on the listening socket, then data_queue.put(data).
ClientReceives ==
  /\ Len(input) < MaxInput
  /\ \E d \in Data : input' = Append(input, d)
  /\ UNCHANGED <<senderVars, event, waiterVars, dataCh, ackCh, receiverVars,
                 forwarderVars>>

-----------------------------------------------------------------------------
(* Client: the sender thread, AckWaitUdtSender.__send_if_ack.              *)

\* Mutant: the event of the previous datagram is not cleared.
PollKeepsEvent ==
  /\ spc = "poll"
  /\ taken < Len(input)
  /\ spc' = "get"
  /\ UNCHANGED <<input, taken, stamp, packet, event, waiterVars, dataCh, ackCh,
                 receiverVars, forwarderVars>>

\* if not queue.empty(): event.clear().  Only this thread takes from the
\* queue, so that it stays non-empty until the get below.
Poll ==
  /\ spc = "poll"
  /\ taken < Len(input)
  /\ event' = FALSE
  /\ spc' = "get"
  /\ UNCHANGED <<input, taken, stamp, packet, waiterVars, dataCh, ackCh,
                 receiverVars, forwarderVars>>

\* self.sock.sendto(data): the datagram is on its way, and the thread goes on
\* at label pc; or the call raises, which nothing catches, and the thread ends.
SendTo(p, pc) ==
  \/ /\ dataCh' = Enqueue(dataCh, p)
     /\ spc' = pc
  \/ /\ "send_raises" \in Faults
     /\ spc' = "dead"
     /\ UNCHANGED dataCh

\* __add_seq: the number in front of the payload is the counter of now.
AddSeq(d) == [seq |-> sndCounter, data |-> d]

\* data = self.__add_seq(queue.get()); self.sock.sendto(data).
SendNext ==
  /\ spc = "get"
  /\ input[taken + 1] \in Text
  /\ taken' = taken + 1
  /\ packet' = AddSeq(input[taken + 1])
  /\ stamp' = Append(stamp, sndCounter)
  /\ SendTo(AddSeq(input[taken + 1]), "wait")
  /\ UNCHANGED <<input, event, waiterVars, ackCh, receiverVars, forwarderVars>>

\* queue.get() returned a payload that data.decode() refuses: the exception
\* ends the thread, and the payload is gone.
SendNextRaises ==
  /\ spc = "get"
  /\ input[taken + 1] \notin Text
  /\ taken' = taken + 1
  /\ spc' = "dead"
  /\ UNCHANGED <<input, stamp, packet, event, waiterVars, dataCh, ackCh,
                 receiverVars, forwarderVars>>

\* event.wait(.2) returned True: on to the next datagram of the queue.
WaitReturns ==
  /\ spc = "wait"
  /\ event
  /\ spc' = "poll"
  /\ UNCHANGED <<input, taken, stamp, packet, event, waiterVars, dataCh,
                 ackCh, receiverVars, forwarderVars>>

\* Nothing of the exchange is under way any more.
Quiet == dataCh = <<>> /\ ackCh = <<>> /\ wpc = "recv"

\* Mutant: an if in place of the while, one repetition and no more.
RetransmitOnce ==
  /\ spc = "wait"
  /\ ~event
  /\ "early_timeout" \in Faults \/ Quiet
  /\ SendTo(packet, "poll")
  /\ UNCHANGED <<input, taken, stamp, packet, event, waiterVars, ackCh,
                 receiverVars, forwarderVars>>

\* event.wait(.2) returned False: the same datagram, with the number it was
\* first stamped with, is sent again.  Without early timeouts 0.2 s is longer
\* than any round trip, and the timer runs out only when nothing is under way.
\* (An event set between the wait and the sendto changes nothing for either:
\* the two are one step.)
Retransmit ==
  /\ spc = "wait"
  /\ ~event
  /\ "early_timeout" \in Faults \/ Quiet
  /\ SendTo(packet, "wait")
  /\ UNCHANGED <<input, taken, stamp, packet, event, waiterVars, ackCh,
                 receiverVars, forwarderVars>>

-----------------------------------------------------------------------------
(* Client: the waiter thread, AckWaitUdtSender.__wait_for_ack.             *)

\* recvfrom returned any datagram at all: self.counter += 1.  While there is
\* none the call raises and the loop goes round without a change of state.
RecvAck ==
  /\ wpc = "recv"
  /\ sndCounter < MaxCounter
  /\ \E i \in Receivable(ackCh) : ackCh' = Without(ackCh, i)
  /\ sndCounter' = sndCounter + 1
  /\ wpc' = "set"
  /\ UNCHANGED <<input, senderVars, event, dataCh, receiverVars, forwarderVars>>

\* event.set(), which the sender thread may see much later than the counter.
SetEvent ==
  /\ wpc = "set"
  /\ event' = TRUE
  /\ wpc' = "recv"
  /\ UNCHANGED <<input, senderVars, sndCounter, dataCh, ackCh, receiverVars,
                 forwarderVars>>

-----------------------------------------------------------------------------
(* Server: AckWaitUdtReceiver.rcv_data, its own thread.                    *)

\* Mutants: numbers past the next one are accepted too; the number is queued
\* with the payload; only what is accepted is acknowledged.
IsNextOrLater(p) == p.seq >= rcvCounter + 1

PutWithNumber(p) ==
  /\ rcvCounter' = rcvCounter + 1
  /\ output' = Append(output, p)

AcknowledgeNew(p) == IF p.seq = rcvCounter + 1 THEN Enqueue(ackCh, p) ELSE ackCh

\* int(seq) == self.counter + 1: the datagram the receiver waits for.
IsNext(p) == p.seq = rcvCounter + 1

\* self.counter += 1; data_queue.put(payload).
Put(p) ==
  /\ rcvCounter' = rcvCounter + 1
  /\ output' = Append(output, p.data)

\* sendto(b"ack of " + data, address): on a duplicate as well.
Acknowledge(p) == Enqueue(ackCh, p)

\* One round of the loop: take a datagram, accept it if it is the next one,
\* and acknowledge it in either case.
ServerReceives ==
  /\ \E i \in Receivable(dataCh) :
       /\ dataCh' = Without(dataCh, i)
       /\ IF IsNext(dataCh[i]) THEN Put(dataCh[i]) ELSE UNCHANGED receiverVars
       /\ ackCh' = Acknowledge(dataCh[i])
  /\ UNCHANGED <<input, senderVars, event, waiterVars, forwarderVars>>

-----------------------------------------------------------------------------
(* Server: ReliableChannelSender.snd_data, its own thread.                 *)

\* Mutant: the queue is read from its newest end.
ServerForwardsNewest ==
  /\ forwarding
  /\ Len(delivered) < Len(output)
  /\ delivered' = Append(delivered, output[Len(output)])
  /\ UNCHANGED <<input, senderVars, event, waiterVars, dataCh, ackCh,
                 receiverVars, forwarding>>

\* if not data_queue.empty(): data_queue.get() and sendto the application,
\* which may raise here as well and end the thread.
ServerForwards ==
  /\ forwarding
  /\ Len(delivered) < Len(output)
  /\ \/ /\ delivered' = Append(delivered, output[Len(delivered) + 1])
        /\ UNCHANGED forwarding
     \/ /\ "send_raises" \in Faults
        /\ forwarding' = FALSE
        /\ UNCHANGED delivered
  /\ UNCHANGED <<input, senderVars, event, waiterVars, dataCh, ackCh,
                 receiverVars>>

-----------------------------------------------------------------------------
(* The network between the two, which is not under src/.                   *)

Network ==
  /\ \/ /\ Loses(dataCh, dataCh') \/ Duplicates(dataCh, dataCh')
        /\ UNCHANGED ackCh
     \/ /\ Loses(ackCh, ackCh') \/ Duplicates(ackCh, ackCh')
        /\ UNCHANGED dataCh
  /\ UNCHANGED <<input, senderVars, event, waiterVars, receiverVars, forwarderVars>>

-----------------------------------------------------------------------------
SenderThread == Poll \/ SendNext \/ SendNextRaises \/ WaitReturns \/ Retransmit

WaiterThread == RecvAck \/ SetEvent

Next ==
  \/ ClientReceives
  \/ SenderThread
  \/ WaiterThread
  \/ ServerReceives
  \/ ServerForwards
  \/ Network

Spec == Init /\ [][Next]_vars

\* Every thread is a loop the scheduler keeps running, and a network that
\* loses datagrams does not lose all of them: hence strong fairness for the
\* two receiving ends.  Nothing forces the application to send, the network
\* to misbehave, or a call to raise.
FairSpec ==
  /\ Spec
  /\ WF_vars(Poll) /\ WF_vars(SendNext) /\ WF_vars(SendNextRaises)
  /\ WF_vars(WaitReturns) /\ WF_vars(Retransmit)
  /\ SF_vars(RecvAck) /\ WF_vars(SetEvent)
  /\ SF_vars(ServerReceives) /\ WF_vars(ServerForwards)

-----------------------------------------------------------------------------
(* Properties                                                              *)

\* Whatever the network and the scheduler do, what the server's queue and
\* the remote application get is what the local application sent, in the same
\* order, without a gap, a copy or a mix-up, although two datagrams may carry
\* one number and the counter jumps (AckWaitUdtReceiver.rcv_data).
InOrder ==
  /\ Len(delivered) <= Len(output)
  /\ Len(output) <= taken
  /\ \A i \in 1..Len(delivered) : delivered[i] = output[i]
  /\ \A i \in 1..Len(output) : output[i] = input[i]

\* Everything accepted carried its own position as its number.  So once the
\* counter ran ahead of the datagrams (an acknowledgement counted twice), the
\* receiver accepts nothing past the gap, whatever is repeated, duplicated or
\* reordered later: it never resynchronises on a wrong number.
NothingPastGap ==
  \A i \in 1..Len(output) : i <= Len(stamp) /\ stamp[i] = i

\* The argument behind InOrder, and what the order "counter first, event
\* second" of __wait_for_ack is for.  The counter always covers the datagrams
\* stamped so far, an acknowledgement being counted and an event being set: it
\* may run ahead, it never falls behind and hands out a number that was used.
Covers(n) ==
  sndCounter >= n + (IF wpc = "set" THEN 1 ELSE 0)
                  + (IF event /\ spc # "poll" THEN 1 ELSE 0)

CounterCovers ==
  /\ spc \in {"poll", "get"} => Covers(taken + 1)
  /\ spc = "wait" => Covers(taken)

\* With a timer longer than any round trip, the sender thread is back at its
\* queue only when the receiver accepted everything it sent: the counters of
\* the two sides are in step, however many datagrams and acknowledgements were
\* lost (while not event.wait(.2), and the acknowledgement of duplicates).
AckMeansAccepted ==
  /\ spc \in {"poll", "get"} => Len(output) = Len(stamp)
  /\ \A i \in 1..Len(stamp) : stamp[i] = i

\* What the tunnel promises its two ends.
Stream == INSTANCE OrderedStream

\* Under every fault the tunnel is an ordered stream that may stop: what comes
\* out of AckWaitUdtReceiver and ReliableChannelSender is a prefix of what went
\* into ReliableChannelReceiver, and it only grows.
ImplementsStream == Stream!Spec

\* With a timer longer than any round trip and a network that only loses
\* datagrams, it does not stop: the retransmissions of __send_if_ack and the
\* acknowledgement of duplicates get every payload through.
ImplementsFairStream == Stream!FairSpec
=============================================================================
