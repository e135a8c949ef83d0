----------------------------- MODULE StunClient -----------------------------
(***************************************************************************)
(* The STUN client: a sender and a receiver thread that share one socket   *)
(* and the fields of StunClient, and the main thread of runner.py, which   *)
(* reads the terminal.                                                     *)
(***************************************************************************)
EXTENDS StunMessages

CONSTANTS
  Haste,       \* what the users may do before the others are ready
  MaxLines     \* bound: lines typed at one client

\* "start": a client is started although another one is still registering
\* "type":  a line is typed although the peer is not connected yet
ASSUME ClientAssumption ==
  /\ Haste \subseteq {"start", "type"}
  /\ MaxLines \in Nat

VARIABLES
  sndpc,       \* sender thread: "off", "request", "loop"
  rcvpc,       \* receiver thread: "recv", "establish", "dead"
  conn,        \* connection_state
  dp,          \* (dp_ip, dp_port)
  typed,       \* how many lines were put on send_buffer
  sent,        \* how many of them were taken off it and sent
  heard        \* history: the lines printed, each by its writer and number

clientVars == <<sndpc, rcvpc, conn, dp, typed, sent, heard>>

Lines == Clients \X (1..MaxLines)

ClientTypeOK ==
  /\ sndpc \in [Clients -> {"off", "request", "loop"}]
  /\ rcvpc \in [Clients -> {"recv", "establish", "dead"}]
  /\ conn \in [Clients -> {"NO_CONNECTION", "STUN_SERVER_WAIT",
                           "PEER_CONNECTION_ESTABLISHED"}]
  /\ dp \in [Clients -> Clients \cup {NoPeer}]
  /\ typed \in [Clients -> 0..MaxLines]
  /\ sent \in [Clients -> 0..MaxLines]
  /\ heard \in [Clients -> SUBSET Lines]

ClientInit ==
  /\ sndpc = [c \in Clients |-> "off"]
  /\ rcvpc = [c \in Clients |-> "recv"]
  /\ conn = [c \in Clients |-> "NO_CONNECTION"]
  /\ dp = [c \in Clients |-> NoPeer]
  /\ typed = [c \in Clients |-> 0]
  /\ sent = [c \in Clients |-> 0]
  /\ heard = [c \in Clients |-> {}]

Connected(c) == conn[c] = "PEER_CONNECTION_ESTABLISHED"

-----------------------------------------------------------------------------
(* The sender thread.                                                      *)

\* The others have registered and asked, and the server has seen it.
OthersSettled(c) ==
  \A d \in Clients \ {c} :
    sndpc[d] = "off" \/ (sndpc[d] = "loop" /\ net[<<d, Server>>] = <<>>)

\* The client is started: both messages are made, the state is set, and the
\* indication is sent.  No datagram can reach the client before that.
Start(c) ==
  /\ sndpc[c] = "off"
  /\ "start" \in Haste \/ OthersSettled(c)
  /\ conn' = [conn EXCEPT ![c] = "STUN_SERVER_WAIT"]
  /\ net' = Sent(net, c, Server, IdIndication(c))
  /\ sndpc' = [sndpc EXCEPT ![c] = "request"]
  /\ UNCHANGED <<rcvpc, dp, typed, sent, heard>>

SendRequest(c) ==
  /\ sndpc[c] = "request"
  /\ net' = Sent(net, c, Server, PeerRequest(c))
  /\ sndpc' = [sndpc EXCEPT ![c] = "loop"]
  /\ UNCHANGED <<rcvpc, conn, dp, typed, sent, heard>>

\* Mutant: the line that was sent before is sent again.
LastLine(c) == Line(c, sent[c])

\* send_buffer.get(): the lines come in the order they were typed.
NextLine(c) == Line(c, sent[c] + 1)

\* In the loop, once connected: send_buffer.get(), sendto the peer.
SendLine(c) ==
  /\ sndpc[c] = "loop"
  /\ Connected(c)
  /\ sent[c] < typed[c]
  /\ sent' = [sent EXCEPT ![c] = @ + 1]
  /\ net' = Sent(net, c, dp[c], NextLine(c))
  /\ UNCHANGED <<sndpc, rcvpc, conn, dp, typed, heard>>

-----------------------------------------------------------------------------
(* The main thread: does_peer_connected, input, fill_buffer.               *)

TypeLine(c) ==
  /\ Connected(c)
  /\ typed[c] < MaxLines
  /\ "type" \in Haste \/ Connected(dp[c])
  /\ typed' = [typed EXCEPT ![c] = @ + 1]
  /\ UNCHANGED <<net, sndpc, rcvpc, conn, dp, sent, heard>>

-----------------------------------------------------------------------------
(* The receiver thread.                                                    *)

\* Mutant: any success response will do.
AnySuccess(c, m) == m.type = "SUCCESS_RESPONSE"

\* rm_id in self.transactions, as a request, and the type is success.
AnswersMine(c, m) ==
  m.type = "SUCCESS_RESPONSE" /\ m.tid = Tid(c, "REQUEST")

\* The datagram m goes to the receiver thread of c, which goes on at label pc.
Receives(c, src, i, pc) ==
  /\ net' = Taken(net, src, c, i)
  /\ rcvpc' = [rcvpc EXCEPT ![c] = pc]

\* Mutant: the state is set before the destination.
StateFirst(c, src, i) ==
  /\ conn[c] = "STUN_SERVER_WAIT"
  /\ AnswersMine(c, net[<<src, c>>][i])
  /\ conn' = [conn EXCEPT ![c] = "PEER_CONNECTION_ESTABLISHED"]
  /\ Receives(c, src, i, "establish")
  /\ UNCHANGED <<sndpc, dp, typed, sent, heard>>

\* Waiting for the server: the answer to the request sets the destination.
TakeAnswer(c, src, i) ==
  LET m == net[<<src, c>>][i]
  IN  /\ conn[c] = "STUN_SERVER_WAIT"
      /\ AnswersMine(c, m)
      /\ dp' = [dp EXCEPT ![c] = m.payload]
      /\ Receives(c, src, i, "establish")
      /\ UNCHANGED <<sndpc, conn, typed, sent, heard>>

\* The next line: from here on the other two threads use the destination.
Establish(c) ==
  /\ rcvpc[c] = "establish"
  /\ conn' = [conn EXCEPT ![c] = "PEER_CONNECTION_ESTABLISHED"]
  /\ rcvpc' = [rcvpc EXCEPT ![c] = "recv"]
  /\ UNCHANGED <<net, sndpc, dp, typed, sent, heard>>

\* Waiting for the server: an indication is logged, a response to somebody
\* else's transaction is ignored.
IgnoreStun(c, src, i) ==
  LET m == net[<<src, c>>][i]
  IN  /\ conn[c] = "STUN_SERVER_WAIT"
      /\ IsStun(m) /\ ~AnswersMine(c, m)
      /\ Receives(c, src, i, "recv")
      /\ UNCHANGED <<sndpc, conn, dp, typed, sent, heard>>

\* Waiting for the server: StunMessage.decode raises on a line of the peer.
LineTooEarly(c, src, i) ==
  /\ conn[c] = "STUN_SERVER_WAIT"
  /\ ~IsStun(net[<<src, c>>][i])
  /\ Receives(c, src, i, "dead")
  /\ UNCHANGED <<sndpc, conn, dp, typed, sent, heard>>

\* Connected: the line is printed, whoever sent it.
Hear(c, src, i) ==
  LET m == net[<<src, c>>][i]
  IN  /\ Connected(c)
      /\ ~IsStun(m)
      /\ heard' = [heard EXCEPT ![c] = @ \cup {m.line}]
      /\ Receives(c, src, i, "recv")
      /\ UNCHANGED <<sndpc, conn, dp, typed, sent>>

\* Connected: buffer.decode() raises on a STUN message.
StunTooLate(c, src, i) ==
  /\ Connected(c)
  /\ IsStun(net[<<src, c>>][i])
  /\ Receives(c, src, i, "dead")
  /\ UNCHANGED <<sndpc, conn, dp, typed, sent, heard>>

ReceiverRound(c, src, i) ==
  \/ TakeAnswer(c, src, i)
  \/ IgnoreStun(c, src, i)
  \/ LineTooEarly(c, src, i)
  \/ Hear(c, src, i)
  \/ StunTooLate(c, src, i)

\* recvfrom(BUFFER_SIZE) returned a datagram from address src.
ReceiverStep(c, src) ==
  /\ rcvpc[c] = "recv"
  /\ \E i \in Receivable(net[<<src, c>>]) : ReceiverRound(c, src, i)
=============================================================================
