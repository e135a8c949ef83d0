---------------------------- MODULE HolePunching ----------------------------
(***************************************************************************)
(* Server, clients and network of UDP-Hole-Punching put together, and what *)
(* the rendezvous must and does achieve.                                   *)
(***************************************************************************)
EXTENDS StunServer, StunClient

vars == <<net, serverVars, clientVars>>

\* Whatever one address may send to another.
Messages ==
       [type : {"INDICATION"}, tid : Tids, payload : PeerIds \cup Clients]
  \cup [type : {"REQUEST"}, tid : Tids, payload : PeerIds]
  \cup [type : {"SUCCESS_RESPONSE"}, tid : Tids, payload : Clients]
  \cup [type : {"TEXT"}, line : Lines]

TypeOK ==
  /\ net \in [Addresses \X Addresses -> Seq(Messages)]
  /\ ServerTypeOK
  /\ ClientTypeOK

Init == NetInit /\ ServerInit /\ ClientInit

SenderThread(c) == Start(c) \/ SendRequest(c) \/ SendLine(c)

ReceiverThread(c) ==
  \/ \E src \in Addresses : ReceiverStep(c, src)
  \/ Establish(c)

Next ==
  \/ \E c \in Clients :
       \/ (SenderThread(c) \/ TypeLine(c) \/ ReceiverThread(c)) /\ UNCHANGED serverVars
       \/ ServerStep(c) /\ UNCHANGED clientVars
  \/ NetFaults /\ UNCHANGED <<serverVars, clientVars>>

Spec == Init /\ [][Next]_vars

\* Every thread runs whenever it can; recvfrom takes the datagrams of all
\* senders in turn.  Nobody has to start a client or to type.
FairSpec ==
  /\ Spec
  /\ \A c \in Clients :
       /\ WF_vars((SendRequest(c) \/ SendLine(c)) /\ UNCHANGED serverVars)
       /\ WF_vars(Establish(c) /\ UNCHANGED serverVars)
       /\ WF_vars(ServerStep(c) /\ UNCHANGED clientVars)
       /\ \A src \in Addresses :
            WF_vars(ReceiverStep(c, src) /\ UNCHANGED serverVars)

-----------------------------------------------------------------------------
(* Safety                                                                  *)

\* A client is only ever connected to one that registered under the id it
\* asked for, and some client of that id asked for this one's: whatever is
\* lost, copied or reordered, and although an id may be registered again by
\* a client that was restarted (the match of __handle_request, and the
\* transaction id the client compares in __receive_thread).
PairingByName ==
  \A c \in Clients :
    dp[c] # NoPeer =>
      /\ CId(dp[c]) = DestPeerId(c)
      /\ \E d \in Clients : CId(d) = CId(dp[c]) /\ DestPeerId(d) = CId(c)

\* The sender thread and the main thread, which look at connection_state with
\* no lock, never see it established before the destination is set.
DestinationKnown ==
  \A c \in Clients : Connected(c) => dp[c] # NoPeer

\* A client prints whatever reaches its socket once it is connected, and yet
\* only lines of one that asked for its id, and that some client of its id (it
\* alone, if ids are unique) asked for.
HearsOnlyPeer ==
  \A c \in Clients : \A line \in heard[c] :
    /\ DestPeerId(line[1]) = CId(c)
    /\ \E d \in Clients : CId(d) = CId(c) /\ DestPeerId(d) = CId(line[1])

\* README.md:81-82, "messages with errors will be detected and dropped": no
\* sequence of well-formed requests ends the server.
ServerSurvives == serving

-----------------------------------------------------------------------------
(* Liveness                                                                *)

WantEachOther(c, d) ==
  c # d /\ DestPeerId(c) = CId(d) /\ DestPeerId(d) = CId(c)

\* Two clients that ask for each other, started one after the other as in the
\* example of README.md, end up connected to each other.
BothConnect ==
  \A c, d \in Clients :
    WantEachOther(c, d) =>
      (sndpc[c] # "off" /\ sndpc[d] # "off")
        ~> (Connected(c) /\ Connected(d) /\ dp[c] = d /\ dp[d] = c)

\* Then every line typed at one of them is printed by the other.
LinesHeard ==
  \A c, d \in Clients :
    \A n \in 1..MaxLines :
      WantEachOther(c, d) =>
        (typed[c] >= n) ~> <<c, n>> \in heard[d]
=============================================================================
