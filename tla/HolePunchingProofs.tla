------------------------- MODULE HolePunchingProofs -------------------------
(***************************************************************************)
(* Proofs about HolePunching, for any number of clients, any command lines *)
(* (repeated ids included) and any faults of the network.                  *)
(*                                                                         *)
(* PairingByName is not inductive: what a client is connected to comes out *)
(* of a response, that out of two pending requests and the match table,    *)
(* and those out of the messages of clients that may be gone by now.  IInv *)
(* says what each of these may hold.                                       *)
(***************************************************************************)
EXTENDS HolePunching, DatagramsProofs

Links == Addresses \X Addresses

\* Client c may be told address a: its owner has the id c asked for, and some
\* client of that id asked for the id of c.
Paired(c, a) ==
  /\ CId(a) = DestPeerId(c)
  /\ \E d \in Clients : CId(d) = CId(a) /\ DestPeerId(d) = CId(c)

\* What may be under way from address to address.
ToServer(c) == {IdIndication(c), PeerRequest(c)}

GoodAnswers ==
  {SuccessResponse(Tid(p[1], "REQUEST"), p[2]) :
     p \in {q \in Clients \X Clients : Paired(q[1], q[2])}}

FromServer == {PublicInfo(c) : c \in Clients} \cup GoodAnswers

\* Lines go only where the writer was told its peer is.
LinesTo(c, d) == IF Paired(c, d) THEN {Line(c, n) : n \in 1..MaxLines} ELSE {}

Allowed(link) ==
  IF link[2] = Server
    THEN IF link[1] \in Clients THEN ToServer(link[1]) ELSE {}
    ELSE IF link[1] = Server THEN FromServer ELSE LinesTo(link[1], link[2])

LinksOK(n) ==
  /\ n = [link \in Links |-> n[link]]
  /\ \A link \in Links : n[link] \in Seq(Allowed(link))

\* What the server knows was told by the clients it knows it of.
PendingSound(requests) ==
  \A p \in PeerIds :
    requests[p] # NoRequest =>
      \E c \in Clients :
        CId(c) = p /\ requests[p] = <<Tid(c, "REQUEST"), DestPeerId(c)>>

ServerSound ==
  /\ \A c \in Clients : infoId[c] \in {NoId, CId(c)}
  /\ \A p \in PeerIds : idInfo[p] # NoPeer => CId(idInfo[p]) = p
  /\ PendingSound(pending)

DestinationsSound ==
  /\ PairingByName
  /\ \A c \in Clients :
       Connected(c) \/ rcvpc[c] = "establish" => dp[c] # NoPeer

IInv ==
  /\ ServerTypeOK
  /\ ClientTypeOK
  /\ LinksOK(net)
  /\ ServerSound
  /\ DestinationsSound
  /\ HearsOnlyPeer

-----------------------------------------------------------------------------
(* The network.                                                            *)

LEMMA AllowedMessages ==
  ASSUME NEW link \in Links
  PROVE  Allowed(link) \subseteq Messages
<1>1. \A c \in Clients : ToServer(c) \subseteq Messages
  BY DEF ToServer, IdIndication, PeerRequest, Message, Messages, Tids, Tid,
         PeerIds
<1>2. GoodAnswers \subseteq Messages
  BY DEF GoodAnswers, SuccessResponse, Message, Messages, Tids, Tid
<1>3. \A c \in Clients : PublicInfo(c) \in Messages
  BY DEF PublicInfo, Message, Messages, Tids, Tid
<1>4. \A c \in Clients : \A d : LinesTo(c, d) \subseteq Messages
  BY DEF LinesTo, Line, Messages, Lines
<1>. QED
  BY <1>1, <1>2, <1>3, <1>4 DEF Allowed, FromServer, Links, Addresses

LEMMA ChangedLink ==
  ASSUME NEW n, LinksOK(n), NEW link \in Links,
         NEW ch \in Seq(Allowed(link))
  PROVE  LinksOK([n EXCEPT ![link] = ch])
BY DEF LinksOK

LEMMA SentOK ==
  ASSUME NEW n, LinksOK(n), NEW src \in Addresses, NEW dst \in Addresses,
         NEW m \in Allowed(<<src, dst>>)
  PROVE  LinksOK(Sent(n, src, dst, m))
<1>1. <<src, dst>> \in Links /\ n[<<src, dst>>] \in Seq(Allowed(<<src, dst>>))
  BY DEF Links, LinksOK
<1>2. Enqueue(n[<<src, dst>>], m) \in Seq(Allowed(<<src, dst>>))
  BY <1>1, EnqueueInSeq
<1>3. Sent(n, src, dst, m) = [n EXCEPT ![<<src, dst>>] = Enqueue(n[<<src, dst>>], m)]
  BY DEF Sent
<1>4. LinksOK([n EXCEPT ![<<src, dst>>] = Enqueue(n[<<src, dst>>], m)])
  BY <1>1, <1>2, ChangedLink
<1>. QED
  BY <1>3, <1>4

LEMMA TakenOK ==
  ASSUME NEW n, LinksOK(n), NEW src \in Addresses, NEW dst \in Addresses,
         NEW i \in Receivable(n[<<src, dst>>])
  PROVE  /\ LinksOK(Taken(n, src, dst, i))
         /\ n[<<src, dst>>][i] \in Allowed(<<src, dst>>)
<1>1. <<src, dst>> \in Links /\ n[<<src, dst>>] \in Seq(Allowed(<<src, dst>>))
  BY DEF Links, LinksOK
<1>2. i \in DOMAIN n[<<src, dst>>]
  BY DEF Receivable
<1>3. Without(n[<<src, dst>>], i) \in Seq(Allowed(<<src, dst>>))
  BY <1>1, <1>2, WithoutInSeq
<1>4. n[<<src, dst>>][i] \in Allowed(<<src, dst>>)
  BY <1>1, <1>2, ElementOfSeq, LenProperties
<1>5. Taken(n, src, dst, i) = [n EXCEPT ![<<src, dst>>] = Without(n[<<src, dst>>], i)]
  BY DEF Taken
<1>6. LinksOK([n EXCEPT ![<<src, dst>>] = Without(n[<<src, dst>>], i)])
  BY <1>1, <1>3, ChangedLink
<1>. QED
  BY <1>4, <1>5, <1>6

LEMMA FaultsOK ==
  ASSUME LinksOK(net), NetFaults
  PROVE  LinksOK(net')
<1>1. PICK link \in Links :
        \E ch : /\ Loses(net[link], ch) \/ Duplicates(net[link], ch)
                /\ net' = [net EXCEPT ![link] = ch]
  BY DEF NetFaults, Links
<1>2. PICK ch :
        /\ Loses(net[link], ch) \/ Duplicates(net[link], ch)
        /\ net' = [net EXCEPT ![link] = ch]
  BY <1>1
<1>3. ch \in Seq(Allowed(link))
  BY <1>2, FaultsInSeq DEF LinksOK
<1>. QED
  BY <1>2, <1>3, ChangedLink

-----------------------------------------------------------------------------
(* The server.                                                             *)

\* A datagram from a client is its indication or its request.
LEMMA ServerReads ==
  ASSUME LinksOK(net), NEW c \in Clients, NEW i \in Receivable(net[<<c, Server>>])
  PROVE  /\ LinksOK(Taken(net, c, Server, i))
         /\ net[<<c, Server>>][i] \in {IdIndication(c), PeerRequest(c)}
<1>1. c \in Addresses /\ Server \in Addresses
  BY DEF Addresses
<1>2. Allowed(<<c, Server>>) = ToServer(c)
  BY DEF Allowed
<1>. QED
  BY <1>1, <1>2, TakenOK DEF ToServer

\* Its type tells which.
LEMMA ServerReadsType ==
  ASSUME LinksOK(net), NEW c \in Clients, NEW i \in Receivable(net[<<c, Server>>])
  PROVE  LET m == net[<<c, Server>>][i]
         IN  /\ m.type = "INDICATION" => m = IdIndication(c)
             /\ m.type = "REQUEST" => m = PeerRequest(c)
<1>. DEFINE m == net[<<c, Server>>][i]
<1>1. m \in {IdIndication(c), PeerRequest(c)}
  BY ServerReads
<1>2. IdIndication(c).type = "INDICATION" /\ PeerRequest(c).type = "REQUEST"
  BY DEF IdIndication, PeerRequest, Message
<1>. HIDE DEF m
<1>3. /\ m.type = "INDICATION" => m = IdIndication(c)
      /\ m.type = "REQUEST" => m = PeerRequest(c)
  BY <1>1, <1>2
<1>. QED
  BY <1>3 DEF m

LEMMA ToClient ==
  ASSUME NEW n, LinksOK(n), NEW c \in Clients, NEW m \in FromServer
  PROVE  LinksOK(Sent(n, Server, c, m))
<1>1. c \in Addresses /\ Server \in Addresses /\ c # Server
  BY StunAssumption DEF Addresses
<1>2. Allowed(<<Server, c>>) = FromServer
  BY <1>1 DEF Allowed
<1>. QED
  BY <1>1, <1>2, SentOK

LEMMA Ids ==
  ASSUME NEW c \in Clients
  PROVE  CId(c) \in PeerIds /\ DestPeerId(c) \in PeerIds
BY DEF PeerIds

\* The parts of the invariant a round of the server touches.
ServerInv == ServerTypeOK /\ LinksOK(net) /\ ServerSound

\* pending_requests with the request of c in it, whatever it was before.
LEMMA RequestSound ==
  ASSUME ServerInv, NEW c \in Clients
  PROVE  LET known == WithRequest(CId(c), PeerRequest(c))
         IN  /\ known \in [PeerIds -> Requests \cup {NoRequest}]
             /\ known[CId(c)] = <<Tid(c, "REQUEST"), DestPeerId(c)>>
             /\ PendingSound(known)
<1>. DEFINE request == <<Tid(c, "REQUEST"), DestPeerId(c)>>
            known == WithRequest(CId(c), PeerRequest(c))
<1>1. known = [pending EXCEPT ![CId(c)] = request]
  BY DEF WithRequest, PeerRequest, Message
<1>2. request \in Requests
  BY Ids DEF Requests, Tids, Tid
<1>3. pending \in [PeerIds -> Requests \cup {NoRequest}] /\ PendingSound(pending)
  BY DEF ServerInv, ServerTypeOK, ServerSound
<1>4. known \in [PeerIds -> Requests \cup {NoRequest}] /\ known[CId(c)] = request
  BY <1>1, <1>2, <1>3, Ids
<1>5. \A p \in PeerIds : p # CId(c) => known[p] = pending[p]
  BY <1>1, <1>3
<1>. HIDE DEF known
<1>6. PendingSound(known)
  BY <1>3, <1>4, <1>5 DEF PendingSound
<1>. QED
  BY <1>4, <1>6 DEF known

LEMMA RegisterStep ==
  ASSUME ServerInv, NEW c \in Clients, NEW i \in Receivable(net[<<c, Server>>]),
         Register(c, i)
  PROVE  ServerInv'
<1>1. net[<<c, Server>>][i] = IdIndication(c)
  BY ServerReadsType DEF ServerInv, Register
<1>2. /\ infoId' = [infoId EXCEPT ![c] = CId(c)]
      /\ idInfo' = [idInfo EXCEPT ![CId(c)] = c]
      /\ UNCHANGED <<pending, serving>>
      /\ net' = Sent(Taken(net, c, Server, i), Server, c, PublicInfo(c))
  BY <1>1 DEF Register, AddPeer, IdIndication, Message
<1>3. LinksOK(net')
  BY <1>2, ServerReads, ToClient DEF ServerInv, FromServer
<1>4. ServerTypeOK'
  BY <1>2, Ids DEF ServerInv, ServerTypeOK
<1>5. ServerSound'
  BY <1>2, Ids DEF ServerInv, ServerTypeOK, ServerSound, PendingSound
<1>. QED
  BY <1>3, <1>4, <1>5 DEF ServerInv

\* What the server looks at when a registered client asks for its peer.
LEMMA RequestReads ==
  ASSUME ServerInv, NEW c \in Clients, NEW i \in Receivable(net[<<c, Server>>]),
         net[<<c, Server>>][i].type = "REQUEST", infoId[c] # NoId
  PROVE  /\ net[<<c, Server>>][i] = PeerRequest(c)
         /\ net[<<c, Server>>][i].payload = DestPeerId(c)
         /\ infoId[c] = CId(c)
         /\ LinksOK(Taken(net, c, Server, i))
<1>1. net[<<c, Server>>][i] = PeerRequest(c)
  BY ServerReadsType DEF ServerInv
<1>. QED
  BY <1>1, ServerReads DEF ServerInv, ServerSound, PeerRequest, Message

LEMMA PostponeStep ==
  ASSUME ServerInv, NEW c \in Clients, NEW i \in Receivable(net[<<c, Server>>]),
         Postpone(c, i)
  PROVE  ServerInv'
<1>1. /\ net' = Taken(net, c, Server, i)
      /\ LinksOK(Taken(net, c, Server, i))
      /\ pending' = WithRequest(CId(c), PeerRequest(c))
      /\ UNCHANGED <<infoId, idInfo, serving>>
  BY RequestReads DEF Postpone
<1>. QED
  BY <1>1, RequestSound DEF ServerInv, ServerTypeOK, ServerSound

LEMMA PopRaisesStep ==
  ASSUME ServerInv, NEW c \in Clients, NEW i \in Receivable(net[<<c, Server>>]),
         PopRaises(c, i)
  PROVE  ServerInv'
<1>. DEFINE known == WithRequest(CId(c), PeerRequest(c))
<1>1. /\ net' = Taken(net, c, Server, i)
      /\ LinksOK(Taken(net, c, Server, i))
      /\ pending' = [known EXCEPT ![CId(c)] = NoRequest]
      /\ serving' = FALSE
      /\ UNCHANGED <<infoId, idInfo>>
  BY RequestReads DEF PopRaises
<1>2. known \in [PeerIds -> Requests \cup {NoRequest}] /\ PendingSound(known)
  BY RequestSound
<1>. HIDE DEF known
<1>3. pending' \in [PeerIds -> Requests \cup {NoRequest}] /\ PendingSound(pending')
  BY <1>1, <1>2 DEF PendingSound
<1>. QED
  BY <1>1, <1>3 DEF ServerInv, ServerTypeOK, ServerSound

LEMMA ConcludeStep ==
  ASSUME ServerInv, NEW c \in Clients, NEW i \in Receivable(net[<<c, Server>>]),
         Conclude(c, i)
  PROVE  ServerInv'
<1>. DEFINE pid1 == CId(c)
            pid2 == DestPeerId(c)
            known == WithRequest(pid1, PeerRequest(c))
            rest == Taken(net, c, Server, i)
<1>1. /\ LinksOK(rest)
      /\ idInfo[pid2] # NoPeer
      /\ BothPending(known, pid1, pid2)
      /\ pending' = Popped(known, pid1, pid2)
      /\ \/ /\ Match(known, pid1, pid2)
            /\ net' = Answers(rest, known, pid1, c, pid2, idInfo[pid2])
         \/ net' = rest
      /\ UNCHANGED <<infoId, idInfo, serving>>
  BY RequestReads DEF Conclude
<1>2. /\ known \in [PeerIds -> Requests \cup {NoRequest}] /\ PendingSound(known)
      /\ known[pid1] = <<Tid(c, "REQUEST"), DestPeerId(c)>>
  BY RequestSound
<1>3. pid1 \in PeerIds /\ pid2 \in PeerIds
  BY Ids
<1>. HIDE DEF known, rest
<1>4. pending' \in [PeerIds -> Requests \cup {NoRequest}] /\ PendingSound(pending')
  BY <1>1, <1>2, <1>3 DEF PendingSound, Popped
<1>5. LinksOK(net')
  <2>. DEFINE addr2 == idInfo[pid2]
  <2>1. CASE net' = rest
    BY <1>1, <2>1
  <2>2. CASE /\ Match(known, pid1, pid2)
             /\ net' = Answers(rest, known, pid1, c, pid2, idInfo[pid2])
    <3>1. addr2 \in Clients /\ CId(addr2) = pid2
      BY <1>1, <1>3 DEF ServerInv, ServerTypeOK, ServerSound
    <3>2. PICK e \in Clients :
            CId(e) = pid2 /\ known[pid2] = <<Tid(e, "REQUEST"), DestPeerId(e)>>
      BY <1>1, <1>2, <1>3 DEF PendingSound, BothPending
    <3>3. DestPeerId(e) = pid1
      BY <2>2, <3>2 DEF Match
    <3>4. Paired(c, addr2) /\ Paired(e, c)
      BY <3>1, <3>2, <3>3 DEF Paired
    <3>5. /\ SuccessResponse(Tid(c, "REQUEST"), addr2) \in GoodAnswers
          /\ SuccessResponse(Tid(e, "REQUEST"), c) \in GoodAnswers
      <4>. HIDE DEF addr2
      <4>1. <<c, addr2>> \in {q \in Clients \X Clients : Paired(q[1], q[2])}
        BY <3>1, <3>4
      <4>2. <<e, c>> \in {q \in Clients \X Clients : Paired(q[1], q[2])}
        BY <3>4
      <4>. QED
        BY <4>1, <4>2 DEF GoodAnswers
    <3>6. known[pid1][1] = Tid(c, "REQUEST") /\ known[pid2][1] = Tid(e, "REQUEST")
      BY <1>2, <3>2
    <3>7. LinksOK(Sent(rest, Server, c, SuccessResponse(Tid(c, "REQUEST"), addr2)))
      BY <1>1, <3>5, ToClient DEF FromServer
    <3>8. LinksOK(Sent(Sent(rest, Server, c, SuccessResponse(Tid(c, "REQUEST"), addr2)),
                       Server, addr2, SuccessResponse(Tid(e, "REQUEST"), c)))
      BY <3>1, <3>5, <3>7, ToClient DEF FromServer
    <3>. QED
      BY <2>2, <3>6, <3>8 DEF Answers
  <2>. QED
    BY <1>1, <2>1, <2>2
<1>. QED
  BY <1>1, <1>4, <1>5 DEF ServerInv, ServerTypeOK, ServerSound

LEMMA ServerStepInv ==
  ASSUME ServerInv, NEW c \in Clients, ServerStep(c)
  PROVE  ServerInv'
<1>1. PICK i \in Receivable(net[<<c, Server>>]) : ServerRound(c, i)
  BY DEF ServerStep
<1>2. CASE DropUnregistered(c, i)
  <2>1. LinksOK(net')
    BY <1>2, ServerReads DEF ServerInv, DropUnregistered
  <2>. QED
    BY <1>2, <2>1 DEF DropUnregistered, ServerInv, ServerTypeOK, ServerSound,
                      serverVars
<1>. QED
  BY <1>1, <1>2, RegisterStep, PostponeStep, ConcludeStep, PopRaisesStep
  DEF ServerRound

-----------------------------------------------------------------------------
(* The clients.                                                            *)

\* The parts of the invariant a step of a client touches.
ClientInv ==
  ClientTypeOK /\ LinksOK(net) /\ DestinationsSound /\ HearsOnlyPeer

LEMMA ToServerOK ==
  ASSUME LinksOK(net), NEW c \in Clients, NEW m \in ToServer(c)
  PROVE  LinksOK(Sent(net, c, Server, m))
<1>1. c \in Addresses /\ Server \in Addresses
  BY DEF Addresses
<1>2. Allowed(<<c, Server>>) = ToServer(c)
  BY DEF Allowed
<1>. QED
  BY <1>1, <1>2, SentOK

LEMMA ToPeerOK ==
  ASSUME LinksOK(net), NEW c \in Clients, NEW d \in Clients, Paired(c, d),
         NEW n \in 1..MaxLines
  PROVE  LinksOK(Sent(net, c, d, Line(c, n)))
<1>1. c \in Addresses /\ d \in Addresses /\ c # Server /\ d # Server
  BY StunAssumption DEF Addresses
<1>2. Line(c, n) \in LinesTo(c, d)
  BY DEF LinesTo
<1>3. Allowed(<<c, d>>) = LinesTo(c, d)
  BY <1>1 DEF Allowed
<1>. QED
  BY <1>1, <1>2, <1>3, SentOK

\* What reaches a client: answers come from the server, lines from clients
\* that were told of it.
LEMMA ClientReads ==
  ASSUME LinksOK(net), NEW c \in Clients, NEW src \in Addresses,
         NEW i \in Receivable(net[<<src, c>>])
  PROVE  /\ LinksOK(Taken(net, src, c, i))
         /\ AnswersMine(c, net[<<src, c>>][i]) =>
              /\ net[<<src, c>>][i].payload \in Clients
              /\ Paired(c, net[<<src, c>>][i].payload)
         /\ ~IsStun(net[<<src, c>>][i]) =>
              /\ net[<<src, c>>][i].line \in Lines
              /\ Paired(net[<<src, c>>][i].line[1], c)
<1>. DEFINE m == net[<<src, c>>][i]
<1>1. c \in Addresses /\ c # Server
  BY StunAssumption DEF Addresses
<1>2. /\ LinksOK(Taken(net, src, c, i))
      /\ m \in FromServer \/ (src \in Clients /\ m \in LinesTo(src, c))
  <2>1. \/ Allowed(<<src, c>>) = FromServer
        \/ src \in Clients /\ Allowed(<<src, c>>) = LinesTo(src, c)
    BY <1>1 DEF Allowed, Addresses
  <2>. QED
    BY <1>1, <2>1, TakenOK
<1>. HIDE DEF m
<1>3. CASE m \in {PublicInfo(a) : a \in Clients}
  <2>1. m.type = "INDICATION"
    BY <1>3 DEF PublicInfo, Message
  <2>. QED
    BY <1>2, <2>1 DEF m, AnswersMine, IsStun
<1>4. CASE m \in GoodAnswers
  <2>1. PICK p \in Clients \X Clients :
          /\ Paired(p[1], p[2])
          /\ m = SuccessResponse(Tid(p[1], "REQUEST"), p[2])
    BY <1>4 DEF GoodAnswers
  <2>2. m.type = "SUCCESS_RESPONSE" /\ m.tid = Tid(p[1], "REQUEST") /\ m.payload = p[2]
    BY <2>1 DEF SuccessResponse, Message
  <2>3. AnswersMine(c, m) => p[1] = c
    BY <2>2 DEF AnswersMine, Tid
  <2>. QED
    BY <1>2, <2>1, <2>2, <2>3 DEF m, IsStun
<1>5. CASE src \in Clients /\ m \in LinesTo(src, c)
  <2>1. Paired(src, c)
    BY <1>5 DEF LinesTo
  <2>2. PICK n \in 1..MaxLines : m = Line(src, n)
    BY <1>5, <2>1 DEF LinesTo
  <2>3. m.type = "TEXT" /\ m.line = <<src, n>> /\ <<src, n>> \in Lines
    BY <1>5, <2>2 DEF Line, Lines
  <2>. QED
    BY <1>2, <2>1, <2>3 DEF m, AnswersMine
<1>. QED
  BY <1>2, <1>3, <1>4, <1>5 DEF FromServer

LEMMA SenderStep ==
  ASSUME ClientInv, NEW c \in Clients, SenderThread(c) \/ TypeLine(c)
  PROVE  ClientInv'
<1>. USE DEF ClientInv, ClientTypeOK, HearsOnlyPeer
<1>1. CASE Start(c)
  <2>1. LinksOK(net')
    BY <1>1, ToServerOK DEF Start, ToServer
  <2>. QED
    BY <1>1, <2>1 DEF Start, DestinationsSound, PairingByName, Connected
<1>2. CASE SendRequest(c)
  <2>1. LinksOK(net')
    BY <1>2, ToServerOK DEF SendRequest, ToServer
  <2>. QED
    BY <1>2, <2>1 DEF SendRequest, DestinationsSound, PairingByName, Connected
<1>3. CASE SendLine(c)
  <2>1. dp[c] \in Clients /\ Paired(c, dp[c])
    BY <1>3 DEF SendLine, DestinationsSound, PairingByName, Paired
  <2>2. sent[c] + 1 \in 1..MaxLines
    BY <1>3, ClientAssumption DEF SendLine
  <2>3. LinksOK(net')
    BY <1>3, <2>1, <2>2, ToPeerOK DEF SendLine, NextLine
  <2>. QED
    BY <1>3, <2>2, <2>3 DEF SendLine, DestinationsSound, PairingByName, Connected
<1>4. CASE TypeLine(c)
  <2>1. typed[c] + 1 \in 0..MaxLines
    BY <1>4, ClientAssumption DEF TypeLine
  <2>. QED
    BY <1>4, <2>1 DEF TypeLine, DestinationsSound, PairingByName, Connected
<1>. QED
  BY <1>1, <1>2, <1>3, <1>4 DEF SenderThread

LEMMA ReceiverStepInv ==
  ASSUME ClientInv, NEW c \in Clients, ReceiverThread(c)
  PROVE  ClientInv'
<1>. USE DEF ClientInv, ClientTypeOK, HearsOnlyPeer
<1>1. CASE Establish(c)
  BY <1>1 DEF Establish, DestinationsSound, PairingByName, Connected
<1>2. ASSUME NEW src \in Addresses, NEW i \in Receivable(net[<<src, c>>]),
             rcvpc[c] = "recv", ReceiverRound(c, src, i)
      PROVE  ClientInv'
  <2>1. LinksOK(Taken(net, src, c, i))
    BY ClientReads
  <2>2. CASE TakeAnswer(c, src, i)
    <3>1. /\ dp' = [dp EXCEPT ![c] = net[<<src, c>>][i].payload]
          /\ net[<<src, c>>][i].payload \in Clients
          /\ Paired(c, net[<<src, c>>][i].payload)
      BY <2>2, ClientReads DEF TakeAnswer
    <3>2. /\ net' = Taken(net, src, c, i)
          /\ rcvpc' = [rcvpc EXCEPT ![c] = "establish"]
          /\ UNCHANGED <<sndpc, conn, typed, sent, heard>>
      BY <2>2 DEF TakeAnswer, Receives
    <3>3. DestinationsSound'
      BY <3>1, <3>2, StunAssumption
      DEF DestinationsSound, PairingByName, Paired, Connected
    <3>. QED
      BY <2>1, <3>1, <3>2, <3>3
  <2>3. CASE Hear(c, src, i)
    <3>. DEFINE line == net[<<src, c>>][i].line
    <3>1. line \in Lines /\ Paired(line[1], c)
      BY <2>3, ClientReads DEF Hear
    <3>2. /\ heard' = [heard EXCEPT ![c] = @ \cup {line}]
          /\ net' = Taken(net, src, c, i)
          /\ rcvpc' = [rcvpc EXCEPT ![c] = "recv"]
          /\ UNCHANGED <<sndpc, conn, dp, typed, sent>>
      BY <2>3 DEF Hear, Receives
    <3>. HIDE DEF line
    <3>3. HearsOnlyPeer'
      BY <3>1, <3>2 DEF Paired
    <3>4. ClientTypeOK' /\ DestinationsSound'
      BY <3>1, <3>2 DEF DestinationsSound, PairingByName, Connected
    <3>. QED
      BY <2>1, <3>2, <3>3, <3>4
  <2>4. CASE IgnoreStun(c, src, i) \/ LineTooEarly(c, src, i) \/ StunTooLate(c, src, i)
    BY <2>1, <2>4 DEF IgnoreStun, LineTooEarly, StunTooLate, Receives,
                      DestinationsSound, PairingByName, Connected
  <2>. QED
    BY <1>2, <2>2, <2>3, <2>4 DEF ReceiverRound
<1>. QED
  BY <1>1, <1>2 DEF ReceiverThread, ReceiverStep

-----------------------------------------------------------------------------
(* The theorems.                                                           *)

LEMMA InitIInv == Init => IInv
<1>. SUFFICES ASSUME Init PROVE IInv
  OBVIOUS
<1>. USE DEF Init, ServerInit, ClientInit, NetInit
<1>1. ServerTypeOK
  BY DEF ServerTypeOK
<1>2. ClientTypeOK
  BY ClientAssumption DEF ClientTypeOK
<1>3. LinksOK(net)
  BY EmptySeq DEF LinksOK, Links
<1>4. ServerSound
  BY DEF ServerSound, PendingSound
<1>5. DestinationsSound
  BY DEF DestinationsSound, PairingByName, Connected
<1>6. HearsOnlyPeer
  BY DEF HearsOnlyPeer
<1>. QED
  BY <1>1, <1>2, <1>3, <1>4, <1>5, <1>6 DEF IInv

LEMMA IInvStep == IInv /\ [Next]_vars => IInv'
<1>. SUFFICES ASSUME IInv, [Next]_vars PROVE IInv'
  OBVIOUS
<1>0. ServerInv /\ ClientInv
  BY DEF IInv, ServerInv, ClientInv
<1>1. ASSUME NEW c \in Clients, UNCHANGED serverVars,
             SenderThread(c) \/ TypeLine(c) \/ ReceiverThread(c)
      PROVE  IInv'
  <2>1. ClientInv'
    BY <1>0, <1>1, SenderStep, ReceiverStepInv
  <2>2. ServerTypeOK' /\ ServerSound'
    BY <1>1 DEF IInv, ServerTypeOK, ServerSound, PendingSound, serverVars
  <2>. QED
    BY <2>1, <2>2 DEF IInv, ClientInv
<1>2. ASSUME NEW c \in Clients, ServerStep(c), UNCHANGED clientVars
      PROVE  IInv'
  <2>1. ServerInv'
    BY <1>0, <1>2, ServerStepInv
  <2>2. ClientTypeOK' /\ DestinationsSound' /\ HearsOnlyPeer'
    BY <1>2 DEF IInv, ClientTypeOK, DestinationsSound, PairingByName,
                HearsOnlyPeer, Connected, clientVars
  <2>. QED
    BY <2>1, <2>2 DEF IInv, ServerInv
<1>3. ASSUME UNCHANGED <<serverVars, clientVars>>, LinksOK(net')
      PROVE  IInv'
  BY <1>3 DEF IInv, ServerTypeOK, ClientTypeOK, ServerSound, PendingSound,
              DestinationsSound, PairingByName, HearsOnlyPeer, Connected,
              serverVars, clientVars
<1>4. CASE NetFaults /\ UNCHANGED <<serverVars, clientVars>>
  BY <1>3, <1>4, FaultsOK DEF IInv
<1>5. CASE UNCHANGED vars
  BY <1>3, <1>5 DEF vars, IInv
<1>. QED
  BY <1>1, <1>2, <1>4, <1>5 DEF Next

LEMMA Invariance == Spec => []IInv
BY InitIInv, IInvStep, PTL DEF Spec

\* Server, clients and network keep their types.
THEOREM TypeCorrect == Spec => []TypeOK
<1>1. IInv => TypeOK
  <2>. SUFFICES ASSUME IInv PROVE TypeOK
    OBVIOUS
  <2>1. net \in [Addresses \X Addresses -> Seq(Messages)]
    BY AllowedMessages, SeqMonotonic DEF IInv, LinksOK, Links
  <2>. QED
    BY <2>1 DEF IInv, TypeOK
<1>. QED
  BY <1>1, Invariance, PTL

\* Nobody is ever connected to a client it did not ask for, or that was not
\* asked for by that name.
THEOREM PairedByName == Spec => []PairingByName
<1>1. IInv => PairingByName
  BY DEF IInv, DestinationsSound
<1>. QED
  BY <1>1, Invariance, PTL

\* The three threads of a client need no lock around the connection state.
THEOREM DestinationBeforeUse == Spec => []DestinationKnown
<1>1. IInv => DestinationKnown
  BY DEF IInv, DestinationsSound, DestinationKnown
<1>. QED
  BY <1>1, Invariance, PTL

\* A client prints whatever reaches its socket, and that is only what was
\* written by one that asked for it and that its own side asked for.
THEOREM OnlyPeersHeard == Spec => []HearsOnlyPeer
<1>1. IInv => HearsOnlyPeer
  BY DEF IInv
<1>. QED
  BY <1>1, Invariance, PTL
=============================================================================
