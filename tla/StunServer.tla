----------------------------- MODULE StunServer -----------------------------
(***************************************************************************)
(* The STUN server: one thread that takes a datagram, registers the peer   *)
(* or looks for the peer that wants it in turn, and answers both.          *)
(*                                                                         *)
(* Each action is one round of StunServer.run with one outcome of          *)
(* __handle_register or __handle_request.                                  *)
(***************************************************************************)
EXTENDS StunMessages

VARIABLES
  infoId,      \* match_table.info_id_dict: address -> id, NoId when absent
  idInfo,      \* match_table.id_info_dict: id -> address, NoPeer when absent
  pending,     \* pending_requests: id -> (transaction id, id), or NoRequest
  serving      \* the loop of run goes on: no exception ended it

serverVars == <<infoId, idInfo, pending, serving>>

NoRequest == <<>>
Requests == Tids \X PeerIds

ServerTypeOK ==
  /\ infoId \in [Clients -> PeerIds \cup {NoId}]
  /\ idInfo \in [PeerIds -> Clients \cup {NoPeer}]
  /\ pending \in [PeerIds -> Requests \cup {NoRequest}]
  /\ serving \in BOOLEAN

ServerInit ==
  /\ infoId = [c \in Clients |-> NoId]
  /\ idInfo = [p \in PeerIds |-> NoPeer]
  /\ pending = [p \in PeerIds |-> NoRequest]
  /\ serving = TRUE

-----------------------------------------------------------------------------
\* MatchTable.add_peer: the last one to register an id has it.
AddPeer(pid, addr) ==
  /\ infoId' = [infoId EXCEPT ![addr] = pid]
  /\ idInfo' = [idInfo EXCEPT ![pid] = addr]

\* An indication: register the peer, tell it its public address.
Register(c, i) ==
  LET m == net[<<c, Server>>][i]
  IN  /\ m.type = "INDICATION"
      /\ AddPeer(m.payload, c)
      /\ net' = Sent(Taken(net, c, Server, i), Server, c, PublicInfo(c))
      /\ UNCHANGED <<pending, serving>>

-----------------------------------------------------------------------------
\* pending_requests once the request m of a peer registered as pid1 is in it.
WithRequest(pid1, m) == [pending EXCEPT ![pid1] = <<m.tid, m.payload>>]

\* pending_requests.pop, first of one id, then of the other.
Popped(requests, pid1, pid2) ==
  [requests EXCEPT ![pid1] = NoRequest, ![pid2] = NoRequest]

\* The second pop has something to return.
BothPending(requests, pid1, pid2) ==
  pid1 # pid2 /\ requests[pid2] # NoRequest

\* Mutant: only the request at hand is looked at.
OneSided(requests, pid1, pid2) == requests[pid1][2] = pid2

\* req1_2[1] == pid2 and req2_1[1] == pid1
Match(requests, pid1, pid2) ==
  requests[pid1][2] = pid2 /\ requests[pid2][2] = pid1

\* A request from an address that did not register: dropped.
DropUnregistered(c, i) ==
  /\ net[<<c, Server>>][i].type = "REQUEST"
  /\ infoId[c] = NoId
  /\ net' = Taken(net, c, Server, i)
  /\ UNCHANGED serverVars

\* The peer asked for is not registered: the request stays pending.
Postpone(c, i) ==
  LET m == net[<<c, Server>>][i]
  IN  /\ m.type = "REQUEST"
      /\ infoId[c] # NoId
      /\ idInfo[m.payload] = NoPeer
      /\ pending' = WithRequest(infoId[c], m)
      /\ net' = Taken(net, c, Server, i)
      /\ UNCHANGED <<infoId, idInfo, serving>>

\* Mutants: only the later of the two peers is answered; the answer to it is
\* sent twice.
AnswersOne(n, requests, pid1, addr1, pid2, addr2) ==
  Sent(n, Server, addr1, SuccessResponse(requests[pid1][1], addr2))

AnswersTwice(n, requests, pid1, addr1, pid2, addr2) ==
  Sent(Sent(Sent(n, Server, addr1, SuccessResponse(requests[pid1][1], addr2)),
            Server, addr2, SuccessResponse(requests[pid2][1], addr1)),
       Server, addr1, SuccessResponse(requests[pid1][1], addr2))

\* The two success responses: each tells one peer the address of the other,
\* under the transaction id of that peer's own request.
Answers(n, requests, pid1, addr1, pid2, addr2) ==
  Sent(Sent(n, Server, addr1, SuccessResponse(requests[pid1][1], addr2)),
       Server, addr2, SuccessResponse(requests[pid2][1], addr1))

\* The peer asked for has a request pending too.  Both requests are popped;
\* the two are answered if each asked for the other, and forgotten otherwise.
Conclude(c, i) ==
  LET m     == net[<<c, Server>>][i]
      pid1  == infoId[c]
      pid2  == m.payload
      known == WithRequest(pid1, m)
      rest  == Taken(net, c, Server, i)
  IN  /\ m.type = "REQUEST"
      /\ pid1 # NoId
      /\ idInfo[pid2] # NoPeer
      /\ BothPending(known, pid1, pid2)
      /\ pending' = Popped(known, pid1, pid2)
      /\ \/ /\ Match(known, pid1, pid2)
            /\ net' = Answers(rest, known, pid1, c, pid2, idInfo[pid2])
         \/ /\ ~Match(known, pid1, pid2)
            /\ net' = rest
      /\ UNCHANGED <<infoId, idInfo, serving>>

\* The peer asked for is registered and has no request pending, or is the
\* client itself: the second pop raises KeyError, nothing catches it, and the
\* server ends.
PopRaises(c, i) ==
  LET m     == net[<<c, Server>>][i]
      pid1  == infoId[c]
      known == WithRequest(pid1, m)
  IN  /\ m.type = "REQUEST"
      /\ pid1 # NoId
      /\ idInfo[m.payload] # NoPeer
      /\ ~BothPending(known, pid1, m.payload)
      /\ pending' = [known EXCEPT ![pid1] = NoRequest]
      /\ serving' = FALSE
      /\ net' = Taken(net, c, Server, i)
      /\ UNCHANGED <<infoId, idInfo>>

-----------------------------------------------------------------------------
ServerRound(c, i) ==
  \/ Register(c, i)
  \/ DropUnregistered(c, i)
  \/ Postpone(c, i)
  \/ Conclude(c, i)
  \/ PopRaises(c, i)

\* recvfrom(BUFFER_SIZE) returned a datagram of client c.
ServerStep(c) ==
  /\ serving
  /\ \E i \in Receivable(net[<<c, Server>>]) : ServerRound(c, i)
=============================================================================
