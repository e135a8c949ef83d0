---------------------------- MODULE StunMessages ----------------------------
(***************************************************************************)
(* What the programs of UDP-Hole-Punching exchange, and the network they   *)
(* exchange it over.                                                       *)
(*                                                                         *)
(* A client process is identified with its public address: the server sees *)
(* one address per client, and a client that is started again gets another *)
(* one, so that a restart is one more member of Clients with the same      *)
(* source id.  An encoded STUN message is the record of the fields that    *)
(* decode reads back.  Whether a datagram is one is all that decode, and   *)
(* the UTF-8 decoding of chat text, find out of it: no chat text starts    *)
(* with a message type, and no STUN message is UTF-8, for the third byte   *)
(* of the magic cookie, 0xA4, cannot follow the second, 0x12.              *)
(***************************************************************************)
EXTENDS Datagrams

CONSTANTS
  Clients,     \* the client processes, by public address
  Server,      \* the address of the server
  NoPeer,      \* None, in the place of an address
  SourceId,    \* -si of each client, NoId when it is left out
  DestId,      \* -di of each client
  NoId         \* None, in the place of a peer id

ASSUME StunAssumption ==
  /\ Server \notin Clients
  /\ NoPeer \notin Clients \cup {Server}

VARIABLE net   \* the datagrams under way, per pair of addresses

-----------------------------------------------------------------------------
(* Ids: what StunClient.__init__ makes of the command line.                *)

\* gen_unique_id, which never returns the same id twice.
UniqueId(c, use) == <<"uuid", c, use>>

CId(c) ==
  IF SourceId[c] # NoId THEN SourceId[c] ELSE UniqueId(c, "source")

\* opt_did if opt_sid else gen_unique_id(): -di counts only next to -si.
DestPeerId(c) ==
  IF SourceId[c] # NoId THEN DestId[c] ELSE UniqueId(c, "dest")

PeerIds == {CId(c) : c \in Clients} \cup {DestPeerId(c) : c \in Clients}

-----------------------------------------------------------------------------
(* Messages.                                                               *)

\* gen_transaction_id draws 96 random bits: no two messages share one.  A
\* client keeps the ids it drew, with the kind of message, in transactions.
Tid(c, kind) == <<c, kind>>
Tids == (Clients \cup {Server}) \X {"INDICATION", "REQUEST"}

Message(type, tid, payload) == [type |-> type, tid |-> tid, payload |-> payload]

IdIndication(c) == Message("INDICATION", Tid(c, "INDICATION"), CId(c))
PeerRequest(c) == Message("REQUEST", Tid(c, "REQUEST"), DestPeerId(c))
PublicInfo(addr) == Message("INDICATION", Tid(Server, "INDICATION"), addr)
SuccessResponse(tid, addr) == Message("SUCCESS_RESPONSE", tid, addr)

\* The n-th line typed at client c; a line carries no transaction id.
Line(c, n) == [type |-> "TEXT", line |-> <<c, n>>]

IsStun(m) == m.type # "TEXT"

-----------------------------------------------------------------------------
(* sendto and recvfrom, one after the other on a value n of net.           *)

Sent(n, src, dst, m) == [n EXCEPT ![<<src, dst>>] = Enqueue(@, m)]
Taken(n, src, dst, i) == [n EXCEPT ![<<src, dst>>] = Without(@, i)]

Addresses == Clients \cup {Server}
NetInit == net = [link \in Addresses \X Addresses |-> <<>>]

\* The network itself: one datagram is lost or copied.
NetFaults ==
  \E link \in Addresses \X Addresses :
    \E ch \in {Without(net[link], i) : i \in DOMAIN net[link]}
              \cup {Append(net[link], net[link][i]) : i \in DOMAIN net[link]} :
      /\ Loses(net[link], ch) \/ Duplicates(net[link], ch)
      /\ net' = [net EXCEPT ![link] = ch]
=============================================================================
