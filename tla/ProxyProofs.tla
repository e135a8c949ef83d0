---------------------------- MODULE ProxyProofs ----------------------------
(***************************************************************************)
(* Proofs about Proxy, for any number of handler threads, connections and  *)
(* descriptors.                                                            *)
(*                                                                         *)
(* With tunnels the numbers of a connection do change hands (the run       *)
(* proxy_reuse), so what is said of them is proved for Plain requests.     *)
(* NumbersStayOwn is not inductive: a number that a thread got from accept *)
(* or socket stays its own only if nobody who closes numbers has the same  *)
(* one.  OwnInv says who may have a number, from its opening to its close. *)
(***************************************************************************)
EXTENDS Proxy, Minimum, SequenceTheorems

Plain == Tunnels = {}

\* The numbers that threads and tasks work with are descriptors.
NumbersKnown ==
  /\ \A h \in Handlers :
       /\ handler[h].pc # "accept" => handler[h].conn \in Conns /\ handler[h].cli \in Fds
       /\ handler[h].pc \in {"first", "spawn"} => handler[h].dst \in Fds
  /\ \A t \in Ends :
       bridge[t].pc # "none" => bridge[t].src \in Fds /\ bridge[t].dst \in Fds

Unreferred(e) == \A fd \in Fds : file[fd] # e

\* A thread between accept and its task: its numbers, and no task yet.
HandlerOwns(h) ==
  LET w == handler[h]
  IN  /\ w.pc # "accept" => w.conn \in accepted
      /\ w.pc \notin {"accept", "taskwait"} =>
           /\ file[w.cli] = Client(w.conn)
           /\ bridge[Dest(w.conn)].pc = "none"
      /\ w.pc \in {"recv", "parse", "connect"} => Unreferred(Dest(w.conn))
      /\ w.pc \in {"first", "spawn"} => file[w.dst] = Dest(w.conn)
      /\ w.pc = "taskwait" => bridge[Dest(w.conn)].pc # "none"

\* The task of a connection: what it closed is not referred to any more.
TaskOwns(j) ==
  LET b == bridge[Dest(j)]
  IN  /\ b.pc \in BeforeClose => file[b.dst] = Client(j)
      /\ b.pc \in BeforeClose \cup {"closeSrc"} => file[b.src] = Dest(j)
      /\ b.pc \in {"closeSrc", "done"} => Unreferred(Client(j))
      /\ b.pc = "done" => Unreferred(Dest(j))
      /\ b.pc \notin {"none", "done"} =>
           \E h \in Handlers : handler[h].pc = "taskwait" /\ handler[h].conn = j
      /\ bridge[Client(j)].pc = "none"

Fresh(j) ==
  /\ Unreferred(Client(j))
  /\ Unreferred(Dest(j))
  /\ bridge[Dest(j)].pc = "none"

OneNumberEach ==
  \A f, g \in Fds : IsEnd(file[f]) /\ file[f] = file[g] => f = g

OneThreadEach ==
  \A h, k \in Handlers :
    /\ handler[h].pc # "accept"
    /\ handler[k].pc # "accept"
    /\ handler[h].conn = handler[k].conn
    => h = k

\* OnlyFailuresLeak, of a thread that is not between two connections.
OpenIsOwned ==
  \A fd \in Fds :
    IsEnd(file[fd]) =>
      \/ file[fd][1] \in failed
      \/ \E h \in Handlers :
           handler[h].pc # "accept" /\ handler[h].conn = file[fd][1]

OwnInv ==
  /\ OneNumberEach
  /\ OneThreadEach
  /\ \A h \in Handlers : HandlerOwns(h)
  /\ \A j \in Conns : TaskOwns(j)
  /\ \A j \in Conns \ accepted : Fresh(j)
  /\ OpenIsOwned

\* The task left its loop.
GivesUp(j) == bridge[Dest(j)].pc \in {"closeDst", "closeSrc", "done"}

\* What has been read from the destination and not yet been sent.
InHand(j) ==
  bridge[Dest(j)].pc = "send" /\ bridge[Dest(j)].piece # Nothing

\* The request is the first piece of the client, and the only one taken.
HandlerRelays(h) ==
  LET w == handler[h]
  IN  /\ w.pc \in {"recv", "parse"} => taken[Client(w.conn)] = 0
      /\ w.pc = "parse" => w.ref = Client(w.conn)
      /\ w.pc \in {"connect", "first"} =>
           w.req \in {Piece(Client(w.conn), 1), Nothing}
      /\ w.pc \in {"recv", "parse", "connect", "first"} => got[Dest(w.conn)] = <<>>

\* What was read from the destination reached the client, but for the piece in
\* hand, until the connection to the client is lost or the task gives up.
TaskRelays(j) ==
  LET b == bridge[Dest(j)]
      n == taken[Dest(j)]
  IN  /\ b.pc = "none" => n = 0
      /\ b.pc = "blocked" => b.ref = Dest(j)
      /\ InHand(j) => b.piece = Piece(Dest(j), n) /\ n > 0
      /\ tcp[Client(j)] \in {"none", "open", "fin"} /\ ~GivesUp(j) =>
           Len(got[Client(j)]) = IF InHand(j) THEN n - 1 ELSE n

ReachesEnds(j) ==
  /\ \A i \in 1..Len(got[Client(j)]) :
       \/ got[Client(j)][i] = Piece(Dest(j), i)
       \/ got[Client(j)][i] = Part(Piece(Dest(j), i)) /\ j \in Slow
  /\ got[Dest(j)] \in {<<>>, <<Piece(Client(j), 1)>>}

Untouched(j) ==
  taken[Client(j)] = 0 /\ tcp[Client(j)] = "none" /\ got[Dest(j)] = <<>>

RelayInv ==
  /\ \A h \in Handlers : HandlerRelays(h)
  /\ \A j \in Conns : TaskRelays(j) /\ ReachesEnds(j)
  /\ \A j \in Conns \ accepted : Untouched(j)

-----------------------------------------------------------------------------
(* The descriptor table gives out a number only while it is free.          *)

\* A free number is found where there is one.
LEMMA LowestIsFree ==
  ASSUME Free # {}
  PROVE  LowestFree \in Fds /\ file[LowestFree] = Closed
<1>1. Free \subseteq Nat
  BY ProxyAssumption DEF Free, Fds
<1>. QED
  BY <1>1, MinOfNat DEF LowestFree, Free

-----------------------------------------------------------------------------
(* Types.                                                                  *)

TypeInv == TypeOK /\ NumbersKnown

LEMMA EndFacts ==
  /\ \A j \in Conns : Client(j) \in Ends /\ Dest(j) \in Ends
  /\ \A j, k : Client(j) # Dest(k)
  /\ \A j, k : Client(j) = Client(k) => j = k
  /\ \A j, k : Dest(j) = Dest(k) => j = k
  /\ \A e \in Ends : e = Client(e[1]) \/ e = Dest(e[1])
  /\ \A e \in Ends : e[1] \in Conns
  /\ \A e \in Ends : Other(e) \in Ends
  /\ \A j : Other(Client(j)) = Dest(j) /\ Other(Dest(j)) = Client(j)
  /\ \A j : Client(j)[1] = j /\ Dest(j)[1] = j
  /\ Closed \notin Ends /\ Dead \notin Ends
  /\ Closed # Dead
BY DEF Client, Dest, Ends, Other, Closed, Dead

LEMMA TypeInit == Init => TypeInv
<1>1. Init => TypeOK
  BY ProxyAssumption DEF Init, TypeOK, HandlerStates, TaskStates, Idle, NoTask,
     HandlerPcs, BridgePcs, Pieces
<1>2. Init => NumbersKnown
  BY DEF Init, NumbersKnown, Idle, NoTask
<1>. QED
  BY <1>1, <1>2 DEF TypeInv

\* The sockets, which system calls change and all else leaves alone.
SocketsTypeOK ==
  /\ taken \in [Ends -> 0..MaxPieces]
  /\ tcp \in [Ends -> {"none", "open", "fin", "reset", "gone"}]
  /\ got \in [Ends -> Seq(Pieces \cup {Part(p) : p \in Pieces})]

LEMMA CallTypes ==
  ASSUME TypeOK, NEW ref, NEW piece \in Pieces,
         \/ Receives(ref, piece) \/ RecvFails(ref)
         \/ Sends(ref, piece) \/ SendsPart(ref, piece) \/ SendFails(ref)
  PROVE  SocketsTypeOK'
<1>1. SocketsTypeOK
  BY DEF TypeOK, SocketsTypeOK
<1>2. CASE Receives(ref, piece)
  <2>1. CASE piece = Piece(ref, taken[ref] + 1) /\ taken' = [taken EXCEPT ![ref] = @ + 1]
    <3>1. ref \in Ends /\ ref[2] # "proxy"
      BY <1>2 DEF Receives, IsEnd, Ends
    <3>2. piece.from = ref /\ piece.n = taken[ref] + 1
      BY <2>1 DEF Piece
    <3>3. piece.n \in 1..MaxPieces
      BY <3>1, <3>2 DEF Pieces, Piece, Ok, Nothing, Self
    <3>. QED
      BY <1>1, <1>2, <2>1, <3>1, <3>2, <3>3, ProxyAssumption
      DEF Receives, SocketsTypeOK
  <2>2. CASE UNCHANGED taken
    BY <1>1, <1>2, <2>2 DEF Receives, SocketsTypeOK
  <2>. QED
    BY <1>2, <2>1, <2>2 DEF Receives
<1>3. CASE RecvFails(ref)
  BY <1>1, <1>3 DEF RecvFails, Reported, SocketsTypeOK
<1>4. CASE Sends(ref, piece)
  <2>1. ref \in Ends
    BY <1>4 DEF Sends, Broken, IsEnd
  <2>2. Append(got[ref], piece) \in Seq(Pieces \cup {Part(p) : p \in Pieces})
    BY <1>1, <2>1, AppendProperties DEF SocketsTypeOK
  <2>. QED
    BY <1>1, <1>4, <2>1, <2>2 DEF Sends, SocketsTypeOK
<1>5. CASE SendsPart(ref, piece)
  <2>1. ref \in Ends
    BY <1>5 DEF SendsPart, Stalls, IsEnd
  <2>2. Append(got[ref], Part(piece)) \in Seq(Pieces \cup {Part(p) : p \in Pieces})
    BY <1>1, <2>1, AppendProperties DEF SocketsTypeOK
  <2>. QED
    BY <1>1, <1>5, <2>1, <2>2 DEF SendsPart, SocketsTypeOK
<1>6. CASE SendFails(ref)
  BY <1>1, <1>6 DEF SendFails, Reported, SocketsTypeOK
<1>. QED
  BY <1>2, <1>3, <1>4, <1>5, <1>6

\* What the steps of a thread do to its locals, field by field.
Kept(h, fields) == \A f \in fields : handler'[h][f] = handler[h][f]

OthersKept(h) ==
  /\ handler' \in [Handlers -> HandlerStates]
  /\ \A k \in Handlers \ {h} : handler'[k] = handler[k]

LEMMA StateFacts ==
  ASSUME TypeInv, NEW h \in Handlers
  PROVE  /\ handler[h] \in HandlerStates
         /\ handler[h].pc \in HandlerPcs
         /\ handler[h].cli \in Fds \cup {NoFd} /\ handler[h].dst \in Fds \cup {NoFd}
         /\ handler[h].ref \in Ends \cup {Closed, Dead} /\ handler[h].req \in Pieces
         /\ handler[h].pc # "accept" =>
              handler[h].conn \in Conns /\ handler[h].cli \in Fds
         /\ handler[h].pc \in {"first", "spawn"} => handler[h].dst \in Fds
BY DEF TypeInv, TypeOK, NumbersKnown, HandlerStates

LEMMA StaysState ==
  ASSUME NEW w \in HandlerStates, NEW a \in HandlerPcs
  PROVE  /\ [w EXCEPT !.pc = a] \in HandlerStates
         /\ \A c \in Conns : \A fd \in Fds :
              [w EXCEPT !.pc = a, !.conn = c, !.cli = fd] \in HandlerStates
         /\ \A r \in Ends \cup {Closed, Dead} :
              [w EXCEPT !.pc = a, !.ref = r] \in HandlerStates
         /\ \A piece \in Pieces : [w EXCEPT !.pc = a, !.req = piece] \in HandlerStates
         /\ \A fd \in Fds : [w EXCEPT !.pc = a, !.dst = fd] \in HandlerStates
<1>1. [w EXCEPT !.pc = a] \in HandlerStates
  BY DEF HandlerStates
<1>2. ASSUME NEW c \in Conns, NEW fd \in Fds
      PROVE  [w EXCEPT !.pc = a, !.conn = c, !.cli = fd] \in HandlerStates
  BY DEF HandlerStates
<1>3. ASSUME NEW r \in Ends \cup {Closed, Dead}
      PROVE  [w EXCEPT !.pc = a, !.ref = r] \in HandlerStates
  BY DEF HandlerStates
<1>4. ASSUME NEW piece \in Pieces
      PROVE  [w EXCEPT !.pc = a, !.req = piece] \in HandlerStates
  BY DEF HandlerStates
<1>5. ASSUME NEW fd \in Fds
      PROVE  [w EXCEPT !.pc = a, !.dst = fd] \in HandlerStates
  BY DEF HandlerStates
<1>. QED
  BY <1>1, <1>2, <1>3, <1>4, <1>5

LEMMA AcceptDoes ==
  ASSUME TypeInv, NEW h \in Handlers, Accept(h)
  PROVE  /\ OthersKept(h)
         /\ handler'[h].pc = "recv"
         /\ LowestFree \in Fds /\ file[LowestFree] = Closed
         /\ handler'[h].cli = LowestFree
         /\ handler'[h].conn \in Conns \ accepted
         /\ accepted' = accepted \cup {handler'[h].conn}
         /\ file' = [file EXCEPT ![LowestFree] = Client(handler'[h].conn)]
         /\ tcp' = [tcp EXCEPT ![Client(handler'[h].conn)] = "open"]
<1>1. PICK j \in Conns \ accepted :
        /\ accepted' = accepted \cup {j}
        /\ file' = [file EXCEPT ![LowestFree] = Client(j)]
        /\ tcp' = [tcp EXCEPT ![Client(j)] = "open"]
        /\ handler' = [handler EXCEPT ![h] =
                         [@ EXCEPT !.pc = "recv", !.conn = j, !.cli = LowestFree]]
  BY DEF Accept
<1>2. LowestFree \in Fds /\ file[LowestFree] = Closed
  BY LowestIsFree DEF Accept
<1>3. handler'[h].pc = "recv" /\ handler'[h].conn = j /\ handler'[h].cli = LowestFree
  BY <1>1 DEF TypeInv, TypeOK, HandlerStates
<1>4. OthersKept(h)
  <2>1. handler \in [Handlers -> HandlerStates]
    BY DEF TypeInv, TypeOK
  <2>2. handler' \in [Handlers -> HandlerStates]
    <3>1. handler[h] \in HandlerStates /\ "recv" \in HandlerPcs /\ j \in Conns
      BY <2>1 DEF HandlerPcs
    <3>2. [handler[h] EXCEPT !.pc = "recv", !.conn = j, !.cli = LowestFree]
            \in HandlerStates
      BY <1>2, <3>1, StaysState
    <3>. QED
      BY <1>1, <2>1, <3>2
  <2>. QED
    BY <1>1, <2>1, <2>2 DEF OthersKept
<1>. QED
  BY <1>1, <1>2, <1>3, <1>4

LEMMA CallRecvDoes ==
  ASSUME TypeInv, NEW h \in Handlers, CallRecv(h)
  PROVE  /\ OthersKept(h)
         /\ handler'[h].pc = "parse" /\ handler'[h].ref = file[handler[h].cli]
         /\ Kept(h, {"conn", "cli"})
<1>1. file[handler[h].cli] \in Ends \cup {Closed, Dead}
  BY StateFacts DEF CallRecv, TypeInv, TypeOK
<1>2. handler \in [Handlers -> HandlerStates]
  BY DEF TypeInv, TypeOK
<1>3. handler' \in [Handlers -> HandlerStates]
  <2>1. handler[h] \in HandlerStates /\ "parse" \in HandlerPcs
    BY <1>2 DEF HandlerPcs
  <2>2. [handler[h] EXCEPT !.pc = "parse", !.ref = file[handler[h].cli]]
          \in HandlerStates
    BY <1>1, <2>1, StaysState
  <2>. QED
    BY <1>2, <2>2 DEF CallRecv
<1>. QED
  BY <1>2, <1>3 DEF CallRecv, HandlerStates, OthersKept, Kept

LEMMA ReadRequestDoes ==
  ASSUME TypeInv, NEW h \in Handlers, ReadRequest(h)
  PROVE  /\ OthersKept(h)
         /\ handler'[h].pc = "connect"
         /\ handler'[h].req \in Pieces
         /\ Receives(handler[h].ref, handler'[h].req)
         /\ Kept(h, {"conn", "cli"})
<1>1. PICK piece \in Pieces :
        /\ Receives(handler[h].ref, piece)
        /\ handler' = [handler EXCEPT ![h] = [@ EXCEPT !.pc = "connect", !.req = piece]]
  BY DEF ReadRequest
<1>2. handler'[h].pc = "connect" /\ handler'[h].req = piece /\ Kept(h, {"conn", "cli"})
  BY <1>1 DEF TypeInv, TypeOK, HandlerStates, Kept
<1>3. OthersKept(h)
  <2>1. handler \in [Handlers -> HandlerStates]
    BY DEF TypeInv, TypeOK
  <2>2. handler' \in [Handlers -> HandlerStates]
    <3>1. handler[h] \in HandlerStates /\ "connect" \in HandlerPcs
      BY <2>1 DEF HandlerPcs
    <3>2. [handler[h] EXCEPT !.pc = "connect", !.req = piece] \in HandlerStates
      BY <3>1, StaysState
    <3>. QED
      BY <1>1, <2>1, <3>2
  <2>. QED
    BY <1>1, <2>1, <2>2 DEF OthersKept
<1>. QED
  BY <1>1, <1>2, <1>3

LEMMA ConnectDoes ==
  ASSUME TypeInv, NEW h \in Handlers, Connect(h)
  PROVE  /\ OthersKept(h)
         /\ handler'[h].pc = "first"
         /\ LowestFree \in Fds /\ file[LowestFree] = Closed
         /\ handler'[h].dst = LowestFree
         /\ Kept(h, {"conn", "cli", "req"})
<1>1. LowestFree \in Fds /\ file[LowestFree] = Closed
  BY LowestIsFree DEF Connect
<1>2. handler \in [Handlers -> HandlerStates]
  BY DEF TypeInv, TypeOK
<1>3. handler' \in [Handlers -> HandlerStates]
  <2>1. handler[h] \in HandlerStates /\ "first" \in HandlerPcs
    BY <1>2 DEF HandlerPcs
  <2>2. [handler[h] EXCEPT !.pc = "first", !.dst = LowestFree] \in HandlerStates
    BY <1>1, <2>1, StaysState
  <2>. QED
    BY <1>2, <2>2 DEF Connect
<1>. QED
  BY <1>1, <1>2, <1>3 DEF Connect, HandlerStates, OthersKept, Kept

LEMMA SendFirstDoes ==
  ASSUME TypeInv, NEW h \in Handlers, SendFirst(h)
  PROVE  /\ OthersKept(h)
         /\ handler'[h].pc = "spawn"
         /\ Kept(h, {"conn", "cli", "dst"})
<1>1. handler \in [Handlers -> HandlerStates]
  BY DEF TypeInv, TypeOK
<1>2. handler' = [handler EXCEPT ![h] = [@ EXCEPT !.pc = "spawn"]]
  BY DEF SendFirst
<1>3. handler' \in [Handlers -> HandlerStates]
  BY <1>1, <1>2, StaysState DEF HandlerPcs
<1>. QED
  BY <1>1, <1>2, <1>3 DEF HandlerStates, OthersKept, Kept

LEMMA SpawnDoes ==
  ASSUME TypeInv, NEW h \in Handlers, Spawn(h)
  PROVE  /\ OthersKept(h)
         /\ handler'[h].pc = "taskwait"
         /\ Kept(h, {"conn", "cli"})
<1>1. handler \in [Handlers -> HandlerStates]
  BY DEF TypeInv, TypeOK
<1>2. handler' = [handler EXCEPT ![h] = [@ EXCEPT !.pc = "taskwait"]]
  BY DEF Spawn
<1>3. handler' \in [Handlers -> HandlerStates]
  BY <1>1, <1>2, StaysState DEF HandlerPcs
<1>. QED
  BY <1>1, <1>2, <1>3 DEF HandlerStates, OthersKept, Kept

Returns(h) ==
  \/ ReadFails(h) \/ LookupFails(h) \/ ConnectFails(h) \/ TimeoutFails(h)
  \/ SendFirstFails(h) \/ Taskwait(h)

LEMMA ReturnDoes ==
  ASSUME TypeInv, NEW h \in Handlers, Returns(h)
  PROVE  /\ OthersKept(h)
         /\ handler'[h] = Idle /\ handler'[h].pc = "accept"
         /\ handler[h].pc # "accept"
<1>1. Idle \in HandlerStates /\ Idle.pc = "accept"
  BY DEF Idle, HandlerStates, HandlerPcs, Pieces
<1>. QED
  BY <1>1 DEF Returns, ReadFails, LookupFails, ConnectFails, TimeoutFails,
     SendFirstFails, Taskwait, Fails, TypeInv, TypeOK, OthersKept

LEMMA StillKnown ==
  ASSUME TypeInv, NEW h \in Handlers, OthersKept(h), bridge' = bridge,
         handler'[h].pc # "accept" =>
           handler'[h].conn \in Conns /\ handler'[h].cli \in Fds,
         handler'[h].pc \in {"first", "spawn"} => handler'[h].dst \in Fds
  PROVE  NumbersKnown'
BY DEF TypeInv, NumbersKnown, OthersKept

LEMMA HandlerTypes ==
  ASSUME TypeInv, NEW h \in Handlers, HandlerStep(h)
  PROVE  TypeInv'
<1>. USE StateFacts DEF Kept
<1>1. CASE Accept(h)
  <2>1. NumbersKnown'
    BY <1>1, AcceptDoes, StillKnown DEF Accept
  <2>2. /\ Client(handler'[h].conn) \in Ends
        /\ accepted' \subseteq Conns
    <3>1. /\ handler'[h].conn \in Conns
          /\ accepted' = accepted \cup {handler'[h].conn}
      BY <1>1, AcceptDoes
    <3>2. accepted \subseteq Conns
      BY DEF TypeInv, TypeOK
    <3>. QED
      BY <3>1, <3>2 DEF Client, Ends
  <2>3. file' \in [Fds -> Ends \cup {Closed, Dead}]
    <3>1. file \in [Fds -> Ends \cup {Closed, Dead}]
      BY DEF TypeInv, TypeOK
    <3>2. file' = [file EXCEPT ![LowestFree] = Client(handler'[h].conn)]
      BY <1>1, AcceptDoes
    <3>. QED
      BY <2>2, <3>1, <3>2
  <2>4. tcp' \in [Ends -> {"none", "open", "fin", "reset", "gone"}]
    <3>1. tcp \in [Ends -> {"none", "open", "fin", "reset", "gone"}]
      BY DEF TypeInv, TypeOK
    <3>2. tcp' = [tcp EXCEPT ![Client(handler'[h].conn)] = "open"]
      BY <1>1, AcceptDoes
    <3>. QED
      BY <3>1, <3>2
  <2>. QED
    BY <1>1, <2>1, <2>2, <2>3, <2>4, AcceptDoes
    DEF Accept, OthersKept, TypeInv, TypeOK
<1>2. CASE CallRecv(h)
  <2>1. NumbersKnown'
    BY <1>2, CallRecvDoes, StillKnown DEF CallRecv
  <2>. QED
    BY <1>2, <2>1, CallRecvDoes DEF CallRecv, OthersKept, TypeInv, TypeOK, traffic
<1>3. CASE ReadRequest(h)
  <2>1. NumbersKnown'
    BY <1>3, ReadRequestDoes, StillKnown DEF ReadRequest
  <2>2. SocketsTypeOK'
    BY <1>3, ReadRequestDoes, CallTypes DEF TypeInv
  <2>. QED
    BY <1>3, <2>1, <2>2, ReadRequestDoes
    DEF ReadRequest, OthersKept, TypeInv, TypeOK, SocketsTypeOK
<1>4. CASE Connect(h)
  <2>1. NumbersKnown'
    BY <1>4, ConnectDoes, StillKnown DEF Connect
  <2>. QED
    BY <1>4, <2>1, ConnectDoes, EndFacts DEF Connect, OthersKept, TypeInv, TypeOK
<1>5. CASE NextAddress(h)
  BY <1>5 DEF NextAddress, TypeInv, TypeOK, NumbersKnown, threads, traffic
<1>6. CASE SendFirst(h)
  <2>1. NumbersKnown'
    BY <1>6, SendFirstDoes, StillKnown DEF SendFirst
  <2>2. SocketsTypeOK'
    <3>1. FirstPiece(h) \in Pieces
      BY DEF FirstPiece, Pieces
    <3>. QED
      BY <1>6, <3>1, CallTypes DEF SendFirst, TypeInv
  <2>. QED
    BY <1>6, <2>1, <2>2, SendFirstDoes
    DEF SendFirst, OthersKept, TypeInv, TypeOK, SocketsTypeOK
<1>7. CASE Spawn(h)
  <2>1. \A e \in Ends :
          /\ NewTask(h, e) \in TaskStates
          /\ NewTask(h, e).src \in Fds /\ NewTask(h, e).dst \in Fds
    BY <1>7 DEF Spawn, NewTask, NumberOf, TaskStates, BridgePcs, Pieces
  <2>2. bridge' \in [Ends -> TaskStates]
    BY <1>7, <2>1 DEF Spawn, TypeInv, TypeOK
  <2>3. NumbersKnown'
    BY <1>7, <2>1, SpawnDoes DEF Spawn, OthersKept, TypeInv, NumbersKnown
  <2>. QED
    BY <1>7, <2>2, <2>3, SpawnDoes DEF Spawn, OthersKept, TypeInv, TypeOK, traffic
<1>8. CASE Returns(h)
  <2>1. NumbersKnown'
    BY <1>8, ReturnDoes, StillKnown
    DEF Returns, ReadFails, LookupFails, ConnectFails, TimeoutFails, SendFirstFails,
        Taskwait
  <2>2. failed' \subseteq Conns
    BY <1>8, ReturnDoes
    DEF Returns, ReadFails, LookupFails, ConnectFails, TimeoutFails, SendFirstFails,
        Taskwait, Fails, TypeInv, TypeOK
  <2>3. SocketsTypeOK'
    <3>1. Nothing \in Pieces
      BY DEF Pieces
    <3>2. CASE ReadFails(h) \/ SendFirstFails(h)
      BY <3>1, <3>2, CallTypes DEF ReadFails, SendFirstFails, TypeInv
    <3>3. CASE UNCHANGED traffic
      BY <3>3 DEF traffic, TypeInv, TypeOK, SocketsTypeOK
    <3>4. CASE TimeoutFails(h)
      BY <3>4, EndFacts DEF TimeoutFails, TypeInv, TypeOK, SocketsTypeOK
    <3>. QED
      BY <1>8, <3>2, <3>3, <3>4 DEF Returns, LookupFails, ConnectFails, Taskwait
  <2>4. file' \in [Fds -> Ends \cup {Closed, Dead}]
    <3>1. file \in [Fds -> Ends \cup {Closed, Dead}]
      BY DEF TypeInv, TypeOK
    <3>2. CASE TimeoutFails(h)
      <4>1. handler[h].conn \in Conns
        BY <3>2 DEF TimeoutFails
      <4>. QED
        BY <3>1, <3>2, <4>1, EndFacts DEF TimeoutFails
    <3>3. CASE ConnectFails(h)
      BY <3>1, <3>3 DEF ConnectFails
    <3>4. CASE UNCHANGED file
      BY <3>1, <3>4
    <3>. QED
      BY <1>8, <3>2, <3>3, <3>4
      DEF Returns, ReadFails, LookupFails, SendFirstFails, Taskwait
  <2>. QED
    BY <1>8, <2>1, <2>2, <2>3, <2>4, ReturnDoes
    DEF Returns, ReadFails, LookupFails, ConnectFails, TimeoutFails, SendFirstFails,
        Taskwait, OthersKept, TypeInv, TypeOK, SocketsTypeOK
<1>. QED
  BY <1>1, <1>2, <1>3, <1>4, <1>5, <1>6, <1>7, <1>8 DEF HandlerStep, Returns

\* And what those of a task do to its own.
TasksKept(t) ==
  /\ bridge' \in [Ends -> TaskStates]
  /\ \A u \in Ends \ {t} : bridge'[u] = bridge[u]
  /\ bridge[t].pc # "none" /\ bridge'[t].pc # "none"
  /\ bridge'[t].src = bridge[t].src /\ bridge'[t].dst = bridge[t].dst
  /\ bridge[t].src \in Fds /\ bridge[t].dst \in Fds

LEMMA TaskDoes ==
  ASSUME TypeInv, NEW t \in Ends, BridgeStep(t)
  PROVE  TasksKept(t)
<1>1. bridge \in [Ends -> TaskStates]
  BY DEF TypeInv, TypeOK
<1>2. bridge[t].pc # "none"
  BY DEF BridgeStep, Check, CheckDst, BridgeCallRecv, BridgeReceives, BridgeRecvFails,
     BridgeSends, BridgeSendFails, CloseDst, CloseSrc
<1>3. bridge[t].src \in Fds /\ bridge[t].dst \in Fds
  BY <1>2 DEF TypeInv, NumbersKnown
<1>4. CASE BridgeCallRecv(t)
  <2>1. file[bridge[t].src] \in Ends \cup {Closed, Dead}
    BY <1>3 DEF TypeInv, TypeOK
  <2>2. bridge' \in [Ends -> TaskStates]
    BY <1>1, <1>4, <2>1, ZenonT(40) DEF BridgeCallRecv, TaskStates, BridgePcs
  <2>. QED
    BY <1>1, <1>2, <1>3, <1>4, <2>2 DEF BridgeCallRecv, TaskStates, TasksKept
<1>5. CASE BridgeReceives(t)
  <2>1. PICK piece \in Pieces :
          bridge' = [bridge EXCEPT ![t] = [@ EXCEPT !.pc = "send", !.piece = piece]]
    BY <1>5 DEF BridgeReceives
  <2>2. bridge' \in [Ends -> TaskStates]
    BY <1>1, <2>1, ZenonT(40) DEF TaskStates, BridgePcs
  <2>. QED
    BY <1>1, <1>2, <1>3, <2>1, <2>2 DEF TaskStates, TasksKept
<1>6. CASE \E a \in BridgePcs \ {"none"} :
             bridge' = [bridge EXCEPT ![t] = [@ EXCEPT !.pc = a]]
  BY <1>1, <1>2, <1>3, <1>6 DEF TaskStates, TasksKept
<1>. QED
  BY <1>4, <1>5, <1>6 DEF BridgeStep, Check, CheckDst, BridgeRecvFails, BridgeSends,
     BridgeSendFails, CloseDst, CloseSrc, BridgePcs

LEMMA TaskTypes ==
  ASSUME TypeInv, NEW t \in Ends, BridgeStep(t)
  PROVE  TypeInv'
<1>1. bridge' \in [Ends -> TaskStates] /\ UNCHANGED handler
  BY TaskDoes DEF TasksKept, BridgeStep, Check, CheckDst, BridgeCallRecv, BridgeReceives,
     BridgeRecvFails, BridgeSends, BridgeSendFails, CloseDst, CloseSrc
<1>2. NumbersKnown'
  BY <1>1, TaskDoes DEF TasksKept, TypeInv, NumbersKnown
<1>3. file' \in [Fds -> Ends \cup {Closed, Dead}]
  BY DEF TypeInv, TypeOK, BridgeStep, Check, CheckDst, BridgeCallRecv, BridgeReceives,
     BridgeRecvFails, BridgeSends, BridgeSendFails, CloseDst, CloseSrc
<1>4. SocketsTypeOK'
  <2>1. bridge[t].piece \in Pieces
    BY DEF TypeInv, TypeOK, TaskStates
  <2>2. CASE UNCHANGED traffic
    BY <2>2 DEF traffic, TypeInv, TypeOK, SocketsTypeOK
  <2>3. CASE \E ref : \E piece \in Pieces :
               \/ Receives(ref, piece) \/ RecvFails(ref)
               \/ Sends(ref, piece) \/ SendsPart(ref, piece) \/ SendFails(ref)
    BY <2>3, CallTypes DEF TypeInv
  <2>. QED
    BY <2>1, <2>2, <2>3
    DEF BridgeStep, Check, CheckDst, BridgeCallRecv, BridgeReceives, BridgeRecvFails,
        BridgeSends, BridgeSendFails, CloseDst, CloseSrc
<1>5. UNCHANGED <<said, accepted, failed>>
  BY DEF BridgeStep, Check, CheckDst, BridgeCallRecv, BridgeReceives, BridgeRecvFails,
     BridgeSends, BridgeSendFails, CloseDst, CloseSrc
<1>. QED
  BY <1>1, <1>2, <1>3, <1>4, <1>5 DEF TypeInv, TypeOK, SocketsTypeOK

LEMMA EndTypes ==
  ASSUME TypeInv, NEW e \in Ends, EndSends(e) \/ EndCloses(e)
  PROVE  TypeInv'
<1>1. CASE EndSends(e)
  <2>1. said[e] \in 0..MaxPieces /\ said[e] + 1 \in 0..MaxPieces
    BY <1>1, ProxyAssumption DEF EndSends, TypeInv, TypeOK
  <2>2. said' \in [Ends -> 0..MaxPieces]
    BY <1>1, <2>1 DEF EndSends, TypeInv, TypeOK
  <2>. QED
    BY <1>1, <2>2 DEF EndSends, TypeInv, TypeOK, NumbersKnown, threads, traffic
<1>2. CASE EndCloses(e)
  BY <1>2 DEF EndCloses, TypeInv, TypeOK, NumbersKnown, threads
<1>. QED
  BY <1>1, <1>2

LEMMA TypeStep == TypeInv /\ [Next]_vars => TypeInv'
<1>1. ASSUME TypeInv, UNCHANGED vars PROVE TypeInv'
  BY <1>1 DEF vars, TypeInv, TypeOK, NumbersKnown
<1>. QED
  BY <1>1, HandlerTypes, TaskTypes, EndTypes DEF Next

LEMMA Typed == Spec => []TypeInv
BY TypeInit, TypeStep, PTL DEF Spec

\* No number is used that was never a descriptor, and no call returns what it
\* could not, with any mix of requests.
THEOREM TypeCorrect == Spec => []TypeOK
<1>1. TypeInv => TypeOK
  BY DEF TypeInv
<1>. QED
  BY <1>1, Typed, PTL

-----------------------------------------------------------------------------
(* Who may have a number.                                                  *)

LEMMA OwnInit == Init => OwnInv
BY EndFacts
DEF Init, OwnInv, OneNumberEach, OneThreadEach, HandlerOwns, TaskOwns, Fresh,
    Unreferred, OpenIsOwned, IsEnd, Idle, NoTask, BeforeClose

\* A thread that is past accept has a connection and its number.
LEMMA OwnFacts ==
  ASSUME TypeInv, OwnInv
  PROVE  /\ \A h \in Handlers : handler[h].pc # "accept" =>
              /\ handler[h].conn \in Conns /\ handler[h].cli \in Fds
              /\ Client(handler[h].conn) \in Ends /\ Dest(handler[h].conn) \in Ends
         /\ \A h \in Handlers :
              handler[h].pc \in {"first", "spawn"} => handler[h].dst \in Fds
         /\ \A j \in Conns : bridge[Dest(j)].pc # "none" =>
              bridge[Dest(j)].src \in Fds /\ bridge[Dest(j)].dst \in Fds
BY EndFacts DEF TypeInv, NumbersKnown

LEMMA AcceptOwns ==
  ASSUME TypeInv, OwnInv, NEW h \in Handlers, Accept(h)
  PROVE  OwnInv'
<1>. DEFINE c == handler'[h].conn
            n == LowestFree
<1>1. /\ OthersKept(h) /\ handler[h].pc = "accept"
      /\ handler'[h].pc = "recv" /\ handler'[h].cli = n
      /\ n \in Fds /\ file[n] = Closed
      /\ c \in Conns /\ c \notin accepted /\ accepted' = accepted \cup {c}
      /\ file' = [file EXCEPT ![n] = Client(c)]
      /\ bridge' = bridge /\ failed' = failed
  BY AcceptDoes DEF Accept
<1>2. /\ \A k \in Handlers \ {h} : handler'[k] = handler[k]
      /\ file'[n] = Client(c)
      /\ \A fd \in Fds \ {n} : file'[fd] = file[fd]
  BY <1>1 DEF OthersKept, TypeInv, TypeOK
<1>3. Fresh(c)
  BY <1>1 DEF OwnInv
<1>. HIDE DEF c, n
<1>4. OneNumberEach'
  BY <1>1, <1>2, <1>3 DEF OwnInv, OneNumberEach, Fresh, Unreferred, IsEnd
<1>5. OneThreadEach'
  BY <1>1, <1>2 DEF OwnInv, OneThreadEach, HandlerOwns, c
<1>6. ASSUME NEW k \in Handlers PROVE HandlerOwns(k)'
  <2>1. CASE k = h
    BY <1>1, <1>2, <1>3, <2>1, EndFacts DEF HandlerOwns, Fresh, Unreferred, c
  <2>2. CASE k # h
    BY <1>1, <1>2, <2>2, EndFacts, OwnFacts DEF OwnInv, HandlerOwns, Unreferred
  <2>. QED
    BY <2>1, <2>2
<1>7. ASSUME NEW j \in Conns PROVE TaskOwns(j)'
  <2>1. TaskOwns(j)
    BY DEF OwnInv
  <2>2. Unreferred(Client(j)) /\ j # c => Unreferred(Client(j))'
    BY <1>2, EndFacts DEF Unreferred
  <2>3. Unreferred(Dest(j)) => Unreferred(Dest(j))'
    BY <1>2, EndFacts DEF Unreferred
  <2>. QED
    BY <1>1, <1>2, <1>3, <2>1, <2>2, <2>3, EndFacts, OwnFacts
    DEF TaskOwns, Fresh, BeforeClose
<1>8. \A j \in Conns \ accepted' : Fresh(j)'
  BY <1>1, <1>2, EndFacts DEF OwnInv, Fresh, Unreferred
<1>9. OpenIsOwned'
  BY <1>1, <1>2, EndFacts DEF OwnInv, OpenIsOwned, IsEnd, c
<1>. QED
  BY <1>4, <1>5, <1>6, <1>7, <1>8, <1>9 DEF OwnInv

\* A thread goes on with what it has.
LEMMA GoOnOwns ==
  ASSUME TypeInv, OwnInv, NEW h \in Handlers,
         CallRecv(h) \/ ReadRequest(h) \/ SendFirst(h)
  PROVE  OwnInv'
<1>1. /\ OthersKept(h)
      /\ handler'[h].conn = handler[h].conn /\ handler'[h].cli = handler[h].cli
      /\ \/ /\ handler[h].pc \in {"recv", "parse"}
            /\ handler'[h].pc \in {"parse", "connect"}
         \/ /\ handler[h].pc = "first" /\ handler'[h].pc = "spawn"
            /\ handler'[h].dst = handler[h].dst
  BY CallRecvDoes, ReadRequestDoes, SendFirstDoes
  DEF CallRecv, ReadRequest, SendFirst, Kept
<1>2. UNCHANGED <<file, bridge, accepted, failed>>
  BY DEF CallRecv, ReadRequest, SendFirst
<1>3. \A k \in Handlers \ {h} : handler'[k] = handler[k]
  BY <1>1 DEF OthersKept
<1>4. OneThreadEach'
  BY <1>1, <1>3 DEF OwnInv, OneThreadEach
<1>5. \A k \in Handlers : HandlerOwns(k)'
  BY <1>1, <1>2, <1>3 DEF OwnInv, HandlerOwns, Unreferred
<1>6. \A j \in Conns : TaskOwns(j)'
  BY <1>1, <1>2, <1>3 DEF OwnInv, TaskOwns, Unreferred
<1>7. OpenIsOwned'
  BY <1>1, <1>2, <1>3 DEF OwnInv, OpenIsOwned
<1>. QED
  BY <1>2, <1>4, <1>5, <1>6, <1>7 DEF OwnInv, OneNumberEach, Fresh, Unreferred

LEMMA ConnectOwns ==
  ASSUME TypeInv, OwnInv, NEW h \in Handlers, Connect(h)
  PROVE  OwnInv'
<1>. DEFINE c == handler[h].conn
            n == LowestFree
<1>1. /\ OthersKept(h) /\ handler[h].pc = "connect" /\ handler'[h].pc = "first"
      /\ handler'[h].dst = n /\ handler'[h].conn = c
      /\ handler'[h].cli = handler[h].cli
      /\ n \in Fds /\ file[n] = Closed
      /\ file' = [file EXCEPT ![n] = Dest(c)]
      /\ UNCHANGED <<bridge, accepted, failed>>
  BY ConnectDoes DEF Connect, Kept
<1>2. /\ \A k \in Handlers \ {h} : handler'[k] = handler[k]
      /\ file'[n] = Dest(c)
      /\ \A fd \in Fds \ {n} : file'[fd] = file[fd]
  BY <1>1 DEF OthersKept, TypeInv, TypeOK
<1>3. /\ c \in Conns /\ c \in accepted /\ Unreferred(Dest(c))
      /\ bridge[Dest(c)].pc = "none" /\ file[handler[h].cli] = Client(c)
      /\ handler[h].cli \in Fds
  BY <1>1, OwnFacts DEF OwnInv, HandlerOwns
<1>4. \A k \in Handlers \ {h} : handler[k].pc # "accept" => handler[k].conn # c
  BY <1>1 DEF OwnInv, OneThreadEach
<1>. HIDE DEF n
<1>5. OneNumberEach'
  BY <1>1, <1>2, <1>3 DEF OwnInv, OneNumberEach, Unreferred, IsEnd
<1>6. OneThreadEach'
  BY <1>1, <1>2 DEF OwnInv, OneThreadEach
<1>. HIDE DEF c
<1>7. ASSUME NEW k \in Handlers PROVE HandlerOwns(k)'
  <2>1. CASE k = h
    BY <1>1, <1>2, <1>3, <2>1, EndFacts DEF HandlerOwns
  <2>2. CASE k # h
    BY <1>1, <1>2, <1>4, <2>2, EndFacts, OwnFacts
    DEF OwnInv, HandlerOwns, Unreferred
  <2>. QED
    BY <2>1, <2>2
<1>8. ASSUME NEW j \in Conns PROVE TaskOwns(j)'
  <2>1. TaskOwns(j)
    BY DEF OwnInv
  <2>2. Unreferred(Client(j)) => Unreferred(Client(j))'
    BY <1>2, EndFacts DEF Unreferred
  <2>3. Unreferred(Dest(j)) /\ j # c => Unreferred(Dest(j))'
    BY <1>2, EndFacts DEF Unreferred
  <2>. QED
    BY <1>1, <1>2, <1>3, <2>1, <2>2, <2>3, EndFacts, OwnFacts
    DEF TaskOwns, BeforeClose
<1>9. \A j \in Conns \ accepted' : Fresh(j)'
  BY <1>1, <1>2, <1>3, EndFacts DEF OwnInv, Fresh, Unreferred
<1>10. OpenIsOwned'
  BY <1>1, <1>2, EndFacts DEF OwnInv, OpenIsOwned, IsEnd, c
<1>. QED
  BY <1>5, <1>6, <1>7, <1>8, <1>9, <1>10 DEF OwnInv

\* A socket that was never connected takes a number, and stays: nothing that
\* referred to an end changes.
EndsKept ==
  /\ \A e \in Ends : Unreferred(e) => Unreferred(e)'
  /\ \A fd \in Fds : file[fd] \in Ends => file'[fd] = file[fd]
  /\ \A fd \in Fds : file'[fd] \in Ends => file'[fd] = file[fd]

LEMMA DeadSocketKeeps ==
  ASSUME TypeInv,
         \/ file' = file
         \/ Free # {} /\ file' = [file EXCEPT ![LowestFree] = Dead]
  PROVE  EndsKept
<1>1. CASE file' = file
  BY <1>1 DEF EndsKept, Unreferred
<1>2. CASE Free # {} /\ file' = [file EXCEPT ![LowestFree] = Dead]
  <2>1. /\ LowestFree \in Fds /\ file[LowestFree] = Closed
        /\ file'[LowestFree] = Dead
        /\ \A fd \in Fds \ {LowestFree} : file'[fd] = file[fd]
    BY <1>2, LowestIsFree DEF TypeInv, TypeOK
  <2>. QED
    BY <2>1, EndFacts DEF EndsKept, Unreferred
<1>. QED
  BY <1>1, <1>2

LEMMA NextAddressOwns ==
  ASSUME TypeInv, OwnInv, NEW h \in Handlers, NextAddress(h)
  PROVE  OwnInv'
<1>1. EndsKept
  BY DeadSocketKeeps DEF NextAddress
<1>2. UNCHANGED <<handler, bridge, accepted, failed>>
  BY DEF NextAddress, threads
<1>. USE DEF EndsKept
<1>3. OneNumberEach' /\ OneThreadEach'
  BY <1>1, <1>2 DEF OwnInv, OneNumberEach, OneThreadEach, IsEnd
<1>4. ASSUME NEW k \in Handlers PROVE HandlerOwns(k)'
  BY <1>1, <1>2, EndFacts, OwnFacts DEF OwnInv, HandlerOwns
<1>5. ASSUME NEW j \in Conns PROVE TaskOwns(j)'
  BY <1>1, <1>2, EndFacts, OwnFacts DEF OwnInv, TaskOwns, BeforeClose
<1>6. \A j \in Conns \ accepted' : Fresh(j)'
  BY <1>1, <1>2, EndFacts DEF OwnInv, Fresh
<1>7. OpenIsOwned'
  BY <1>1, <1>2 DEF OwnInv, OpenIsOwned, IsEnd
<1>. QED
  BY <1>3, <1>4, <1>5, <1>6, <1>7 DEF OwnInv

\* return -1: what the thread had is left open, and no task of it exists.
LEMMA FailsOwns ==
  ASSUME TypeInv, OwnInv, NEW h \in Handlers,
         ReadFails(h) \/ LookupFails(h) \/ ConnectFails(h) \/ SendFirstFails(h)
  PROVE  OwnInv'
<1>1. EndsKept
  BY DeadSocketKeeps DEF ReadFails, LookupFails, ConnectFails, SendFirstFails
<1>2. /\ OthersKept(h) /\ handler'[h].pc = "accept"
      /\ handler[h].pc \notin {"accept", "taskwait"}
      /\ failed' = failed \cup {handler[h].conn}
      /\ UNCHANGED <<bridge, accepted>>
  BY ReturnDoes
  DEF Returns, ReadFails, LookupFails, ConnectFails, SendFirstFails, Fails
<1>3. \A k \in Handlers \ {h} : handler'[k] = handler[k]
  BY <1>2 DEF OthersKept
<1>. USE DEF EndsKept
<1>4. OneNumberEach' /\ OneThreadEach'
  BY <1>1, <1>2, <1>3 DEF OwnInv, OneNumberEach, OneThreadEach, IsEnd
<1>5. ASSUME NEW k \in Handlers PROVE HandlerOwns(k)'
  <2>1. CASE k = h
    BY <1>2, <2>1 DEF HandlerOwns
  <2>2. CASE k # h
    BY <1>1, <1>2, <1>3, <2>2, EndFacts, OwnFacts DEF OwnInv, HandlerOwns
  <2>. QED
    BY <2>1, <2>2
<1>6. ASSUME NEW j \in Conns PROVE TaskOwns(j)'
  BY <1>1, <1>2, <1>3, EndFacts, OwnFacts DEF OwnInv, TaskOwns, BeforeClose
<1>7. \A j \in Conns \ accepted' : Fresh(j)'
  BY <1>1, <1>2, EndFacts DEF OwnInv, Fresh
<1>8. OpenIsOwned'
  BY <1>1, <1>2, <1>3 DEF OwnInv, OpenIsOwned, IsEnd
<1>. QED
  BY <1>4, <1>5, <1>6, <1>7, <1>8 DEF OwnInv

\* return -1 after connect: the destination's socket stays open as well.
LEMMA TimeoutOwns ==
  ASSUME TypeInv, OwnInv, NEW h \in Handlers, TimeoutFails(h)
  PROVE  OwnInv'
<1>. DEFINE c == handler[h].conn
            n == LowestFree
<1>1. /\ OthersKept(h) /\ handler[h].pc = "connect" /\ handler'[h].pc = "accept"
      /\ n \in Fds /\ file[n] = Closed
      /\ file' = [file EXCEPT ![n] = Dest(c)]
      /\ failed' = failed \cup {c}
      /\ UNCHANGED <<bridge, accepted>>
  BY ReturnDoes, LowestIsFree DEF Returns, TimeoutFails, Fails
<1>2. /\ \A k \in Handlers \ {h} : handler'[k] = handler[k]
      /\ file'[n] = Dest(c)
      /\ \A fd \in Fds \ {n} : file'[fd] = file[fd]
  BY <1>1 DEF OthersKept, TypeInv, TypeOK
<1>3. /\ c \in Conns /\ c \in accepted /\ Unreferred(Dest(c))
      /\ bridge[Dest(c)].pc = "none"
  BY <1>1, OwnFacts DEF OwnInv, HandlerOwns
<1>4. \A k \in Handlers \ {h} : handler[k].pc # "accept" => handler[k].conn # c
  BY <1>1 DEF OwnInv, OneThreadEach
<1>. HIDE DEF n
<1>5. OneNumberEach'
  BY <1>1, <1>2, <1>3 DEF OwnInv, OneNumberEach, Unreferred, IsEnd
<1>6. OneThreadEach'
  BY <1>1, <1>2 DEF OwnInv, OneThreadEach
<1>. HIDE DEF c
<1>7. ASSUME NEW k \in Handlers PROVE HandlerOwns(k)'
  <2>1. CASE k = h
    BY <1>1, <2>1 DEF HandlerOwns
  <2>2. CASE k # h
    BY <1>1, <1>2, <1>4, <2>2, EndFacts, OwnFacts
    DEF OwnInv, HandlerOwns, Unreferred
  <2>. QED
    BY <2>1, <2>2
<1>8. ASSUME NEW j \in Conns PROVE TaskOwns(j)'
  <2>1. TaskOwns(j)
    BY DEF OwnInv
  <2>2. Unreferred(Client(j)) => Unreferred(Client(j))'
    BY <1>2, EndFacts DEF Unreferred
  <2>3. Unreferred(Dest(j)) /\ j # c => Unreferred(Dest(j))'
    BY <1>2, EndFacts DEF Unreferred
  <2>. QED
    BY <1>1, <1>2, <1>3, <2>1, <2>2, <2>3, EndFacts, OwnFacts
    DEF TaskOwns, BeforeClose
<1>9. \A j \in Conns \ accepted' : Fresh(j)'
  BY <1>1, <1>2, <1>3, EndFacts DEF OwnInv, Fresh, Unreferred
<1>10. OpenIsOwned'
  BY <1>1, <1>2, EndFacts DEF OwnInv, OpenIsOwned, IsEnd, c
<1>. QED
  BY <1>5, <1>6, <1>7, <1>8, <1>9, <1>10 DEF OwnInv

LEMMA SpawnOwns ==
  ASSUME TypeInv, OwnInv, Plain, NEW h \in Handlers, Spawn(h)
  PROVE  OwnInv'
<1>. DEFINE c == handler[h].conn
<1>1. /\ OthersKept(h) /\ handler[h].pc = "spawn" /\ handler'[h].pc = "taskwait"
      /\ handler'[h].conn = c
      /\ UNCHANGED <<file, accepted, failed>>
  BY SpawnDoes DEF Spawn, Kept
<1>2. \A k \in Handlers \ {h} : handler'[k] = handler[k]
  BY <1>1 DEF OthersKept
<1>3. /\ c \in Conns /\ c \in accepted
      /\ file[handler[h].cli] = Client(c) /\ file[handler[h].dst] = Dest(c)
  BY <1>1, OwnFacts DEF OwnInv, HandlerOwns
<1>4. \A k \in Handlers \ {h} : handler[k].pc # "accept" => handler[k].conn # c
  BY <1>1 DEF OwnInv, OneThreadEach
<1>5. /\ bridge'[Dest(c)].pc = "check"
      /\ bridge'[Dest(c)].src = handler[h].dst
      /\ bridge'[Dest(c)].dst = handler[h].cli
      /\ \A e \in Ends \ {Dest(c)} : bridge'[e] = bridge[e]
  <2>1. Sources(h) = {Dest(c)}
    BY DEF Sources, IsTunnel, Plain
  <2>2. NumberOf(h, Dest(c)) = handler[h].dst /\ NumberOf(h, Client(c)) = handler[h].cli
    BY DEF NumberOf, Client, Dest
  <2>3. bridge' = [e \in Ends |-> IF e \in Sources(h) THEN NewTask(h, e) ELSE bridge[e]]
    BY DEF Spawn
  <2>. QED
    BY <1>3, <2>1, <2>2, <2>3, EndFacts DEF NewTask
<1>. HIDE DEF c
<1>6. OneNumberEach' /\ OneThreadEach'
  BY <1>1, <1>2, <1>4 DEF OwnInv, OneNumberEach, OneThreadEach, c
<1>7. ASSUME NEW k \in Handlers PROVE HandlerOwns(k)'
  <2>1. CASE k = h
    BY <1>1, <1>3, <1>5, <2>1 DEF HandlerOwns
  <2>2. CASE k # h
    BY <1>1, <1>2, <1>4, <1>5, <2>2, EndFacts, OwnFacts
    DEF OwnInv, HandlerOwns, Unreferred
  <2>. QED
    BY <2>1, <2>2
<1>8. ASSUME NEW j \in Conns PROVE TaskOwns(j)'
  <2>1. TaskOwns(j)
    BY DEF OwnInv
  <2>2. CASE j = c
    BY <1>1, <1>3, <1>5, <2>1, <2>2, EndFacts DEF TaskOwns, BeforeClose
  <2>3. CASE j # c
    BY <1>1, <1>2, <1>5, <2>1, <2>3, EndFacts DEF TaskOwns, Unreferred
  <2>. QED
    BY <2>2, <2>3
<1>9. \A j \in Conns \ accepted' : Fresh(j)'
  BY <1>1, <1>3, <1>5, EndFacts DEF OwnInv, Fresh, Unreferred
<1>10. OpenIsOwned'
  BY <1>1, <1>2 DEF OwnInv, OpenIsOwned, c
<1>. QED
  BY <1>6, <1>7, <1>8, <1>9, <1>10 DEF OwnInv

\* return 0: the task closed both numbers.
LEMMA TaskwaitOwns ==
  ASSUME TypeInv, OwnInv, NEW h \in Handlers, Taskwait(h)
  PROVE  OwnInv'
<1>. DEFINE c == handler[h].conn
<1>1. /\ OthersKept(h) /\ handler[h].pc = "taskwait" /\ handler'[h].pc = "accept"
      /\ bridge[Dest(c)].pc \in {"none", "done"}
      /\ UNCHANGED <<file, bridge, accepted, failed>>
  BY ReturnDoes DEF Returns, Taskwait, Dest
<1>2. \A k \in Handlers \ {h} : handler'[k] = handler[k]
  BY <1>1 DEF OthersKept
<1>3. c \in Conns /\ bridge[Dest(c)].pc = "done"
  BY <1>1, OwnFacts DEF OwnInv, HandlerOwns
<1>4. Unreferred(Client(c)) /\ Unreferred(Dest(c))
  BY <1>3 DEF OwnInv, TaskOwns
<1>5. OneNumberEach' /\ OneThreadEach'
  BY <1>1, <1>2 DEF OwnInv, OneNumberEach, OneThreadEach
<1>6. \A k \in Handlers : HandlerOwns(k)'
  BY <1>1, <1>2 DEF OwnInv, HandlerOwns, Unreferred
<1>7. \A j \in Conns : TaskOwns(j)'
  BY <1>1, <1>2, <1>3 DEF OwnInv, TaskOwns, Unreferred
<1>8. OpenIsOwned'
  BY <1>1, <1>2, <1>4, EndFacts DEF OwnInv, OpenIsOwned, IsEnd, Unreferred
<1>. QED
  BY <1>1, <1>5, <1>6, <1>7, <1>8 DEF OwnInv, Fresh, Unreferred

\* Only ends of destinations have tasks.
LEMMA TaskIs ==
  ASSUME TypeInv, OwnInv, NEW t \in Ends, BridgeStep(t)
  PROVE  t = Dest(t[1]) /\ t[1] \in Conns
<1>1. bridge[t].pc # "none"
  BY TaskDoes DEF TasksKept
<1>. QED
  BY <1>1, EndFacts DEF OwnInv, TaskOwns

\* A task that neither opens nor closes.
LEMMA CopyOwns ==
  ASSUME TypeInv, OwnInv, NEW t \in Ends,
         \/ Check(t) \/ CheckDst(t) \/ BridgeCallRecv(t) \/ BridgeReceives(t)
         \/ BridgeRecvFails(t) \/ BridgeSends(t) \/ BridgeSendFails(t)
  PROVE  OwnInv'
<1>1. TasksKept(t) /\ t = Dest(t[1]) /\ t[1] \in Conns
  BY TaskDoes, TaskIs DEF BridgeStep
<1>2. /\ bridge[t].pc \in BeforeClose /\ bridge'[t].pc \in BeforeClose
      /\ UNCHANGED <<file, handler, accepted, failed>>
  <2>1. bridge \in [Ends -> TaskStates]
    BY DEF TypeInv, TypeOK
  <2>. QED
    BY <2>1, ZenonT(40) DEF Check, CheckDst, BridgeCallRecv, BridgeReceives,
       BridgeRecvFails, BridgeSends, BridgeSendFails, BeforeClose, TaskStates
<1>3. /\ \A u \in Ends \ {t} : bridge'[u] = bridge[u]
      /\ bridge'[t].src = bridge[t].src /\ bridge'[t].dst = bridge[t].dst
  BY <1>1 DEF TasksKept
<1>4. \A u \in Ends : bridge'[u].pc = "none" <=> bridge[u].pc = "none"
  BY <1>2, <1>3 DEF BeforeClose
<1>5. OneNumberEach' /\ OneThreadEach' /\ OpenIsOwned'
  BY <1>2 DEF OwnInv, OneNumberEach, OneThreadEach, OpenIsOwned
<1>6. ASSUME NEW h \in Handlers PROVE HandlerOwns(h)'
  BY <1>2, <1>4, EndFacts, OwnFacts DEF OwnInv, HandlerOwns, Unreferred
<1>7. ASSUME NEW j \in Conns PROVE TaskOwns(j)'
  <2>1. TaskOwns(j)
    BY DEF OwnInv
  <2>2. CASE Dest(j) = t
    BY <1>2, <1>3, <2>1, <2>2, EndFacts DEF TaskOwns, BeforeClose
  <2>3. CASE Dest(j) # t
    BY <1>1, <1>2, <1>3, <2>1, <2>3, EndFacts DEF TaskOwns, Unreferred
  <2>. QED
    BY <2>2, <2>3
<1>8. \A j \in Conns \ accepted' : Fresh(j)'
  BY <1>2, <1>4, EndFacts DEF OwnInv, Fresh, Unreferred
<1>. QED
  BY <1>5, <1>6, <1>7, <1>8 DEF OwnInv

\* A task closes a number: nobody else has it.
LEMMA CloseOwns ==
  ASSUME TypeInv, OwnInv, NEW t \in Ends, CloseDst(t) \/ CloseSrc(t)
  PROVE  OwnInv'
<1>. DEFINE c == t[1]
<1>1. TasksKept(t) /\ t = Dest(c) /\ c \in Conns
  BY TaskDoes, TaskIs DEF BridgeStep
<1>2. /\ UNCHANGED <<handler, accepted, failed>>
      /\ \/ bridge[t].pc = "closeDst" /\ bridge'[t].pc = "closeSrc"
         \/ bridge[t].pc = "closeSrc" /\ bridge'[t].pc = "done"
  BY DEF CloseDst, CloseSrc, TypeInv, TypeOK, TaskStates
<1>3. PICK n \in Fds, e \in Ends :
        /\ file' = [file EXCEPT ![n] = Closed] /\ file[n] = e
        /\ bridge[t].pc = "closeDst" => n = bridge[t].dst /\ e = Client(c)
        /\ bridge[t].pc = "closeSrc" => n = bridge[t].src /\ e = Dest(c)
  BY <1>1, EndFacts
  DEF TasksKept, OwnInv, TaskOwns, BeforeClose, CloseDst, CloseSrc
<1>4. /\ file'[n] = Closed
      /\ \A fd \in Fds \ {n} : file'[fd] = file[fd] /\ file[fd] # e
  BY <1>2, <1>3 DEF TypeInv, TypeOK, OwnInv, OneNumberEach, IsEnd
<1>5. /\ \A u \in Ends \ {t} : bridge'[u] = bridge[u]
      /\ bridge'[t].src = bridge[t].src /\ bridge'[t].dst = bridge[t].dst
      /\ \A u \in Ends : bridge'[u].pc = "none" <=> bridge[u].pc = "none"
  BY <1>1, <1>2 DEF TasksKept
<1>6. e[1] = c
  BY <1>2, <1>3, EndFacts
<1>7. Unreferred(e)' /\ \A u \in Ends : Unreferred(u) => Unreferred(u)'
  BY <1>3, <1>4, EndFacts DEF Unreferred
<1>8. OneNumberEach' /\ OneThreadEach'
  BY <1>2, <1>4, EndFacts DEF OwnInv, OneNumberEach, OneThreadEach, IsEnd
<1>9. ASSUME NEW h \in Handlers PROVE HandlerOwns(h)'
  <2>1. HandlerOwns(h)
    BY DEF OwnInv
  <2>2. handler[h].pc \notin {"accept", "taskwait"} => handler[h].conn # c
    BY <1>1, <1>2, <2>1 DEF HandlerOwns
  <2>. QED
    BY <1>2, <1>3, <1>4, <1>5, <1>7, <2>1, <2>2, EndFacts, OwnFacts
    DEF HandlerOwns
<1>10. ASSUME NEW j \in Conns PROVE TaskOwns(j)'
  <2>1. TaskOwns(j)
    BY DEF OwnInv
  <2>2. CASE j = c
    <3>1. bridge[t].pc = "closeDst" => file[bridge[t].src] = Dest(c)
      BY <1>1, <2>1, <2>2 DEF TaskOwns, BeforeClose
    <3>2. bridge[t].pc = "closeDst" => file'[bridge[t].src] = Dest(c)
      BY <1>1, <1>3, <1>4, <3>1, EndFacts DEF TasksKept
    <3>. QED
      BY <1>1, <1>2, <1>3, <1>5, <1>7, <2>1, <2>2, <3>2, EndFacts
      DEF TaskOwns, BeforeClose
  <2>3. CASE j # c
    <3>1. Dest(j) # t /\ Dest(j) \in Ends /\ Client(j) \in Ends /\ Client(j) # t
      BY <1>1, <2>3, EndFacts
    <3>2. \A fd \in Fds : file[fd] \in {Client(j), Dest(j)} => file'[fd] = file[fd]
      BY <1>3, <1>4, <1>6, <2>3, EndFacts
    <3>. QED
      BY <1>2, <1>5, <1>7, <2>1, <3>1, <3>2, OwnFacts DEF TaskOwns, BeforeClose
  <2>. QED
    BY <2>2, <2>3
<1>11. \A j \in Conns \ accepted' : Fresh(j)'
  BY <1>2, <1>5, <1>7, EndFacts DEF OwnInv, Fresh
<1>12. OpenIsOwned'
  BY <1>2, <1>4, EndFacts DEF OwnInv, OpenIsOwned, IsEnd
<1>. QED
  BY <1>8, <1>9, <1>10, <1>11, <1>12 DEF OwnInv

LEMMA OwnStep ==
  ASSUME Plain
  PROVE  TypeInv /\ OwnInv /\ [Next]_vars => OwnInv'
<1>. SUFFICES ASSUME TypeInv, OwnInv, [Next]_vars PROVE OwnInv'
  OBVIOUS
<1>1. ASSUME UNCHANGED <<file, handler, bridge, accepted, failed>> PROVE OwnInv'
  BY <1>1 DEF OwnInv, OneNumberEach, OneThreadEach, HandlerOwns, TaskOwns, Fresh,
     Unreferred, OpenIsOwned
<1>2. ASSUME NEW h \in Handlers, HandlerStep(h) PROVE OwnInv'
  BY <1>2, AcceptOwns, GoOnOwns, ConnectOwns, NextAddressOwns, FailsOwns,
     TimeoutOwns, SpawnOwns, TaskwaitOwns
  DEF HandlerStep
<1>3. ASSUME NEW t \in Ends, BridgeStep(t) PROVE OwnInv'
  BY <1>3, CopyOwns, CloseOwns DEF BridgeStep
<1>4. ASSUME NEW e \in Ends, EndSends(e) \/ EndCloses(e) PROVE OwnInv'
  BY <1>1, <1>4 DEF EndSends, EndCloses, threads
<1>. QED
  BY <1>1, <1>2, <1>3, <1>4 DEF Next, vars

LEMMA Owned ==
  ASSUME Plain
  PROVE  Spec => []OwnInv
BY OwnInit, OwnStep, Typed, PTL DEF Spec

\* As long as nobody asks for a tunnel, the numbers a task works with refer to
\* the ends of its own connection until it closes them: what other threads
\* accept, open and close meanwhile does not change that.
THEOREM NumbersKept ==
  ASSUME Plain
  PROVE  Spec => []NumbersStayOwn
<1>1. OwnInv => NumbersStayOwn
  <2>. SUFFICES ASSUME OwnInv, NEW t \in Ends
                PROVE  /\ bridge[t].pc \in BeforeClose => file[bridge[t].dst] = Other(t)
                       /\ bridge[t].pc \in BeforeClose \cup {"closeSrc"} =>
                            file[bridge[t].src] = t
    BY DEF NumbersStayOwn
  <2>1. t[1] \in Conns /\ TaskOwns(t[1]) /\ (t = Client(t[1]) \/ t = Dest(t[1]))
    BY EndFacts DEF OwnInv
  <2>. QED
    BY <2>1, EndFacts DEF TaskOwns, BeforeClose
<1>. QED
  BY <1>1, Owned, PTL

\* And handle_connection returns 0 only with both numbers closed.
THEOREM NothingLeaks ==
  ASSUME Plain
  PROVE  Spec => []OnlyFailuresLeak
<1>1. OwnInv => OnlyFailuresLeak
  BY DEF OwnInv, OpenIsOwned, OnlyFailuresLeak
<1>. QED
  BY <1>1, Owned, PTL

-----------------------------------------------------------------------------
(* What reaches the ends.                                                  *)

LEMMA RelayInit == Init => RelayInv
BY EndFacts
DEF Init, RelayInv, HandlerRelays, TaskRelays, ReachesEnds, Untouched, InHand,
    GivesUp, Idle, NoTask

\* The steps of a thread but for its reading and sending.
LEMMA AcceptRelays ==
  ASSUME TypeInv, OwnInv, RelayInv, NEW h \in Handlers, Accept(h)
  PROVE  RelayInv'
<1>1. PICK c \in Conns \ accepted :
        /\ OthersKept(h) /\ handler'[h].conn = c /\ handler'[h].pc = "recv"
        /\ accepted' = accepted \cup {c}
        /\ tcp' = [tcp EXCEPT ![Client(c)] = "open"]
        /\ UNCHANGED <<bridge, taken, got>>
  BY AcceptDoes DEF Accept
<1>2. Untouched(c)
  BY DEF RelayInv
<1>3. ASSUME NEW k \in Handlers PROVE HandlerRelays(k)'
  BY <1>1, <1>2 DEF OthersKept, RelayInv, HandlerRelays, Untouched
<1>4. ASSUME NEW j \in Conns PROVE TaskRelays(j)' /\ ReachesEnds(j)'
  <2>1. TaskRelays(j) /\ ReachesEnds(j)
    BY DEF RelayInv
  <2>2. tcp'[Client(j)] = tcp[Client(j)] \/ tcp[Client(j)] = "none"
    BY <1>1, <1>2, EndFacts DEF Untouched, TypeInv, TypeOK
  <2>. QED
    BY <1>1, <2>1, <2>2 DEF TaskRelays, ReachesEnds, InHand, GivesUp
<1>5. \A j \in Conns \ accepted' : Untouched(j)'
  BY <1>1, EndFacts DEF RelayInv, Untouched, TypeInv, TypeOK
<1>. QED
  BY <1>3, <1>4, <1>5 DEF RelayInv

LEMMA CallRecvRelays ==
  ASSUME TypeInv, OwnInv, RelayInv, NEW h \in Handlers, CallRecv(h)
  PROVE  RelayInv'
<1>1. /\ OthersKept(h) /\ handler[h].pc = "recv" /\ handler'[h].pc = "parse"
      /\ handler'[h].conn = handler[h].conn
      /\ handler'[h].ref = Client(handler[h].conn)
      /\ UNCHANGED <<bridge, taken, tcp, got, accepted>>
  BY CallRecvDoes DEF CallRecv, Kept, traffic, OwnInv, HandlerOwns
<1>2. ASSUME NEW k \in Handlers PROVE HandlerRelays(k)'
  BY <1>1 DEF OthersKept, RelayInv, HandlerRelays
<1>. QED
  BY <1>1, <1>2 DEF RelayInv, TaskRelays, ReachesEnds, Untouched, InHand, GivesUp

LEMMA ReadRequestRelays ==
  ASSUME TypeInv, OwnInv, RelayInv, NEW h \in Handlers, ReadRequest(h)
  PROVE  RelayInv'
<1>. DEFINE c == handler[h].conn
<1>1. /\ OthersKept(h) /\ handler[h].pc = "parse" /\ handler'[h].pc = "connect"
      /\ handler'[h].conn = c
      /\ Receives(handler[h].ref, handler'[h].req)
      /\ UNCHANGED <<bridge, accepted>>
  BY ReadRequestDoes DEF ReadRequest, Kept
<1>2. /\ c \in Conns /\ c \in accepted /\ Client(c) \in Ends
      /\ handler[h].ref = Client(c) /\ taken[Client(c)] = 0
      /\ got[Dest(c)] = <<>>
      /\ \A k \in Handlers \ {h} : handler[k].pc # "accept" => handler[k].conn # c
  BY <1>1, OwnFacts
  DEF RelayInv, HandlerRelays, OwnInv, HandlerOwns, OneThreadEach
<1>3. /\ handler'[h].req \in {Piece(Client(c), 1), Nothing}
      /\ UNCHANGED <<tcp, got>>
      /\ \A e \in Ends : e # Client(c) => taken'[e] = taken[e]
  BY <1>1, <1>2 DEF Receives, TypeInv, TypeOK
<1>. HIDE DEF c
<1>4. ASSUME NEW k \in Handlers PROVE HandlerRelays(k)'
  <2>1. HandlerRelays(k)
    BY DEF RelayInv
  <2>2. CASE k = h
    BY <1>1, <1>2, <1>3, <2>2 DEF HandlerRelays
  <2>3. CASE k # h
    BY <1>1, <1>2, <1>3, <2>1, <2>3, OwnFacts, EndFacts DEF OthersKept, HandlerRelays
  <2>. QED
    BY <2>2, <2>3
<1>5. ASSUME NEW j \in Conns PROVE TaskRelays(j)' /\ ReachesEnds(j)'
  BY <1>1, <1>3, EndFacts DEF RelayInv, TaskRelays, ReachesEnds, InHand, GivesUp
<1>6. \A j \in Conns \ accepted' : Untouched(j)'
  BY <1>1, <1>2, <1>3, EndFacts DEF RelayInv, Untouched
<1>. QED
  BY <1>4, <1>5, <1>6 DEF RelayInv

\* A call that fails at an end of an accepted connection, or at none.
LEMMA FailedCall ==
  ASSUME TypeInv, RelayInv, NEW ref, RecvFails(ref) \/ SendFails(ref)
  PROVE  /\ UNCHANGED <<taken, got>>
         /\ \A e \in Ends : tcp'[e] = tcp[e] \/ (e = ref /\ tcp'[e] = "gone")
BY DEF RecvFails, SendFails, Reported, Stalls, TypeInv, TypeOK

LEMMA ReturnRelays ==
  ASSUME TypeInv, OwnInv, RelayInv, Plain, NEW h \in Handlers, Returns(h)
  PROVE  RelayInv'
<1>. DEFINE c == handler[h].conn
<1>1. /\ OthersKept(h) /\ handler'[h].pc = "accept"
      /\ handler[h].pc # "accept"
      /\ UNCHANGED <<bridge, accepted>>
  BY ReturnDoes DEF Returns, ReadFails, LookupFails, ConnectFails, TimeoutFails,
     SendFirstFails, Taskwait
<1>2. c \in Conns /\ c \in accepted
  BY <1>1, OwnFacts DEF OwnInv, HandlerOwns
<1>3. /\ UNCHANGED <<taken, got>>
      /\ \A e \in Ends :
           \/ tcp'[e] = tcp[e]
           \/ e \in {Client(c), Dest(c)} /\ tcp'[e] = "gone"
           \/ e = Dest(c) /\ tcp'[e] = "open"
  <2>1. CASE ReadFails(h)
    <3>1. handler[h].ref = Client(c) /\ RecvFails(handler[h].ref)
      BY <2>1 DEF ReadFails, RelayInv, HandlerRelays
    <3>. QED
      BY <3>1, FailedCall
  <2>2. CASE SendFirstFails(h)
    <3>1. FirstSocket(h) = Dest(c) /\ SendFails(FirstSocket(h))
      BY <2>2 DEF SendFirstFails, FirstSocket, IsTunnel, Plain, OwnInv,
         HandlerOwns
    <3>. QED
      BY <3>1, FailedCall
  <2>3. CASE TimeoutFails(h)
    BY <2>3 DEF TimeoutFails, TypeInv, TypeOK
  <2>4. CASE UNCHANGED traffic
    BY <2>4 DEF traffic
  <2>. QED
    BY <2>1, <2>2, <2>3, <2>4 DEF Returns, LookupFails, ConnectFails, Taskwait
<1>. HIDE DEF c
<1>4. ASSUME NEW k \in Handlers PROVE HandlerRelays(k)'
  BY <1>1, <1>3 DEF OthersKept, RelayInv, HandlerRelays
<1>5. ASSUME NEW j \in Conns PROVE TaskRelays(j)' /\ ReachesEnds(j)'
  BY <1>1, <1>3, EndFacts DEF RelayInv, TaskRelays, ReachesEnds, InHand, GivesUp
<1>6. \A j \in Conns \ accepted' : Untouched(j)'
  BY <1>1, <1>2, <1>3, EndFacts DEF RelayInv, Untouched
<1>. QED
  BY <1>4, <1>5, <1>6 DEF RelayInv

LEMMA ConnectRelays ==
  ASSUME TypeInv, OwnInv, RelayInv, NEW h \in Handlers, Connect(h)
  PROVE  RelayInv'
<1>1. /\ OthersKept(h) /\ handler[h].pc = "connect" /\ handler'[h].pc = "first"
      /\ handler'[h].conn = handler[h].conn /\ handler'[h].req = handler[h].req
      /\ UNCHANGED <<bridge, taken, got, accepted>>
  BY ConnectDoes DEF Connect, Kept
<1>2. \A j \in Conns : tcp'[Client(j)] = tcp[Client(j)]
  <2>1. tcp \in [Ends -> {"none", "open", "fin", "reset", "gone"}]
    BY DEF TypeInv, TypeOK
  <2>2. tcp' = [tcp EXCEPT ![Dest(handler[h].conn)] = "open"]
    BY DEF Connect
  <2>. QED
    BY <2>1, <2>2, EndFacts
<1>3. ASSUME NEW k \in Handlers PROVE HandlerRelays(k)'
  BY <1>1 DEF OthersKept, RelayInv, HandlerRelays
<1>. QED
  BY <1>1, <1>2, <1>3 DEF RelayInv, TaskRelays, ReachesEnds, Untouched, InHand, GivesUp

LEMMA SendFirstRelays ==
  ASSUME TypeInv, OwnInv, RelayInv, Plain, NEW h \in Handlers, SendFirst(h)
  PROVE  RelayInv'
<1>. DEFINE c == handler[h].conn
<1>1. /\ OthersKept(h) /\ handler[h].pc = "first" /\ handler'[h].pc = "spawn"
      /\ handler'[h].conn = c
      /\ UNCHANGED <<bridge, accepted>>
  BY SendFirstDoes DEF SendFirst, Kept
<1>2. /\ c \in Conns /\ c \in accepted /\ Dest(c) \in Ends
      /\ handler[h].req \in {Piece(Client(c), 1), Nothing}
      /\ got[Dest(c)] = <<>>
      /\ \A k \in Handlers \ {h} : handler[k].pc # "accept" => handler[k].conn # c
  BY <1>1, OwnFacts
  DEF RelayInv, HandlerRelays, OwnInv, HandlerOwns, OneThreadEach
<1>3. Sends(Dest(c), handler[h].req)
  BY <1>1 DEF SendFirst, FirstSocket, FirstPiece, IsTunnel, Plain, OwnInv,
     HandlerOwns
<1>4. /\ UNCHANGED taken
      /\ got'[Dest(c)] \in {<<>>, <<Piece(Client(c), 1)>>}
      /\ \A e \in Ends : e # Dest(c) => got'[e] = got[e] /\ tcp'[e] = tcp[e]
  BY <1>2, <1>3 DEF Sends, TypeInv, TypeOK
<1>. HIDE DEF c
<1>5. ASSUME NEW k \in Handlers PROVE HandlerRelays(k)'
  <2>1. HandlerRelays(k)
    BY DEF RelayInv
  <2>2. CASE k = h
    BY <1>1, <2>2 DEF HandlerRelays
  <2>3. CASE k # h
    BY <1>1, <1>2, <1>4, <2>1, <2>3, OwnFacts, EndFacts DEF OthersKept, HandlerRelays
  <2>. QED
    BY <2>2, <2>3
<1>6. ASSUME NEW j \in Conns PROVE TaskRelays(j)' /\ ReachesEnds(j)'
  BY <1>1, <1>4, EndFacts DEF RelayInv, TaskRelays, ReachesEnds, InHand, GivesUp
<1>7. \A j \in Conns \ accepted' : Untouched(j)'
  BY <1>1, <1>2, <1>4, EndFacts DEF RelayInv, Untouched
<1>. QED
  BY <1>5, <1>6, <1>7 DEF RelayInv

LEMMA SpawnRelays ==
  ASSUME TypeInv, OwnInv, RelayInv, Plain, NEW h \in Handlers, Spawn(h)
  PROVE  RelayInv'
<1>. DEFINE c == handler[h].conn
<1>1. /\ OthersKept(h) /\ handler[h].pc = "spawn" /\ handler'[h].pc = "taskwait"
      /\ UNCHANGED <<taken, tcp, got, accepted>>
  BY SpawnDoes DEF Spawn, traffic
<1>2. c \in Conns /\ bridge[Dest(c)].pc = "none"
  BY <1>1, OwnFacts DEF OwnInv, HandlerOwns
<1>3. /\ bridge'[Dest(c)].pc = "check"
      /\ \A e \in Ends \ {Dest(c)} : bridge'[e] = bridge[e]
  <2>1. Sources(h) = {Dest(c)}
    BY DEF Sources, IsTunnel, Plain
  <2>. QED
    BY <1>2, <2>1, EndFacts DEF Spawn, NewTask
<1>. HIDE DEF c
<1>4. ASSUME NEW k \in Handlers PROVE HandlerRelays(k)'
  BY <1>1 DEF OthersKept, RelayInv, HandlerRelays
<1>5. ASSUME NEW j \in Conns PROVE TaskRelays(j)' /\ ReachesEnds(j)'
  <2>1. TaskRelays(j) /\ ReachesEnds(j)
    BY DEF RelayInv
  <2>2. CASE j = c
    BY <1>1, <1>2, <1>3, <2>1, <2>2 DEF TaskRelays, ReachesEnds, InHand, GivesUp
  <2>3. CASE j # c
    BY <1>1, <1>3, <2>1, <2>3, EndFacts DEF TaskRelays, ReachesEnds, InHand, GivesUp
  <2>. QED
    BY <2>2, <2>3
<1>. QED
  BY <1>1, <1>4, <1>5 DEF RelayInv, Untouched

\* A task of which a step leaves all but its own connection alone.
LEMMA OneTaskRelays ==
  ASSUME TypeInv, RelayInv, NEW c \in Conns, TaskRelays(c)', ReachesEnds(c)',
         c \in accepted, UNCHANGED <<handler, accepted>>,
         UNCHANGED got[Dest(c)], UNCHANGED taken[Client(c)],
         \A e \in Ends \ {Client(c), Dest(c)} :
           UNCHANGED <<bridge[e], taken[e], tcp[e], got[e]>>
  PROVE  RelayInv'
<1>1. ASSUME NEW j \in Conns
      PROVE  UNCHANGED got[Dest(j)] /\ UNCHANGED taken[Client(j)]
  BY EndFacts
<1>2. ASSUME NEW h \in Handlers PROVE HandlerRelays(h)'
  BY <1>1 DEF RelayInv, HandlerRelays, TypeInv, NumbersKnown
<1>3. ASSUME NEW j \in Conns PROVE TaskRelays(j)' /\ ReachesEnds(j)'
  <2>1. CASE j = c
    BY <2>1
  <2>2. CASE j # c
    BY <2>2, EndFacts DEF RelayInv, TaskRelays, ReachesEnds, InHand, GivesUp
  <2>. QED
    BY <2>1, <2>2
<1>4. \A j \in Conns \ accepted' : Untouched(j)'
  BY <1>1, EndFacts DEF RelayInv, Untouched
<1>. QED
  BY <1>2, <1>3, <1>4 DEF RelayInv

LEMMA BridgeRelays ==
  ASSUME TypeInv, OwnInv, RelayInv, Plain, NEW t \in Ends, BridgeStep(t)
  PROVE  RelayInv'
<1>. DEFINE c == t[1]
            b == bridge[t]
<1>1. /\ TasksKept(t) /\ t = Dest(c) /\ c \in Conns
      /\ Client(c) \in Ends /\ Dest(c) \in Ends /\ Client(c) # Dest(c)
      /\ UNCHANGED <<handler, accepted>>
  BY TaskDoes, TaskIs, EndFacts
  DEF BridgeStep, Check, CheckDst, BridgeCallRecv, BridgeReceives, BridgeRecvFails,
      BridgeSends, BridgeSendFails, CloseDst, CloseSrc
<1>2. /\ TaskOwns(c) /\ TaskRelays(c) /\ ReachesEnds(c)
      /\ c \in accepted
  BY <1>1 DEF OwnInv, RelayInv, Fresh, TasksKept
<1>3. /\ bridge \in [Ends -> TaskStates]
      /\ taken \in [Ends -> 0..MaxPieces]
      /\ tcp \in [Ends -> {"none", "open", "fin", "reset", "gone"}]
      /\ got \in [Ends -> Seq(Pieces \cup {Part(p) : p \in Pieces})]
      /\ bridge'[t] \in TaskStates
  BY <1>1 DEF TypeInv, TypeOK, TasksKept
<1>4. /\ \A e \in Ends \ {t} : bridge'[e] = bridge[e]
      /\ b.pc # "none" /\ bridge'[t].pc # "none"
  BY <1>1 DEF TasksKept
<1>5. CASE Check(t) \/ CheckDst(t) \/ BridgeCallRecv(t) \/ CloseDst(t) \/ CloseSrc(t)
  <2>1. UNCHANGED <<taken, tcp, got>>
    BY <1>5 DEF Check, CheckDst, BridgeCallRecv, CloseDst, CloseSrc, traffic
  <2>2. b.pc # "send" /\ bridge'[t].pc # "send"
    <3>1. CASE Check(t) \/ CheckDst(t)
      BY <1>3, <3>1 DEF Check, CheckDst, TaskStates
    <3>2. CASE BridgeCallRecv(t)
      BY <1>3, <3>2 DEF BridgeCallRecv, TaskStates
    <3>3. CASE CloseDst(t) \/ CloseSrc(t)
      BY <1>3, <3>3 DEF CloseDst, CloseSrc, TaskStates
    <3>. QED
      BY <1>5, <3>1, <3>2, <3>3
  <2>3. bridge'[t].pc = "blocked" => bridge'[t].ref = Dest(c)
    <3>1. CASE BridgeCallRecv(t)
      BY <1>1, <1>2, <1>3, <3>1 DEF BridgeCallRecv, TaskStates, TaskOwns, BeforeClose
    <3>2. CASE Check(t) \/ CheckDst(t)
      BY <1>3, <3>2 DEF Check, CheckDst, TaskStates
    <3>3. CASE CloseDst(t) \/ CloseSrc(t)
      BY <1>3, <3>3 DEF CloseDst, CloseSrc, TaskStates
    <3>. QED
      BY <1>5, <3>1, <3>2, <3>3
  <2>4. GivesUp(c) => GivesUp(c)'
    BY <1>1, <1>3, <1>5
    DEF Check, CheckDst, BridgeCallRecv, CloseDst, CloseSrc, TaskStates, GivesUp
  <2>5. TaskRelays(c)' /\ ReachesEnds(c)'
    BY <1>1, <1>2, <1>4, <2>1, <2>2, <2>3, <2>4 DEF TaskRelays, ReachesEnds, InHand
  <2>. QED
    BY <1>1, <1>2, <1>4, <2>1, <2>5, OneTaskRelays
<1>6. CASE BridgeReceives(t)
  <2>1. PICK piece \in Pieces :
          /\ Receives(Dest(c), piece)
          /\ bridge' = [bridge EXCEPT ![t] = [@ EXCEPT !.pc = "send", !.piece = piece]]
    BY <1>1, <1>2, <1>6 DEF BridgeReceives, TaskRelays
  <2>2. /\ b.pc = "blocked" /\ UNCHANGED <<tcp, got>>
        /\ \A e \in Ends : e # Dest(c) => taken'[e] = taken[e]
    BY <1>3, <1>6, <2>1 DEF BridgeReceives, Receives
  <2>3. bridge'[t].pc = "send" /\ bridge'[t].piece = piece
    BY <1>3, <2>1 DEF TaskStates
  <2>4. \/ piece = Piece(Dest(c), taken[Dest(c)] + 1)
           /\ taken'[Dest(c)] = taken[Dest(c)] + 1
        \/ piece = Nothing /\ taken'[Dest(c)] = taken[Dest(c)]
    BY <1>1, <1>3, <2>1 DEF Receives
  <2>5. taken[Dest(c)] \in Nat /\ Piece(Dest(c), taken[Dest(c)] + 1) # Nothing
    BY <1>1, <1>3, ProxyAssumption DEF Piece, Nothing, Self, Dest
  <2>6. ~GivesUp(c) /\ ~GivesUp(c)' /\ ~InHand(c)
    BY <1>1, <2>2, <2>3 DEF GivesUp, InHand
  <2>7. ReachesEnds(c)'
    BY <1>2, <2>2 DEF ReachesEnds
  <2>8. TaskRelays(c)'
    BY <1>1, <1>2, <2>2, <2>3, <2>4, <2>5, <2>6 DEF TaskRelays, InHand
  <2>. QED
    BY <1>1, <1>2, <1>4, <2>2, <2>7, <2>8, OneTaskRelays
<1>7. CASE BridgeRecvFails(t) \/ BridgeSendFails(t)
  <2>1. PICK ref \in {Client(c), Dest(c)} :
          /\ RecvFails(ref) \/ SendFails(ref)
          /\ b.pc = "send" => ref = Client(c) /\ SendFails(ref)
    BY <1>1, <1>2, <1>7
    DEF BridgeRecvFails, BridgeSendFails, TaskRelays, TaskOwns, BeforeClose
  <2>2. /\ UNCHANGED <<taken, got>>
        /\ \A e \in Ends : tcp'[e] = tcp[e] \/ (e = ref /\ tcp'[e] = "gone")
    BY <2>1, FailedCall
  <2>3. bridge'[t].pc = "closeDst"
    BY <1>3, <1>7 DEF BridgeRecvFails, BridgeSendFails, TaskStates
  <2>4. b.pc \in {"blocked", "send"}
    BY <1>7 DEF BridgeRecvFails, BridgeSendFails
  <2>5. TaskRelays(c)' /\ ReachesEnds(c)'
    BY <1>1, <1>2, <2>2, <2>3, <2>4 DEF TaskRelays, ReachesEnds, InHand, GivesUp
  <2>. QED
    BY <1>1, <1>2, <1>4, <2>1, <2>2, <2>5, OneTaskRelays
<1>8. CASE BridgeSends(t)
  <2>1. /\ b.pc = "send" /\ bridge'[t].pc = "check"
        /\ Sends(Client(c), b.piece) \/ SendsPart(Client(c), b.piece)
    BY <1>1, <1>2, <1>3, <1>8 DEF BridgeSends, TaskOwns, BeforeClose, TaskStates
  <2>2. /\ UNCHANGED taken
        /\ tcp[Client(c)] \in {"none", "open", "fin"}
        /\ \A e \in Ends : e # Client(c) => tcp'[e] = tcp[e] /\ got'[e] = got[e]
    BY <1>1, <1>3, <2>1 DEF Sends, SendsPart, Stalls, Broken, IsEnd
  <2>3. CASE b.piece = Nothing
    <3>1. UNCHANGED <<tcp, got>>
      BY <2>1, <2>3 DEF Sends, SendsPart
    <3>2. TaskRelays(c)' /\ ReachesEnds(c)'
      BY <1>1, <1>2, <2>1, <2>2, <2>3, <3>1
      DEF TaskRelays, ReachesEnds, InHand, GivesUp
    <3>. QED
      BY <1>1, <1>2, <1>4, <2>2, <3>2, OneTaskRelays
  <2>4. CASE b.piece # Nothing /\ tcp[Client(c)] = "fin"
    <3>1. tcp'[Client(c)] = "reset" /\ UNCHANGED got
      BY <1>1, <1>3, <2>1, <2>4 DEF Sends, SendsPart, Stalls
    <3>2. TaskRelays(c)' /\ ReachesEnds(c)'
      BY <1>1, <1>2, <2>1, <2>2, <3>1 DEF TaskRelays, ReachesEnds, InHand, GivesUp
    <3>. QED
      BY <1>1, <1>2, <1>4, <2>2, <3>2, OneTaskRelays
  <2>5. CASE b.piece # Nothing /\ tcp[Client(c)] # "fin"
    <3>. DEFINE s == got[Client(c)]
                n == taken[Dest(c)]
    <3>1. PICK piece \in {b.piece, Part(b.piece)} :
            /\ UNCHANGED tcp /\ got'[Client(c)] = Append(s, piece)
            /\ piece = b.piece \/ c \in Slow
      <4>1. CASE Sends(Client(c), b.piece)
        BY <1>1, <1>3, <2>5, <4>1 DEF Sends
      <4>2. CASE SendsPart(Client(c), b.piece)
        BY <1>1, <1>3, <4>2, EndFacts DEF SendsPart, Stalls
      <4>. QED
        BY <2>1, <4>1, <4>2
    <3>2. n > 0 /\ n \in Nat /\ b.piece = Piece(Dest(c), n) /\ Len(s) = n - 1
      BY <1>1, <1>2, <1>3, <2>1, <2>2, <2>5, ProxyAssumption
      DEF TaskRelays, InHand, GivesUp
    <3>3. /\ Len(Append(s, piece)) = n
          /\ \A i \in 1..(n - 1) : Append(s, piece)[i] = s[i]
          /\ Append(s, piece)[n] = piece
      <4>1. s \in Seq(Pieces \cup {Part(p) : p \in Pieces})
        BY <1>1, <1>3
      <4>2. piece \in Pieces \cup {Part(p) : p \in Pieces}
        BY <1>1, <1>3 DEF TaskStates
      <4>. QED
        BY <3>2, <4>1, <4>2, AppendProperties
    <3>4. \A i \in 1..n :
            \/ got'[Client(c)][i] = Piece(Dest(c), i)
            \/ got'[Client(c)][i] = Part(Piece(Dest(c), i)) /\ c \in Slow
      BY <1>2, <3>1, <3>2, <3>3 DEF ReachesEnds
    <3>5. TaskRelays(c)' /\ ReachesEnds(c)'
      BY <1>1, <1>2, <2>1, <2>2, <3>1, <3>2, <3>3, <3>4
      DEF TaskRelays, ReachesEnds, InHand, GivesUp
    <3>. QED
      BY <1>1, <1>2, <1>4, <2>2, <3>1, <3>5, OneTaskRelays
  <2>. QED
    BY <2>3, <2>4, <2>5
<1>. QED
  BY <1>5, <1>6, <1>7, <1>8 DEF BridgeStep

LEMMA EndRelays ==
  ASSUME TypeInv, RelayInv, NEW e \in Ends, EndSends(e) \/ EndCloses(e)
  PROVE  RelayInv'
<1>1. /\ UNCHANGED <<handler, bridge, taken, got, accepted>>
      /\ \A j \in Conns :
           \/ tcp'[Client(j)] = tcp[Client(j)]
           \/ tcp[Client(j)] = "open" /\ tcp'[Client(j)] \in {"fin", "reset"}
  BY EndFacts DEF EndSends, EndCloses, threads, traffic, TypeInv, TypeOK
<1>2. \A h \in Handlers : HandlerRelays(h)'
  BY <1>1 DEF RelayInv, HandlerRelays
<1>3. ASSUME NEW j \in Conns PROVE TaskRelays(j)' /\ ReachesEnds(j)'
  BY <1>1 DEF RelayInv, TaskRelays, ReachesEnds, InHand, GivesUp
<1>. QED
  BY <1>1, <1>2, <1>3 DEF RelayInv, Untouched

LEMMA RelayStep ==
  ASSUME Plain
  PROVE  TypeInv /\ OwnInv /\ RelayInv /\ [Next]_vars => RelayInv'
<1>. SUFFICES ASSUME TypeInv, OwnInv, RelayInv, [Next]_vars PROVE RelayInv'
  OBVIOUS
<1>1. ASSUME UNCHANGED <<handler, bridge, taken, tcp, got, accepted>> PROVE RelayInv'
  BY <1>1 DEF RelayInv, HandlerRelays, TaskRelays, ReachesEnds, Untouched, InHand, GivesUp
<1>2. ASSUME NEW h \in Handlers, HandlerStep(h) PROVE RelayInv'
  <2>1. CASE NextAddress(h)
    BY <1>1, <2>1 DEF NextAddress, threads, traffic
  <2>. QED
    BY <1>2, <2>1, AcceptRelays, CallRecvRelays, ReadRequestRelays, ConnectRelays,
       SendFirstRelays, SpawnRelays, ReturnRelays
    DEF HandlerStep, Returns
<1>. QED
  BY <1>1, <1>2, BridgeRelays, EndRelays DEF Next, vars

\* Every end gets the traffic of its own connection, in order and complete up to
\* where it breaks off, when nobody asks for a tunnel: but for the ends of the
\* pieces that a send to a slow client cut.
THEOREM RelayIsFaithful ==
  ASSUME Plain
  PROVE  Spec => []FaithfulRelay
<1>1. RelayInv => FaithfulRelay
  <2>. SUFFICES ASSUME RelayInv, NEW e \in Ends, NEW i \in 1..Len(got[e])
                PROVE  \/ got[e][i] = Expected(e, i)
                       \/ /\ got[e][i] = Part(Expected(e, i))
                          /\ e[2] = "client" /\ e[1] \in Slow
    BY DEF FaithfulRelay
  <2>1. PICK j \in Conns : e \in {Client(j), Dest(j)}
    BY EndFacts
  <2>2. Expected(e, i) = Piece(Other(e), i)
    BY DEF Expected, Plain
  <2>3. CASE e = Client(j)
    BY <2>2, <2>3, EndFacts DEF RelayInv, ReachesEnds, Client
  <2>4. CASE e = Dest(j)
    <3>1. got[e] = <<>> \/ got[e] = <<Piece(Client(j), 1)>>
      BY <2>4 DEF RelayInv, ReachesEnds
    <3>2. CASE got[e] = <<>>
      BY <3>2
    <3>3. CASE got[e] = <<Piece(Client(j), 1)>>
      BY <2>2, <2>4, <3>3, EndFacts
    <3>. QED
      BY <3>1, <3>2, <3>3
  <2>. QED
    BY <2>1, <2>3, <2>4
<1>2. Spec => []TypeInv /\ []OwnInv
  BY Typed, Owned, PTL
<1>. QED
  BY <1>1, <1>2, RelayInit, RelayStep, PTL DEF Spec
=============================================================================
