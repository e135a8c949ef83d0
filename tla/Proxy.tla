-------------------------------- MODULE Proxy --------------------------------
(***************************************************************************)
(* The HTTP proxy of hw3: handler threads that accept a client, read one   *)
(* request, connect to its destination, and leave the rest to one bridge   *)
(* task (two for CONNECT) that copies from one descriptor to the other.    *)
(*                                                                         *)
(* The descriptor table is what all of them share.  A system call looks a  *)
(* number up when it is called: a recv that blocks keeps the socket it     *)
(* found, a number that was closed is given out again, lowest first.       *)
(*                                                                         *)
(* Each connection has two ends, its client and its destination.  What     *)
(* they send is a row of pieces, each read by one recv; TCP itself, the    *)
(* name service and the other programs are external.                       *)
(***************************************************************************)
EXTENDS Naturals, Sequences, FiniteSetsExt

CONSTANTS
  Handlers,    \* the threads with tid < THREADS_NUM / 2
  Conns,       \* the connections clients make
  Tunnels,     \* those whose request is CONNECT
  Slow,        \* those with an end that may rest longer than a timeout
  MaxFd,       \* RLIMIT_NOFILE: descriptors are 1..MaxFd
  MaxPieces,   \* bound: pieces one end sends
  Brief        \* bound: the connections whose ends send one piece at most

ASSUME ProxyAssumption ==
  /\ Tunnels \subseteq Conns
  /\ Slow \subseteq Conns
  /\ MaxFd \in Nat
  /\ MaxPieces \in Nat

Fds == 1..MaxFd
Ends == Conns \X {"client", "dest"}
Client(j) == <<j, "client">>
Dest(j) == <<j, "dest">>
Other(e) == IF e[2] = "client" THEN Dest(e[1]) ELSE Client(e[1])

Closed == <<"closed">>     \* a number that refers to no socket
Dead == <<"dead">>         \* a socket that never got connected

NoFd == 0
NoConn == <<"none">>

\* The n-th piece that comes from an end, or from the proxy itself.
Piece(from, n) == [from |-> from, n |-> n, whole |-> TRUE]
Part(piece) == [piece EXCEPT !.whole = FALSE]    \* its first bytes only

Self == <<NoConn, "proxy">>
Ok == Piece(Self, 1)         \* "HTTP/1.1 200 Connection established"
Nothing == Piece(Self, 0)    \* recv returned 0 bytes

VARIABLES
  file,        \* the descriptor table: number -> end of a connection
  handler,     \* the handler threads, with the locals of handle_connection
  bridge,      \* the tasks, by the end they were made to read from
  said,        \* how many pieces each end has sent
  taken,       \* how many of them recv has returned
  tcp,         \* each end: "none" before it is connected, "open", "fin" once
               \* it closed, "reset" once the connection was aborted, "gone"
               \* once a call reported that
  got,         \* the pieces that reached each end, in order
  accepted,    \* connections that accept returned
  failed       \* history: connections whose handle_connection returned -1

vars == <<file, handler, bridge, said, taken, tcp, got, accepted, failed>>
threads == <<handler, bridge>>
traffic == <<taken, tcp, got>>

HandlerPcs == {"accept", "recv", "parse", "connect", "first", "spawn", "taskwait"}
BridgePcs == {"none", "check", "checkDst", "recv", "blocked", "send", "closeDst",
              "closeSrc", "done"}

Pieces == {Piece(e, n) : e \in Ends, n \in 1..MaxPieces} \cup {Ok, Nothing}

HandlerStates ==
  [pc : HandlerPcs, conn : Conns \cup {NoConn}, cli : Fds \cup {NoFd},
   dst : Fds \cup {NoFd}, ref : Ends \cup {Closed, Dead}, req : Pieces]

TaskStates ==
  [pc : BridgePcs, src : Fds \cup {NoFd}, dst : Fds \cup {NoFd},
   ref : Ends \cup {Closed, Dead}, piece : Pieces]

TypeOK ==
  /\ file \in [Fds -> Ends \cup {Closed, Dead}]
  /\ handler \in [Handlers -> HandlerStates]
  /\ bridge \in [Ends -> TaskStates]
  /\ said \in [Ends -> 0..MaxPieces]
  /\ taken \in [Ends -> 0..MaxPieces]
  /\ tcp \in [Ends -> {"none", "open", "fin", "reset", "gone"}]
  /\ got \in [Ends -> Seq(Pieces \cup {Part(p) : p \in Pieces})]
  /\ accepted \subseteq Conns
  /\ failed \subseteq Conns

Idle == [pc |-> "accept", conn |-> NoConn, cli |-> NoFd, dst |-> NoFd,
         ref |-> Closed, req |-> Nothing]
NoTask == [pc |-> "none", src |-> NoFd, dst |-> NoFd, ref |-> Closed,
           piece |-> Nothing]

Init ==
  /\ file = [fd \in Fds |-> Closed]
  /\ handler = [h \in Handlers |-> Idle]
  /\ bridge = [e \in Ends |-> NoTask]
  /\ said = [e \in Ends |-> 0]
  /\ taken = [e \in Ends |-> 0]
  /\ tcp = [e \in Ends |-> "none"]
  /\ got = [e \in Ends |-> <<>>]
  /\ accepted = {}
  /\ failed = {}

-----------------------------------------------------------------------------
(* The kernel: descriptors and sockets.                                    *)

Free == {fd \in Fds : file[fd] = Closed}

\* socket and accept return the lowest number that is not in use.
LowestFree == Min(Free)

IsEnd(ref) == ref \in Ends
Broken(ref) == IsEnd(ref) => tcp[ref] \in {"reset", "gone"}
AllTaken(ref) == taken[ref] = said[ref]

\* The first call that fails after a reset takes the error with it.
Reported(ref) ==
  tcp' = IF IsEnd(ref) THEN [tcp EXCEPT ![ref] = "gone"] ELSE tcp

\* recv returned a piece; or 0 bytes, after the last piece of an end that
\* closed or was lost.
Receives(ref, piece) ==
  /\ IsEnd(ref)
  /\ \/ /\ ~AllTaken(ref)
        /\ piece = Piece(ref, taken[ref] + 1)
        /\ taken' = [taken EXCEPT ![ref] = @ + 1]
     \/ /\ AllTaken(ref)
        /\ tcp[ref] \in {"fin", "gone"}
        /\ piece = Nothing
        /\ UNCHANGED taken
  /\ UNCHANGED <<tcp, got>>

\* recv returned -1: there is no such socket, it was reset, or (SO_RCVTIMEO,
\* which set_timeout sets for destinations) nothing came for RCV_TIMEOUT s.
RecvFails(ref) ==
  /\ \/ /\ IsEnd(ref) => AllTaken(ref) /\ tcp[ref] = "reset"
        /\ Reported(ref)
     \/ /\ IsEnd(ref) /\ ref[2] = "dest" /\ ref[1] \in Slow
        /\ tcp[ref] = "open"
        /\ AllTaken(ref)
        /\ UNCHANGED tcp
  /\ UNCHANGED <<taken, got>>

\* send succeeded.  What is sent to an end that closed draws a reset, and 0
\* bytes are not sent at all.
Sends(ref, piece) ==
  /\ ~Broken(ref)
  /\ IF piece = Nothing
       THEN UNCHANGED <<got, tcp>>
       ELSE IF tcp[ref] = "fin"
         THEN tcp' = [tcp EXCEPT ![ref] = "reset"] /\ UNCHANGED got
         ELSE got' = [got EXCEPT ![ref] = Append(@, piece)] /\ UNCHANGED tcp
  /\ UNCHANGED taken

\* A client that reads nothing for SND_TIMEOUT s: accepted sockets inherit the
\* SO_SNDTIMEO that init_tcp_server_socket sets.
Stalls(ref) ==
  /\ IsEnd(ref) /\ ref[2] = "client" /\ ref[1] \in Slow
  /\ tcp[ref] = "open"

\* Some bytes were sent before that: send returns how many.
SendsPart(ref, piece) ==
  /\ Stalls(ref)
  /\ piece # Nothing
  /\ got' = [got EXCEPT ![ref] = Append(@, Part(piece))]
  /\ UNCHANGED <<taken, tcp>>

\* send returned -1.
SendFails(ref) ==
  /\ \/ Broken(ref) /\ Reported(ref)
     \/ Stalls(ref) /\ UNCHANGED tcp
  /\ UNCHANGED <<taken, got>>

-----------------------------------------------------------------------------
(* A handler thread: handle_connection, again and again.                   *)

\* return -1: nothing that was opened is closed.
Fails(h) ==
  /\ handler' = [handler EXCEPT ![h] = Idle]
  /\ failed' = failed \cup {handler[h].conn}

\* Mutant: the result of accept is not looked at.
AcceptUnchecked(h) ==
  /\ handler[h].pc = "accept"
  /\ \E j \in Conns \ accepted :
       /\ accepted' = accepted \cup {j}
       /\ handler' = [handler EXCEPT ![h] =
            [@ EXCEPT !.pc = "recv", !.conn = j,
                      !.cli = IF Free = {} THEN MaxFd + 1 ELSE LowestFree]]
       /\ file' = IF Free = {} THEN file ELSE [file EXCEPT ![LowestFree] = Client(j)]
       /\ tcp' = [tcp EXCEPT ![Client(j)] = "open"]
  /\ UNCHANGED <<bridge, said, taken, got, failed>>

\* get_next_connection.  With no descriptor left accept fails, and the thread
\* tries again.
Accept(h) ==
  /\ handler[h].pc = "accept"
  /\ Free # {}
  /\ \E j \in Conns \ accepted :
       /\ accepted' = accepted \cup {j}
       /\ file' = [file EXCEPT ![LowestFree] = Client(j)]
       /\ tcp' = [tcp EXCEPT ![Client(j)] = "open"]
       /\ handler' = [handler EXCEPT ![h] =
                         [@ EXCEPT !.pc = "recv", !.conn = j, !.cli = LowestFree]]
  /\ UNCHANGED <<bridge, said, taken, got, failed>>

\* init_bridge calls recv, which finds the socket.
CallRecv(h) ==
  /\ handler[h].pc = "recv"
  /\ handler' = [handler EXCEPT ![h] =
                    [@ EXCEPT !.pc = "parse", !.ref = file[handler[h].cli]]]
  /\ UNCHANGED <<file, bridge, said, traffic, accepted, failed>>

\* recv returned, and what there is of a request is parsed.
ReadRequest(h) ==
  /\ handler[h].pc = "parse"
  /\ \E piece \in Pieces :
       /\ Receives(handler[h].ref, piece)
       /\ handler' = [handler EXCEPT ![h] =
                         [@ EXCEPT !.pc = "connect", !.req = piece]]
  /\ UNCHANGED <<file, bridge, said, accepted, failed>>

ReadFails(h) ==
  /\ handler[h].pc = "parse"
  /\ RecvFails(handler[h].ref)
  /\ Fails(h)
  /\ UNCHANGED <<file, bridge, said, accepted>>

\* init_tcp_client_socket: name found, socket made and connected, timeout set.
Connect(h) ==
  /\ handler[h].pc = "connect"
  /\ handler[h].req # Nothing
  /\ Free # {}
  /\ file' = [file EXCEPT ![LowestFree] = Dest(handler[h].conn)]
  /\ tcp' = [tcp EXCEPT ![Dest(handler[h].conn)] = "open"]
  /\ handler' = [handler EXCEPT ![h] =
                    [@ EXCEPT !.pc = "first", !.dst = LowestFree]]
  /\ UNCHANGED <<bridge, said, taken, got, accepted, failed>>

\* No such name, or no descriptor for a socket.
LookupFails(h) ==
  /\ handler[h].pc = "connect"
  /\ Fails(h)
  /\ UNCHANGED <<file, bridge, said, traffic, accepted>>

\* connect failed, and getaddrinfo knows another address: the next attempt
\* makes another socket, and this one stays.
NextAddress(h) ==
  /\ handler[h].pc = "connect"
  /\ Free # {}
  /\ file' = [file EXCEPT ![LowestFree] = Dead]
  /\ UNCHANGED <<threads, said, traffic, accepted, failed>>

\* Nobody answers, or there was no request and so no host and port 0: the
\* socket was made, and stays.
ConnectFails(h) ==
  /\ handler[h].pc = "connect"
  /\ Free # {}
  /\ file' = [file EXCEPT ![LowestFree] = Dead]
  /\ Fails(h)
  /\ UNCHANGED <<bridge, said, traffic, accepted>>

\* connect succeeded and set_timeout did not: the socket stays open.
TimeoutFails(h) ==
  /\ handler[h].pc = "connect"
  /\ handler[h].req # Nothing
  /\ Free # {}
  /\ file' = [file EXCEPT ![LowestFree] = Dest(handler[h].conn)]
  /\ tcp' = [tcp EXCEPT ![Dest(handler[h].conn)] = "open"]
  /\ Fails(h)
  /\ UNCHANGED <<bridge, said, taken, got, accepted>>

IsTunnel(h) == handler[h].req.from[1] \in Tunnels

\* The first message: the request to the destination, or 200 to the client.
FirstSocket(h) == file[IF IsTunnel(h) THEN handler[h].cli ELSE handler[h].dst]
FirstPiece(h) == IF IsTunnel(h) THEN Ok ELSE handler[h].req

SendFirst(h) ==
  /\ handler[h].pc = "first"
  /\ Sends(FirstSocket(h), FirstPiece(h))
  /\ handler' = [handler EXCEPT ![h] = [@ EXCEPT !.pc = "spawn"]]
  /\ UNCHANGED <<file, bridge, said, accepted, failed>>

SendFirstFails(h) ==
  /\ handler[h].pc = "first"
  /\ SendFails(FirstSocket(h))
  /\ Fails(h)
  /\ UNCHANGED <<file, bridge, said, accepted>>

\* Mutant: both directions for every request.
BothWays(h) == {Client(handler[h].conn), Dest(handler[h].conn)}

\* One task copies from the destination; for CONNECT another from the client.
Sources(h) ==
  {Dest(handler[h].conn)}
    \cup IF IsTunnel(h) THEN {Client(handler[h].conn)} ELSE {}

NumberOf(h, e) == IF e[2] = "client" THEN handler[h].cli ELSE handler[h].dst

NewTask(h, e) == [pc |-> "check", src |-> NumberOf(h, e),
                  dst |-> NumberOf(h, Other(e)), ref |-> Closed,
                  piece |-> Nothing]

Spawn(h) ==
  /\ handler[h].pc = "spawn"
  /\ bridge' = [e \in Ends |->
                   IF e \in Sources(h) THEN NewTask(h, e) ELSE bridge[e]]
  /\ handler' = [handler EXCEPT ![h] = [@ EXCEPT !.pc = "taskwait"]]
  /\ UNCHANGED <<file, said, traffic, accepted, failed>>

\* Mutant: no taskwait.
NoTaskwait(h) ==
  /\ handler[h].pc = "taskwait"
  /\ handler' = [handler EXCEPT ![h] = Idle]
  /\ UNCHANGED <<file, bridge, said, traffic, accepted, failed>>

\* taskwait: every task of this connection ended.  return 0.
Taskwait(h) ==
  /\ handler[h].pc = "taskwait"
  /\ \A side \in {"client", "dest"} :
       bridge[<<handler[h].conn, side>>].pc \in {"none", "done"}
  /\ handler' = [handler EXCEPT ![h] = Idle]
  /\ UNCHANGED <<file, bridge, said, traffic, accepted, failed>>

-----------------------------------------------------------------------------
(* A task: execute_bridge.                                                 *)

IsOpen(fd) == file[fd] # Closed

\* while (CBNB_SOCK_AVAILABLE(src_sfd) && CBNB_SOCK_AVAILABLE(dst_sfd)): two
\* calls of fcntl, one after the other.
Check(t) ==
  /\ bridge[t].pc = "check"
  /\ bridge' = [bridge EXCEPT ![t] = [@ EXCEPT !.pc =
                  IF IsOpen(bridge[t].src) THEN "checkDst" ELSE "closeDst"]]
  /\ UNCHANGED <<file, handler, said, traffic, accepted, failed>>

CheckDst(t) ==
  /\ bridge[t].pc = "checkDst"
  /\ bridge' = [bridge EXCEPT ![t] = [@ EXCEPT !.pc =
                  IF IsOpen(bridge[t].dst) THEN "recv" ELSE "closeDst"]]
  /\ UNCHANGED <<file, handler, said, traffic, accepted, failed>>

\* recv is called, and finds the socket.
BridgeCallRecv(t) ==
  /\ bridge[t].pc = "recv"
  /\ bridge' = [bridge EXCEPT ![t] =
                   [@ EXCEPT !.pc = "blocked", !.ref = file[bridge[t].src]]]
  /\ UNCHANGED <<file, handler, said, traffic, accepted, failed>>

\* recv returned 0 or more bytes.
BridgeReceives(t) ==
  /\ bridge[t].pc = "blocked"
  /\ \E piece \in Pieces :
       /\ Receives(bridge[t].ref, piece)
       /\ bridge' = [bridge EXCEPT ![t] = [@ EXCEPT !.pc = "send", !.piece = piece]]
  /\ UNCHANGED <<file, handler, said, accepted, failed>>

\* recv returned -1: break.
BridgeRecvFails(t) ==
  /\ bridge[t].pc = "blocked"
  /\ RecvFails(bridge[t].ref)
  /\ bridge' = [bridge EXCEPT ![t] = [@ EXCEPT !.pc = "closeDst"]]
  /\ UNCHANGED <<file, handler, said, accepted, failed>>

\* send returned how much it sent, which is not looked at.
BridgeSends(t) ==
  /\ bridge[t].pc = "send"
  /\ \/ Sends(file[bridge[t].dst], bridge[t].piece)
     \/ SendsPart(file[bridge[t].dst], bridge[t].piece)
  /\ bridge' = [bridge EXCEPT ![t] = [@ EXCEPT !.pc = "check"]]
  /\ UNCHANGED <<file, handler, said, accepted, failed>>

\* send returned -1: break.
BridgeSendFails(t) ==
  /\ bridge[t].pc = "send"
  /\ SendFails(file[bridge[t].dst])
  /\ bridge' = [bridge EXCEPT ![t] = [@ EXCEPT !.pc = "closeDst"]]
  /\ UNCHANGED <<file, handler, said, accepted, failed>>

\* CBNB_Fd_CLOSE(dst_sfd), then CBNB_Fd_CLOSE(src_sfd), whatever the numbers
\* refer to by now.
CloseDst(t) ==
  /\ bridge[t].pc = "closeDst"
  /\ file' = [file EXCEPT ![bridge[t].dst] = Closed]
  /\ bridge' = [bridge EXCEPT ![t] = [@ EXCEPT !.pc = "closeSrc"]]
  /\ UNCHANGED <<handler, said, traffic, accepted, failed>>

CloseSrc(t) ==
  /\ bridge[t].pc = "closeSrc"
  /\ file' = [file EXCEPT ![bridge[t].src] = Closed]
  /\ bridge' = [bridge EXCEPT ![t] = [@ EXCEPT !.pc = "done"]]
  /\ UNCHANGED <<handler, said, traffic, accepted, failed>>

-----------------------------------------------------------------------------
(* The ends: clients and destinations, which are not under src/.           *)

\* An end that is connected sends a piece.  (What a client sends before its
\* connection is accepted waits in the socket all the same.)
EndSends(e) ==
  /\ tcp[e] = "open"
  /\ said[e] < MaxPieces
  /\ e[1] \in Brief => said[e] = 0
  /\ said' = [said EXCEPT ![e] = @ + 1]
  /\ UNCHANGED <<file, threads, traffic, accepted, failed>>

\* An end closes its connection, or aborts it.
EndCloses(e) ==
  /\ tcp[e] = "open"
  /\ \E how \in {"fin", "reset"} : tcp' = [tcp EXCEPT ![e] = how]
  /\ UNCHANGED <<file, threads, said, taken, got, accepted, failed>>

-----------------------------------------------------------------------------
HandlerStep(h) ==
  \/ Accept(h) \/ CallRecv(h) \/ ReadRequest(h) \/ ReadFails(h)
  \/ Connect(h) \/ LookupFails(h) \/ NextAddress(h) \/ ConnectFails(h)
  \/ TimeoutFails(h)
  \/ SendFirst(h) \/ SendFirstFails(h) \/ Spawn(h) \/ Taskwait(h)

BridgeStep(t) ==
  \/ Check(t) \/ CheckDst(t)
  \/ BridgeCallRecv(t) \/ BridgeReceives(t) \/ BridgeRecvFails(t)
  \/ BridgeSends(t) \/ BridgeSendFails(t) \/ CloseDst(t) \/ CloseSrc(t)

Next ==
  \/ \E h \in Handlers : HandlerStep(h)
  \/ \E t \in Ends : BridgeStep(t)
  \/ \E e \in Ends : EndSends(e) \/ EndCloses(e)

Spec == Init /\ [][Next]_vars

\* Every thread runs.  Ends need neither send nor close.
FairSpec ==
  /\ Spec
  /\ \A h \in Handlers : WF_vars(HandlerStep(h))
  /\ \A t \in Ends : WF_vars(BridgeStep(t))

-----------------------------------------------------------------------------
(* Properties                                                              *)

\* What the i-th piece that reaches an end must be: the request goes to the
\* destination, or is answered with 200 if it is CONNECT; after that an end
\* gets what the other end of its connection sent, in order.
Expected(e, i) ==
  IF e[1] \notin Tunnels THEN Piece(Other(e), i)
  ELSE IF e[2] = "dest" THEN Piece(Other(e), i + 1)
  ELSE IF i = 1 THEN Ok ELSE Piece(Other(e), i - 1)

\* connection_handler.h:21, "The handler proxy the traffic to packet
\* destination": every end gets the traffic of its own connection, piece after
\* piece, without a copy or a piece of another connection (execute_bridge).  A
\* piece loses its end only on the way to a client that may stop reading for
\* SND_TIMEOUT s, where send may return less than it was given.
FaithfulRelay ==
  \A e \in Ends : \A i \in 1..Len(got[e]) :
    \/ got[e][i] = Expected(e, i)
    \/ got[e][i] = Part(Expected(e, i)) /\ e[2] = "client" /\ e[1] \in Slow

\* The argument behind it: until a task closes its two numbers they refer to
\* the ends of its connection, although other threads open and close
\* descriptors at the same time.
BeforeClose == {"check", "checkDst", "recv", "blocked", "send", "closeDst"}

NumbersStayOwn ==
  \A t \in Ends :
    /\ bridge[t].pc \in BeforeClose => file[bridge[t].dst] = Other(t)
    /\ bridge[t].pc \in BeforeClose \cup {"closeSrc"} => file[bridge[t].src] = t

\* When handle_connection returned 0, both descriptors of its connection are
\* closed: a connected socket that stays open is of one that returned -1.
OnlyFailuresLeak ==
  \A fd \in Fds :
    IsEnd(file[fd]) =>
      \/ file[fd][1] \in failed
      \/ \E h \in Handlers : handler[h].conn = file[fd][1]

\* connection_handler.h:27, "@return -1 if error otherwise 0": once both ends
\* of a connection closed it, handle_connection returns.
HandlerReturns ==
  \A j \in Conns :
    (tcp[Client(j)] = "fin" /\ tcp[Dest(j)] = "fin")
      ~> (\A h \in Handlers : handler[h].conn # j)
=============================================================================
