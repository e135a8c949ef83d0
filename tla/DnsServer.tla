----------------------------- MODULE DnsServer ------------------------------
(***************************************************************************)
(* The DNS server: threads that receive on one socket, parse, resolve, and *)
(* answer on the same socket (thread_serve).                               *)
(*                                                                         *)
(* Between recvfrom and sendto a thread touches only what is its own: its  *)
(* two buffers, and its firstprivate copy of client_addr.                  *)
(***************************************************************************)
EXTENDS DnsParser, DnsTable, Datagrams

CONSTANTS Clients, NoClient, NoQuery, NoAnswer

VARIABLES
  socket,      \* the datagrams that wait in the socket
  client,      \* client_addr of each thread
  sent,        \* history: which clients have sent their message
  waiting,     \* history: whose message was not answered so far
  replies      \* history: what sendto was given, with the address

serverVars == <<socket, client, sent, waiting, replies>>
vars == <<tableVars, query, parser, serverVars>>

Idle == [Begin EXCEPT !.pc = "recv"]

Init ==
  /\ TableInit
  /\ query = [t \in Threads |-> NoQuery]
  /\ parser = [t \in Threads |-> Idle]
  /\ socket = <<>>
  /\ client = [t \in Threads |-> NoClient]
  /\ sent = {}
  /\ waiting = {}
  /\ replies = {}

\* A client sends a message; before the socket is bound it would be lost.
Ask(c, q) ==
  /\ main = "serve"
  /\ c \notin sent
  /\ sent' = sent \cup {c}
  /\ waiting' = waiting \cup {<<c, q>>}
  /\ socket' = Enqueue(socket, [from |-> c, query |-> q])
  /\ UNCHANGED <<tableVars, query, parser, client, replies>>

\* Mutant: one client_addr for all threads.
SharedAddress(t, c) == [u \in Threads |-> c]

\* Mutant: recvfrom is not asked for the address of the sender.
AddressNotTaken(t, c) == client

\* Each thread has its own copy of client_addr (firstprivate).
OwnAddress(t, c) == [client EXCEPT ![t] = c]

Receive(t) ==
  /\ main = "serve" /\ At(t, "recv")
  /\ \E i \in Receivable(socket) :
       /\ socket' = Without(socket, i)
       /\ query' = [query EXCEPT ![t] = socket[i].query]
       /\ client' = OwnAddress(t, socket[i].from)
       /\ parser' = [parser EXCEPT ![t] = Begin]
  /\ UNCHANGED <<tableVars, sent, waiting, replies>>

\* "Can't parse DNS message": continue.
Drop(t) ==
  /\ main = "serve" /\ At(t, "dropped")
  /\ parser' = [parser EXCEPT ![t] = Idle]
  /\ UNCHANGED <<tableVars, query, serverVars>>

-----------------------------------------------------------------------------
(* resolve_query, stringify_dns_message.                                   *)

First(t) == parser[t].first

\* Mutant: the last record of that name.
LastMatch(text) == SelectLastInSeq(table, LAMBDA record : record.name = text)

\* Which record is the first of that name; 0 for none.
Lookup(text) == SelectInSeq(table, LAMBDA record : record.name = text)

\* In the order of set_header and set_answer.
Rcode(t) ==
  IF Input(t).counts[1] # 1 THEN 1
  ELSE IF First(t).type # 1 \/ First(t).class # 1 \/ Flags(Input(t).word).opcode = 1
    THEN 4
  ELSE IF Lookup(First(t).text) = 0 THEN 3 ELSE 0

\* concatenateFlags
Word(f) ==
  f.qr * 2^15 + f.opcode * 2^11 + f.aa * 2^10 + f.tc * 2^9 + f.rd * 2^8
    + f.ra * 2^7 + f.z * 2^4 + f.rcode

ReplyFlags(t) ==
  [Flags(Input(t).word) EXCEPT
     !.qr = 1, !.aa = 1, !.tc = 0, !.ra = 0, !.z = 0, !.rcode = Rcode(t)]

\* The question, copied.  If there is none, questions[0] is whatever malloc(0)
\* returned.
Copied(t) ==
  IF Input(t).counts[1] = 0 THEN Scrap
  ELSE [text |-> First(t).text, type |-> First(t).type, class |-> First(t).class]

Response(t) ==
  [id |-> Input(t).id,
   word |-> Word(ReplyFlags(t)),
   question |-> Copied(t),
   answer |-> IF Rcode(t) = 0 THEN table[Lookup(First(t).text)].ip ELSE NoAnswer]

\* How much of server_message it takes, if there is a question: without one it
\* is as much as the labels of a questions[0] that was never set.  Name, type, class, ttl, length and
\* address of the answer are 16 bytes.
ResponseSize(t) ==
  HeaderSize + First(t).size + (IF Rcode(t) = 0 THEN 16 ELSE 0)

\* Mutant: the longest name as it is usually quoted, without the NUL.
NameRoom253 == 253

\* malloc(sizeof(char) * 256)
NameRoom == 256

\* How much of domain_name, which is filled if there is one question: dots for all but the last length, and a NUL.
JoinedSize(t) == First(t).size - 5

\* Mutant: nothing is sent when resolve_query returned 1.
RespondIfFound(t) ==
  /\ main = "serve" /\ At(t, "parsed")
  /\ parser' = [parser EXCEPT ![t] = Idle]
  /\ IF Rcode(t) = 0
       THEN /\ replies' = replies \cup {<<client[t], Response(t)>>}
            /\ waiting' = waiting \ {<<client[t], query[t]>>}
       ELSE UNCHANGED <<waiting, replies>>
  /\ UNCHANGED <<tableVars, query, socket, client, sent>>

\* The response is handed to sendto, whether or not that succeeds.
Respond(t) ==
  /\ main = "serve" /\ At(t, "parsed")
  /\ parser' = [parser EXCEPT ![t] = Idle]
  /\ replies' = replies \cup {<<client[t], Response(t)>>}
  /\ waiting' = waiting \ {<<client[t], query[t]>>}
  /\ UNCHANGED <<tableVars, query, socket, client, sent>>

\* The labels of a questions[0] that was never set may be anywhere, and so
\* may what is read behind client_message: the process may be killed.
ReadsAnywhere(t) ==
  \/ At(t, "parsed") /\ Input(t).counts[1] = 0
  \/ BehindBuffer(t)

Killed(t) ==
  /\ main = "serve" /\ ReadsAnywhere(t)
  /\ main' = "dead"
  /\ UNCHANGED <<file, lineNo, table, size, query, parser, serverVars>>

-----------------------------------------------------------------------------
Serve(t) ==
  \/ Receive(t)
  \/ main = "serve" /\ Parse(t) /\ UNCHANGED <<tableVars, serverVars>>
  \/ Drop(t)
  \/ Respond(t)

Next ==
  \/ Load /\ UNCHANGED <<query, parser, serverVars>>
  \/ \E c \in Clients, q \in DOMAIN Messages : Ask(c, q)
  \/ \E t \in Threads : Serve(t) \/ Killed(t)

Spec == Init /\ [][Next]_vars

\* The process runs, and each of its threads.  Nobody has to ask.
FairSpec ==
  /\ Spec
  /\ WF_vars(Load /\ UNCHANGED <<query, parser, serverVars>>)
  /\ \A t \in Threads : WF_vars(Serve(t))

-----------------------------------------------------------------------------
(* Properties                                                              *)

TypeOK ==
  /\ main \in {"load", "serve", "dead"}
  /\ file \in Files /\ lineNo \in 0..Len(file) /\ size \in Nat
  /\ query \in [Threads -> DOMAIN Messages \cup {NoQuery}]
  /\ client \in [Threads -> Clients \cup {NoClient}]
  /\ socket \in Seq([from : Clients, query : DOMAIN Messages])
  /\ \A t \in Threads :
       /\ parser[t].pc \in {"recv", "check", "item", "label", "parsed", "dropped"}
       /\ parser[t].room \in 0..255
  /\ waiting \subseteq Clients \X DOMAIN Messages
  /\ \A r \in replies : r[1] \in Clients /\ r[2].word \in Bits16

\* What a thread is busy with still waits for its reply, and at the address
\* that the thread will send it to: however the threads take turns at the
\* socket between recvfrom and sendto, none answers the client of another one
\* and no two answer the same message (thread_serve, client_addr).
RepliesToAsker ==
  \A t \in Threads : ~At(t, "recv") => <<client[t], query[t]>> \in waiting

\* The longest name the DNS allows fits in domain_name, and its answer in
\* server_message (set_answer, stringify_dns_message).  Not said of a message
\* without a question: what is copied for it may have any size (Killed).
BuffersFit ==
  \A t \in Threads :
    At(t, "parsed") /\ Input(t).counts[1] # 0 =>
      JoinedSize(t) <= NameRoom /\ ResponseSize(t) <= BufferSize

\* The server is a name server for the file it loaded.
Service ==
  INSTANCE DnsService WITH records <- Entries(file)

ImplementsService == Service!Spec

\* Every message that can be parsed is answered, also when the answer is an
\* error, unless the process was killed: a thread that dropped or answered
\* one comes back to recvfrom, and none of them stays in the parser.
Unanswered(c) == \E q \in DOMAIN Messages : <<c, q>> \in waiting /\ Messages[q].whole

Answered == \A c \in Clients : Unanswered(c) ~> (~Unanswered(c) \/ main = "dead")
=============================================================================
