-------------------------- MODULE DnsServerProofs ---------------------------
(***************************************************************************)
(* Proofs about DnsServer, for any number of threads, clients, messages    *)
(* and lines.                                                              *)
(*                                                                         *)
(* RepliesToAsker is not inductive: a thread that answers takes a message  *)
(* from those that wait, and nothing says that no other thread has it too. *)
(* ServeInv adds that every message is in one place: it waits in the       *)
(* socket, once, or one thread is busy with it.                            *)
(*                                                                         *)
(* What the parser makes of its message is in DnsParserProofs: the steps   *)
(* of the other threads, of the loader and of the clients leave ParserInv  *)
(* alone.                                                                  *)
(*                                                                         *)
(* ServiceImplemented shows that the server is the DnsService that one     *)
(* would ask for.  The service has the whole file from the start, the      *)
(* table of the server grows line by line: no thread looks into it before  *)
(* the last one is loaded (TableMatches), so each answer is that of the    *)
(* file.                                                                   *)
(***************************************************************************)
EXTENDS DnsServer, DatagramsProofs, DnsParserProofs

(***************************************************************************)
(* The table.                                                              *)
(***************************************************************************)
IsRow(s) == \E S : s \in Seq(S)

TableInv ==
  /\ IsRow(table)
  /\ size \in Nat
  /\ main = "load" => size > 0
  /\ TableFits

LEMMA AppendRow ==
  ASSUME NEW s, IsRow(s), NEW e
  PROVE  /\ IsRow(Append(s, e)) /\ Len(s) \in Nat
         /\ Len(Append(s, e)) = Len(s) + 1
<1>1. PICK S : s \in Seq(S)
  BY DEF IsRow
<1>2. s \in Seq(S \cup {e})
  <2>1. Len(s) \in Nat /\ s \in [1..Len(s) -> S]
    BY <1>1, LenProperties
  <2>2. s \in [1..Len(s) -> S \cup {e}]
    BY <2>1
  <2>. QED
    BY <2>1, <2>2, SeqDef
<1>. QED
  BY <1>2, AppendProperties, LenProperties DEF IsRow

LEMMA TableStarts == Init => TableInv
<1>1. <<>> \in Seq({}) /\ Len(<<>>) = 0
  BY EmptySeq
<1>. QED
  BY <1>1, DnsTableAssumption DEF Init, TableInit, TableInv, TableFits, IsRow

LEMMA TableStays == TableInv /\ [Next]_vars => TableInv'
<1>. SUFFICES ASSUME TableInv, [Next]_vars
              PROVE  TableInv'
  OBVIOUS
<1>. USE DEF TableInv, TableFits
<1>1. CASE LoadLine
  <2>. DEFINE e == [name |-> Domain(NextLine), ip |-> NextLine.ip]
  <2>1. table' = Append(table, e) /\ size' = SizeFor(Len(table)) /\ main = "load"
    BY <1>1 DEF LoadLine
  <2>2. /\ IsRow(table') /\ Len(table) \in Nat /\ Len(table') = Len(table) + 1
    BY <2>1, AppendRow
  <2>3. size' \in Nat /\ size' >= Len(table) + 1
    BY <2>1, <2>2 DEF SizeFor
  <2>. QED
    BY <2>2, <2>3
<1>2. CASE Loaded
  <2>1. Len(table) \in Nat
    BY LenProperties DEF IsRow
  <2>. QED
    BY <1>2, <2>1 DEF Loaded
<1>3. CASE table' = table /\ size' = size /\ (main' = "load" => main = "load")
  BY <1>3
<1>4. CASE SkipBlank \/ LoadNoName
  BY <1>3, <1>4 DEF SkipBlank, LoadNoName
<1>5. CASE UNCHANGED vars
  BY <1>3, <1>5 DEF vars, tableVars
<1>6. ASSUME NEW c \in Clients, NEW q \in DOMAIN Messages, Ask(c, q)
      PROVE  TableInv'
  BY <1>3, <1>6 DEF Ask, tableVars
<1>7. ASSUME NEW t \in Threads, Serve(t) \/ Killed(t)
      PROVE  TableInv'
  BY <1>3, <1>7 DEF Serve, Receive, Drop, Respond, Killed, tableVars
<1>. QED
  BY <1>1, <1>2, <1>4, <1>5, <1>6, <1>7 DEF Next, Load

\* However many lines the file has, every record is written into memory that
\* was allocated for it (load_dns_server_data).
THEOREM TableHasRoom == Spec => []TableFits
<1>1. TableInv => TableFits
  BY DEF TableInv
<1>. QED
  BY TableStarts, TableStays, <1>1, PTL DEF Spec

(***************************************************************************)
(* The socket and the threads.                                             *)
(***************************************************************************)
Busy == {t \in Threads : ~At(t, "recv")}

ThreadsOwn ==
  /\ parser = [t \in Threads |-> parser[t]]
  /\ query = [t \in Threads |-> query[t]]
  /\ client = [t \in Threads |-> client[t]]

SocketOK ==
  /\ socket \in Seq([from : Clients, query : DOMAIN Messages])
  /\ \A i \in DOMAIN socket :
       /\ socket[i].from \in sent
       /\ <<socket[i].from, socket[i].query>> \in waiting
  /\ \A i, j \in DOMAIN socket : socket[i].from = socket[j].from => i = j

BusyOK ==
  /\ \A t \in Busy : client[t] \in sent /\ <<client[t], query[t]>> \in waiting
  /\ \A t, u \in Busy : client[t] = client[u] => t = u
  /\ \A t \in Busy, i \in DOMAIN socket : client[t] # socket[i].from

ServeInv == ThreadsOwn /\ SocketOK /\ BusyOK

\* What is left in a channel, place by place.
LEMMA WithoutElements ==
  ASSUME NEW S, NEW ch \in Seq(S), NEW i \in DOMAIN ch
  PROVE  /\ DOMAIN Without(ch, i) = 1..(Len(ch) - 1)
         /\ \A j \in 1..(Len(ch) - 1) :
              Without(ch, i)[j] = ch[IF j < i THEN j ELSE j + 1]
<1>1. Len(ch) \in Nat /\ DOMAIN ch = 1..Len(ch) /\ i \in 1..Len(ch)
  BY LenProperties
<1>2. \A j \in 1..Len(ch) : ch[j] \in S
  BY ElementOfSeq
<1>. DEFINE left == SubSeq(ch, 1, i - 1)
            right == SubSeq(ch, i + 1, Len(ch))
<1>3. /\ left \in Seq(S) /\ Len(left) = i - 1
      /\ \A j \in 1..(i - 1) : left[j] = ch[j]
  BY <1>1, <1>2, SubSeqProperties
<1>4. /\ right \in Seq(S) /\ Len(right) = Len(ch) - i
      /\ \A j \in 1..(Len(ch) - i) : right[j] = ch[i + j]
  BY <1>1, <1>2, SubSeqProperties
<1>5. /\ Len(left \o right) = Len(ch) - 1 /\ left \o right \in Seq(S)
      /\ \A j \in 1..(Len(ch) - 1) :
           (left \o right)[j] = IF j < i THEN left[j] ELSE right[j - (i - 1)]
  <2>. HIDE DEF left, right
  <2>1. /\ left \o right \in Seq(S)
        /\ Len(left \o right) = Len(left) + Len(right)
        /\ \A j \in 1..(Len(left) + Len(right)) :
             (left \o right)[j] = IF j <= Len(left) THEN left[j]
                                 ELSE right[j - Len(left)]
    BY <1>3, <1>4, ConcatProperties
  <2>2. Len(left) = i - 1 /\ Len(left) + Len(right) = Len(ch) - 1
    BY <1>1, <1>3, <1>4
  <2>3. ASSUME NEW j \in 1..(Len(ch) - 1)
        PROVE  (left \o right)[j] = IF j < i THEN left[j] ELSE right[j - (i - 1)]
    <3>1. (j <= i - 1) <=> (j < i)
      BY <1>1
    <3>. QED
      BY <2>1, <2>2, <3>1
  <2>. QED
    BY <2>1, <2>2, <2>3
<1>6. Without(ch, i) = left \o right
  BY DEF Without, RemoveAt
<1>7. DOMAIN Without(ch, i) = 1..(Len(ch) - 1)
  BY <1>5, <1>6, LenProperties
<1>8. ASSUME NEW j \in 1..(Len(ch) - 1)
      PROVE  Without(ch, i)[j] = ch[IF j < i THEN j ELSE j + 1]
  <2>1. CASE j < i
    <3>1. j \in 1..(i - 1)
      BY <1>1, <2>1
    <3>. QED
      BY <1>3, <1>5, <1>6, <2>1, <3>1
  <2>2. CASE ~(j < i)
    <3>1. j - (i - 1) \in 1..(Len(ch) - i) /\ i + (j - (i - 1)) = j + 1
      BY <1>1, <2>2
    <3>. QED
      BY <1>4, <1>5, <1>6, <2>2, <3>1, ZenonT(40)
  <2>. QED
    BY <2>1, <2>2
<1>. QED
  BY <1>7, <1>8

LEMMA ServeStarts == Init => ServeInv
<1>. SUFFICES ASSUME Init PROVE ServeInv
  OBVIOUS
<1>1. Busy = {}
  BY DEF Init, Busy, At, Idle, Begin
<1>2. socket \in Seq([from : Clients, query : DOMAIN Messages]) /\ DOMAIN socket = {}
  BY EmptySeq DEF Init
<1>. QED
  BY <1>1, <1>2 DEF Init, ServeInv, ThreadsOwn, SocketOK, BusyOK

\* A step of a thread that stays busy, or of the loader, moves no message.
LEMMA ServeUnmoved ==
  ASSUME ServeInv, UNCHANGED <<query, serverVars>>,
         parser' = [t \in Threads |-> parser'[t]],
         \A t \in Threads : ~At(t, "recv")' => ~At(t, "recv")
  PROVE  ServeInv'
<1>1. Busy' \subseteq Busy
  BY DEF Busy
<1>. QED
  BY <1>1 DEF ServeInv, ThreadsOwn, SocketOK, BusyOK, serverVars

LEMMA ServeAsk ==
  ASSUME ServeInv, NEW c \in Clients, NEW q \in DOMAIN Messages, Ask(c, q)
  PROVE  ServeInv'
<1>. DEFINE m == [from |-> c, query |-> q]
            D == [from : Clients, query : DOMAIN Messages]
<1>1. /\ socket' = Enqueue(socket, m) /\ c \notin sent
      /\ sent' = sent \cup {c} /\ waiting' = waiting \cup {<<c, q>>}
      /\ UNCHANGED <<query, parser, client>>
  BY DEF Ask
<1>2. socket \in Seq(D) /\ m \in D
  BY DEF ServeInv, SocketOK
<1>3. socket' \in Seq(D)
  BY <1>1, <1>2, EnqueueInSeq
<1>4. Busy' = Busy
  BY <1>1 DEF Busy, At
<1>5. \A i \in DOMAIN socket' :
        \/ i \in DOMAIN socket /\ socket'[i] = socket[i]
        \/ i = Len(socket) + 1 /\ i \notin DOMAIN socket /\ socket'[i] = m
  BY <1>1, <1>2, AppendProperties, LenProperties DEF Enqueue
<1>6. SocketOK'
  <2>. HIDE DEF D, m
  <2>1. m.from = c /\ m.query = q
    BY DEF m
  <2>2. ASSUME NEW i \in DOMAIN socket'
        PROVE  socket'[i].from \in sent' /\ <<socket'[i].from, socket'[i].query>> \in waiting'
    BY <1>1, <1>5, <2>1 DEF ServeInv, SocketOK
  <2>3. ASSUME NEW i \in DOMAIN socket', NEW j \in DOMAIN socket',
               socket'[i].from = socket'[j].from
        PROVE  i = j
    BY <1>1, <1>5, <2>1, <2>3 DEF ServeInv, SocketOK
  <2>. QED
    BY <1>3, <2>2, <2>3 DEF SocketOK, D
<1>7. BusyOK'
  <2>. HIDE DEF D, m
  <2>1. m.from = c
    BY DEF m
  <2>2. \A t \in Busy, i \in DOMAIN socket' : client[t] # socket'[i].from
    BY <1>1, <1>5, <2>1 DEF ServeInv, BusyOK
  <2>. QED
    BY <1>1, <1>4, <2>2 DEF ServeInv, BusyOK
<1>. QED
  BY <1>1, <1>6, <1>7 DEF ServeInv, ThreadsOwn

LEMMA ServeReceive ==
  ASSUME ServeInv, NEW t \in Threads, Receive(t)
  PROVE  ServeInv'
<1>. DEFINE D == [from : Clients, query : DOMAIN Messages]
<1>1. PICK i \in Receivable(socket) :
        /\ socket' = Without(socket, i)
        /\ query' = [query EXCEPT ![t] = socket[i].query]
        /\ client' = [client EXCEPT ![t] = socket[i].from]
        /\ parser' = [parser EXCEPT ![t] = Begin]
        /\ UNCHANGED <<sent, waiting>>
  BY DEF Receive, OwnAddress
<1>2. socket \in Seq(D) /\ i \in DOMAIN socket /\ t \notin Busy
  BY DEF ServeInv, SocketOK, Receivable, Receive, Busy
<1>3. socket' \in Seq(D)
  BY <1>1, <1>2, WithoutInSeq
<1>4. \A j \in DOMAIN socket' :
        LET k == IF j < i THEN j ELSE j + 1
        IN  k \in DOMAIN socket /\ k # i /\ socket'[j] = socket[k]
  BY <1>1, <1>2, WithoutElements, LenProperties
<1>5. \A j, k \in DOMAIN socket' :
        (IF j < i THEN j ELSE j + 1) = (IF k < i THEN k ELSE k + 1) => j = k
  BY <1>1, <1>2, WithoutElements, LenProperties
<1>6. SocketOK'
  <2>1. ASSUME NEW j \in DOMAIN socket'
        PROVE  socket'[j].from \in sent' /\ <<socket'[j].from, socket'[j].query>> \in waiting'
    BY <1>1, <1>4 DEF ServeInv, SocketOK
  <2>2. ASSUME NEW j \in DOMAIN socket', NEW k \in DOMAIN socket',
               socket'[j].from = socket'[k].from
        PROVE  j = k
    BY <1>4, <1>5, <2>2 DEF ServeInv, SocketOK
  <2>. QED
    BY <1>3, <2>1, <2>2 DEF SocketOK
<1>7. ThreadsOwn'
  BY <1>1 DEF ServeInv, ThreadsOwn
<1>8. /\ client'[t] = socket[i].from /\ query'[t] = socket[i].query
      /\ \A u \in Threads \ {t} :
           /\ client'[u] = client[u] /\ query'[u] = query[u]
           /\ parser'[u] = parser[u]
  BY <1>1 DEF ServeInv, ThreadsOwn
<1>9. \A u \in Busy' : u = t \/ (u \in Busy /\ u # t)
  BY <1>8 DEF Busy, At
<1>10. BusyOK'
  <2>1. ASSUME NEW u \in Busy'
        PROVE  /\ client'[u] \in sent' /\ <<client'[u], query'[u]>> \in waiting'
               /\ \A j \in DOMAIN socket' : client'[u] # socket'[j].from
    <3>1. CASE u = t
      BY <1>1, <1>2, <1>4, <1>8, <3>1 DEF ServeInv, SocketOK
    <3>2. CASE u \in Busy /\ u # t
      <4>1. u \in Threads /\ client'[u] = client[u] /\ query'[u] = query[u]
        BY <1>8, <3>2 DEF Busy
      <4>. QED
        BY <1>1, <1>4, <3>2, <4>1 DEF ServeInv, BusyOK
    <3>. QED
      BY <1>9, <3>1, <3>2
  <2>2. ASSUME NEW u \in Busy', NEW v \in Busy', client'[u] = client'[v]
        PROVE  u = v
    BY <1>2, <1>8, <1>9, <2>2 DEF ServeInv, BusyOK, Busy
  <2>. QED
    BY <2>1, <2>2 DEF BusyOK
<1>. QED
  BY <1>6, <1>7, <1>10 DEF ServeInv

LEMMA ServeRespond ==
  ASSUME ServeInv, NEW t \in Threads, Respond(t)
  PROVE  ServeInv'
<1>1. /\ parser' = [parser EXCEPT ![t] = Idle]
      /\ waiting' = waiting \ {<<client[t], query[t]>>}
      /\ UNCHANGED <<query, socket, client, sent>>
      /\ t \in Busy
  BY DEF Respond, Busy, At
<1>2. Busy' = Busy \ {t}
  BY <1>1 DEF ServeInv, ThreadsOwn, Busy, At, Idle, Begin
<1>3. SocketOK'
  BY <1>1 DEF ServeInv, SocketOK, BusyOK
<1>4. BusyOK'
  BY <1>1, <1>2 DEF ServeInv, BusyOK
<1>. QED
  BY <1>1, <1>3, <1>4 DEF ServeInv, ThreadsOwn

LEMMA ServeParse ==
  ASSUME ServeInv, NEW t \in Threads, Parse(t), UNCHANGED serverVars
  PROVE  ServeInv'
<1>1. parser' = [u \in Threads |-> parser'[u]]
  BY DEF ServeInv, ThreadsOwn, Parse, CheckSection, NextSection, StartName,
         ReadLabel, ReadQuestion, ReadRecord
<1>2. \A u \in Threads \ {t} : parser'[u] = parser[u]
  BY DEF ServeInv, ThreadsOwn, Parse, CheckSection, NextSection, StartName,
         ReadLabel, ReadQuestion, ReadRecord
<1>3. ~At(t, "recv") /\ UNCHANGED query
  BY DEF Parse, CheckSection, NextSection, StartName, ReadLabel, ReadQuestion,
         ReadRecord, At
<1>. QED
  BY <1>1, <1>2, <1>3, ServeUnmoved DEF At

LEMMA ServeStays == ServeInv /\ [Next]_vars => ServeInv'
<1>. SUFFICES ASSUME ServeInv, [Next]_vars
              PROVE  ServeInv'
  OBVIOUS
<1>1. CASE UNCHANGED <<query, parser, serverVars>>
  BY <1>1, ServeUnmoved DEF At, ServeInv, ThreadsOwn
<1>2. CASE UNCHANGED vars
  BY <1>1, <1>2 DEF vars
<1>3. ASSUME NEW c \in Clients, NEW q \in DOMAIN Messages, Ask(c, q)
      PROVE  ServeInv'
  BY <1>3, ServeAsk
<1>4. ASSUME NEW t \in Threads, Drop(t)
      PROVE  ServeInv'
  <2>1. parser' = [parser EXCEPT ![t] = Idle] /\ UNCHANGED <<query, serverVars>>
    BY <1>4 DEF Drop
  <2>. QED
    BY <2>1, ServeUnmoved DEF At, Idle, Begin, ServeInv, ThreadsOwn
<1>5. ASSUME NEW t \in Threads, Serve(t)
      PROVE  ServeInv'
  BY <1>4, <1>5, ServeReceive, ServeRespond, ServeParse DEF Serve
<1>6. ASSUME NEW t \in Threads, Killed(t)
      PROVE  ServeInv'
  BY <1>1, <1>6 DEF Killed
<1>. QED
  BY <1>1, <1>2, <1>3, <1>5, <1>6 DEF Next

\* No two threads answer the same message and none answers another client
\* than the one whose message it took, whatever the number of threads on the
\* socket and however they take turns (thread_serve).
THEOREM EachAnswersItsOwn == Spec => []RepliesToAsker
<1>1. ServeInv => RepliesToAsker
  BY DEF ServeInv, BusyOK, Busy, RepliesToAsker
<1>. QED
  BY ServeStarts, ServeStays, <1>1, PTL DEF Spec

(***************************************************************************)
(* The parsers.  DnsParserProofs shows what a step of the parser keeps;    *)
(* here they are started, dropped and finished.                            *)
(***************************************************************************)
LEMMA IdleState == Idle \in States /\ Idle.pc = "recv" /\ Idle.labels <= Idle.room
<1>1. /\ Idle = [pc |-> "recv", section |-> 1, left |-> 0, loc |-> 12, start |-> 12,
                 labels |-> 0, text |-> <<>>, room |-> 10, first |-> NoQuestion]
  BY DEF Idle, Begin, HeaderSize
<1>2. <<>> \in Seq(Words) /\ 10 \in Rooms /\ NoQuestion \in Firsts
  BY EmptySeq, NoQuestionType DEF Rooms
<1>. QED
  BY <1>1, <1>2 DEF States

LEMMA BeginState == ASSUME NEW m PROVE Begin \in States /\ Progress(Begin, m)
<1>1. Begin = [pc |-> "check", section |-> 1, left |-> 0, loc |-> 12, start |-> 12,
               labels |-> 0, text |-> <<>>, room |-> 10, first |-> NoQuestion]
  BY DEF Begin, HeaderSize
<1>2. <<>> \in Seq(Words) /\ 10 \in Rooms /\ NoQuestion \in Firsts
  BY EmptySeq, NoQuestionType DEF Rooms
<1>3. Begin \in States
  BY <1>1, <1>2 DEF States
<1>4. Progress(Begin, m)
  BY <1>1 DEF Progress, Checking, HeaderSize
<1>. QED
  BY <1>3, <1>4

LEMMA MessagesDomain == DOMAIN Messages = DOMAIN Letters
BY DEF Messages

LEMMA ParserStarts == Init => ParserInv
<1>. SUFFICES ASSUME Init PROVE ParserInv
  OBVIOUS
<1>1. parser = [t \in Threads |-> Idle]
  BY DEF Init
<1>. QED
  BY <1>1, IdleState DEF ParserInv

\* A thread that waits again, whatever it waited for before.
LEMMA ParserIdle ==
  ASSUME ParserInv, NEW t \in Threads, parser' = [parser EXCEPT ![t] = Idle],
         UNCHANGED query
  PROVE  ParserInv'
<1>1. parser \in [Threads -> States]
  BY DEF ParserInv
<1>2. parser' \in [Threads -> States]
  BY <1>1, IdleState
<1>3. parser'[t] = Idle /\ \A u \in Threads \ {t} : parser'[u] = parser[u]
  BY <1>1
<1>4. ASSUME NEW u \in Threads
      PROVE  /\ parser'[u].pc # "recv" =>
                  query'[u] \in DOMAIN Letters /\ Progress(parser'[u], Letters[query'[u]])
             /\ parser'[u].labels <= parser'[u].room
  <2>1. CASE u = t
    BY <1>3, <2>1, IdleState
  <2>2. CASE u # t
    BY <1>3, <2>2 DEF ParserInv
  <2>. QED
    BY <2>1, <2>2
<1>. QED
  BY <1>2, <1>4 DEF ParserInv

LEMMA ParserReceives ==
  ASSUME ParserInv, ServeInv, NEW t \in Threads, Receive(t)
  PROVE  ParserInv'
<1>. DEFINE D == [from : Clients, query : DOMAIN Messages]
<1>1. PICK i \in Receivable(socket) :
        /\ query' = [query EXCEPT ![t] = socket[i].query]
        /\ parser' = [parser EXCEPT ![t] = Begin]
  BY DEF Receive
<1>2. socket[i].query \in DOMAIN Letters
  <2>1. socket \in Seq(D) /\ i \in DOMAIN socket
    BY DEF ServeInv, SocketOK, Receivable
  <2>2. socket[i] \in D
    BY <2>1, LenProperties, ElementOfSeq
  <2>. QED
    BY <2>2, MessagesDomain
<1>3. parser \in [Threads -> States] /\ query = [u \in Threads |-> query[u]]
  BY DEF ParserInv, ServeInv, ThreadsOwn
<1>4. parser' \in [Threads -> States]
  BY <1>1, <1>3, BeginState
<1>5. /\ parser'[t] = Begin /\ query'[t] = socket[i].query
      /\ \A u \in Threads \ {t} : parser'[u] = parser[u] /\ query'[u] = query[u]
  BY <1>1, <1>3
<1>6. ASSUME NEW u \in Threads
      PROVE  /\ parser'[u].pc # "recv" =>
                  query'[u] \in DOMAIN Letters /\ Progress(parser'[u], Letters[query'[u]])
             /\ parser'[u].labels <= parser'[u].room
  <2>1. CASE u = t
    <3>1. Progress(Begin, Letters[query'[t]])
      BY BeginState
    <3>2. Begin.labels <= Begin.room
      BY <3>1 DEF Progress
    <3>. QED
      BY <1>2, <1>5, <2>1, <3>1, <3>2
  <2>2. CASE u # t
    BY <1>5, <2>2 DEF ParserInv
  <2>. QED
    BY <2>1, <2>2
<1>. QED
  BY <1>4, <1>6 DEF ParserInv

LEMMA ParserStays == ParserInv /\ ServeInv /\ [Next]_vars => ParserInv'
<1>. SUFFICES ASSUME ParserInv, ServeInv, [Next]_vars
              PROVE  ParserInv'
  OBVIOUS
<1>1. CASE UNCHANGED <<query, parser>>
  BY <1>1 DEF ParserInv
<1>2. ASSUME NEW t \in Threads, Serve(t)
      PROVE  ParserInv'
  <2>1. CASE Receive(t)
    BY <2>1, ParserReceives
  <2>2. CASE Parse(t)
    BY <2>2, ParseStays
  <2>3. CASE Drop(t) \/ Respond(t)
    BY <2>3, ParserIdle DEF Drop, Respond
  <2>. QED
    BY <1>2, <2>1, <2>2, <2>3 DEF Serve
<1>3. CASE UNCHANGED vars
  BY <1>1, <1>3 DEF vars
<1>4. CASE Next
  BY <1>1, <1>2, <1>4 DEF Next, Ask, Killed
<1>. QED
  BY <1>3, <1>4

\* The two invariants together, of every state.
LEMMA ParserAlways == Spec => [](ServeInv /\ ParserInv)
<1>1. Init => ServeInv /\ ParserInv
  BY ServeStarts, ParserStarts
<1>2. ServeInv /\ ParserInv /\ [Next]_vars => ServeInv' /\ ParserInv'
  BY ServeStays, ParserStays
<1>. QED
  BY <1>1, <1>2, PTL DEF Spec

\* Although client_message is never cleared and its full length is given to
\* the parser, no thread ever takes a byte for the start of a label that the
\* sender of this message did not write as one, nor, if no name is compressed,
\* for the start of a record (parse_dns_message).
THEOREM ReadsWritten == Spec => []ReadsOnlyWritten
BY ParserAlways, ParserReads, PTL

\* The array of labels, which is doubled in 8 bits, has room for every label
\* that a name of the DNS may have (extract_labels).
THEOREM RoomKept == Spec => []RoomForLabels
<1>1. ParserInv => RoomForLabels
  BY DEF ParserInv, RoomForLabels
<1>. QED
  BY <1>1, ParserAlways, PTL

\* A message without compressed names passes the three checks of its sections,
\* and no step of the parser leaves the buffer (parse_dns_message).
THEOREM WholeParsed == Spec => []WholeIsParsed
BY ParserAlways, ParserWhole, PTL

\* The longest name fits in domain_name, and the answer to it in
\* server_message (set_answer, stringify_dns_message), if there is a question.
THEOREM AnswersFit == Spec => []BuffersFit
<1>1. ASSUME ParserInv, NEW t \in Threads, At(t, "parsed"), Input(t).counts[1] # 0
      PROVE  JoinedSize(t) <= NameRoom /\ ResponseSize(t) <= BufferSize
  <2>. DEFINE m == Letters[query[t]] z == First(t).size
  <2>1. IsLetter(m) /\ First(t) = FirstOf(m)
    BY <1>1, Inside DEF At, Progress, First
  <2>2. z \in Nat /\ z <= 259
    <3>1. Len(m.questions) # 0
      <4>1. Input(t).counts[1] = m.counts[1]
        BY <1>1, Inside DEF At, Input, Messages, Message
      <4>. QED
        BY <1>1, <2>1, <4>1 DEF IsLetter
    <3>2. 1 \in 1..Len(m.questions)
      BY <2>1, <3>1, LetterFields
    <3>3. z = QuestionSize(m.questions[1])
      BY <2>1, <3>1 DEF FirstOf
    <3>. QED
      BY <2>1, <3>2, <3>3, LetterFields, QuestionSizeType, Counts
  <2>3. JoinedSize(t) = z - 5 /\ ResponseSize(t) = 12 + z + (IF Rcode(t) = 0 THEN 16 ELSE 0)
    BY DEF JoinedSize, ResponseSize, HeaderSize
  <2>. HIDE DEF z
  <2>. QED
    BY <2>2, <2>3 DEF NameRoom, BufferSize
<1>2. ParserInv => BuffersFit
  BY <1>1 DEF BuffersFit
<1>. QED
  BY <1>2, ParserAlways, PTL

(***************************************************************************)
(* The flags of a response, and the types.                                 *)
(***************************************************************************)
LEMMA Powers ==
  /\ 2^15 = 32768 /\ 2^11 = 2048 /\ 2^10 = 1024 /\ 2^9 = 512 /\ 2^8 = 256
  /\ 2^7 = 128 /\ 2^4 = 16
OBVIOUS

\* The bit fields of the high byte that a reply copies.
LEMMA FieldsOfHigh ==
  ASSUME NEW w \in Nat
  PROVE  /\ BitField(w \div 256, 3, 4) = ((w \div 256) \div 8) % 16
         /\ BitField(w \div 256, 0, 1) = (w \div 256) % 2
<1>1. 2^3 = 8 /\ 2^4 = 16 /\ 2^0 = 1 /\ 2^1 = 2
  OBVIOUS
<1>2. w \div 256 \in Nat
  OBVIOUS
<1>3. (w \div 256) \div 1 = w \div 256
  BY <1>2
<1>. QED
  BY <1>1, <1>3 DEF BitField

\* The opcode in the high byte of the flags is bits 11 to 14 of both bytes.
LEMMA OpcodeBits ==
  ASSUME NEW w \in Nat
  PROVE  /\ ((w \div 256) \div 8) % 16 = (w \div 2048) % 16
         /\ (w \div 2048) % 16 \in 0..15
         /\ (w \div 256) % 2 \in 0..1
<1>1. (w \div 256) \div 8 = w \div 2048
  OBVIOUS
<1>2. \A x \in Nat : x % 16 \in 0..15 /\ x % 2 \in 0..1
  OBVIOUS
<1>3. w \div 2048 \in Nat /\ w \div 256 \in Nat
  OBVIOUS
<1>. QED
  BY <1>1, <1>2, <1>3

LEMMA RcodeIs == ASSUME NEW t PROVE Rcode(t) \in {0, 1, 3, 4}
BY DEF Rcode

LEMMA ReplyWord ==
  ASSUME NEW t, Input(t).word \in Bits16
  PROVE  LET w == Input(t).word
         IN  /\ Word(ReplyFlags(t)) = 32768 + 2048 * ((w \div 2048) % 16) + 1024
                                       + 256 * ((w \div 256) % 2) + Rcode(t)
             /\ Word(ReplyFlags(t)) \in Bits16
<1>. DEFINE w == Input(t).word f == ReplyFlags(t)
            o == (w \div 2048) % 16 d == (w \div 256) % 2 r == Rcode(t)
<1>1. w \in Nat
  BY Bits16Facts
<1>2. /\ f.qr = 1 /\ f.opcode = ((w \div 256) \div 8) % 16 /\ f.aa = 1 /\ f.tc = 0
      /\ f.rd = (w \div 256) % 2 /\ f.ra = 0 /\ f.z = 0 /\ f.rcode = r
  <2>1. /\ f.qr = 1 /\ f.opcode = BitField(w \div 256, 3, 4) /\ f.aa = 1 /\ f.tc = 0
        /\ f.rd = BitField(w \div 256, 0, 1) /\ f.ra = 0 /\ f.z = 0 /\ f.rcode = r
    BY DEF ReplyFlags, Flags
  <2>. QED
    BY <1>1, <2>1, FieldsOfHigh
<1>. HIDE DEF w, f
<1>3. f.opcode = o /\ f.rd = d /\ o \in 0..15 /\ d \in 0..1
  BY <1>1, <1>2, OpcodeBits
<1>4. r \in {0, 1, 3, 4}
  BY RcodeIs
<1>. HIDE DEF o, d, r
<1>5. Word(f) = 1 * 32768 + o * 2048 + 1 * 1024 + 0 * 512 + d * 256 + 0 * 128 + 0 * 16 + r
  BY <1>2, <1>3, Powers DEF Word
<1>6. Word(f) = 32768 + 2048 * o + 1024 + 256 * d + r
  BY <1>3, <1>4, <1>5
<1>7. Word(f) \in Nat /\ Word(f) <= 65535
  BY <1>3, <1>4, <1>6
<1>8. Word(f) \in Bits16
  BY <1>7, Bits16Facts
<1>. QED
  BY <1>6, <1>8 DEF w, f, o, d, r

\* The word of a message is that of its letter.
LEMMA InputWord ==
  ASSUME NEW t \in Threads, query[t] \in DOMAIN Letters
  PROVE  Input(t).word \in Bits16
<1>1. IsLetter(Letters[query[t]])
  BY DnsParserAssumption
<1>2. Input(t).word = Letters[query[t]].word
  BY DEF Input, Messages, Message
<1>. QED
  BY <1>1, <1>2 DEF IsLetter

LEMMA TypeStarts == Init => TypeOK
<1>. SUFFICES ASSUME Init PROVE TypeOK
  OBVIOUS
<1>1. main = "load" /\ file \in Files /\ lineNo = 0 /\ size = FirstSize
  BY DEF Init, TableInit
<1>2. lineNo \in 0..Len(file) /\ size \in Nat
  <2>1. file \in Seq(Lines)
    BY <1>1, DnsTableAssumption
  <2>2. Len(file) \in Nat
    BY <2>1, LenProperties
  <2>. QED
    BY <1>1, <2>2, DnsTableAssumption
<1>3. socket \in Seq([from : Clients, query : DOMAIN Messages])
  BY EmptySeq DEF Init
<1>4. \A t \in Threads : parser[t].pc = "recv" /\ parser[t].room = 10
  BY DEF Init, Idle, Begin
<1>. QED
  BY <1>1, <1>2, <1>3, <1>4 DEF Init, TypeOK

TypeTable == main \in {"load", "serve", "dead"} /\ file \in Files
               /\ lineNo \in 0..Len(file) /\ size \in Nat

LEMMA TypeTableStays ==
  ASSUME TypeTable, TableInv, [Next]_vars
  PROVE  TypeTable'
<1>. USE DEF TypeTable
<1>1. Len(file) \in Nat
  <2>1. file \in Seq(Lines)
    BY DnsTableAssumption
  <2>. QED
    BY <2>1, LenProperties
<1>2. Len(table) \in Nat
  BY LenProperties DEF TableInv, IsRow
<1>3. CASE SkipBlank \/ LoadLine
  <2>1. main' = main /\ file' = file /\ lineNo < Len(file) /\ lineNo' = lineNo + 1
    BY <1>3 DEF SkipBlank, LoadLine
  <2>2. size' = size \/ size' = SizeFor(Len(table))
    BY <1>3 DEF SkipBlank, LoadLine
  <2>3. size' \in Nat
    BY <1>2, <2>2 DEF SizeFor
  <2>4. lineNo' \in 0..Len(file)
    BY <1>1, <2>1
  <2>. QED
    BY <2>1, <2>3, <2>4
<1>4. CASE Loaded
  BY <1>2, <1>4 DEF Loaded
<1>5. CASE main' \in {"load", "serve", "dead"} /\ UNCHANGED <<file, lineNo, size>>
  BY <1>5
<1>6. CASE LoadNoName
  BY <1>5, <1>6 DEF LoadNoName
<1>7. CASE UNCHANGED vars
  BY <1>5, <1>7 DEF vars, tableVars
<1>8. ASSUME NEW c \in Clients, NEW q \in DOMAIN Messages, Ask(c, q)
      PROVE  TypeTable'
  BY <1>5, <1>8 DEF Ask, tableVars
<1>9. ASSUME NEW t \in Threads, Serve(t) \/ Killed(t)
      PROVE  TypeTable'
  BY <1>5, <1>9 DEF Serve, Receive, Drop, Respond, Killed, tableVars
<1>. QED
  BY <1>3, <1>4, <1>6, <1>7, <1>8, <1>9 DEF Next, Load

TypeThreads ==
  /\ query \in [Threads -> DOMAIN Messages \cup {NoQuery}]
  /\ client \in [Threads -> Clients \cup {NoClient}]
  /\ waiting \subseteq Clients \X DOMAIN Messages
  /\ \A r \in replies : r[1] \in Clients /\ r[2].word \in Bits16

\* The client that a thread is busy with is one.
LEMMA BusyTypes ==
  ASSUME ServeInv, TypeThreads, NEW t \in Threads, ~At(t, "recv")
  PROVE  client[t] \in Clients /\ query[t] \in DOMAIN Messages
           /\ <<client[t], query[t]>> \in waiting
BY DEF ServeInv, BusyOK, Busy, TypeThreads

LEMMA TypeThreadsStays ==
  ASSUME TypeThreads, ServeInv, ParserInv, [Next]_vars
  PROVE  TypeThreads'
<1>1. CASE UNCHANGED <<query, client, waiting, replies>>
  BY <1>1 DEF TypeThreads
<1>2. ASSUME NEW c \in Clients, NEW q \in DOMAIN Messages, Ask(c, q)
      PROVE  TypeThreads'
  BY <1>2 DEF Ask, TypeThreads
<1>3. ASSUME NEW t \in Threads, Receive(t)
      PROVE  TypeThreads'
  <2>. DEFINE D == [from : Clients, query : DOMAIN Messages]
  <2>1. PICK i \in Receivable(socket) :
          /\ query' = [query EXCEPT ![t] = socket[i].query]
          /\ client' = [client EXCEPT ![t] = socket[i].from]
          /\ UNCHANGED <<waiting, replies>>
    BY <1>3 DEF Receive, OwnAddress
  <2>2. socket \in Seq(D) /\ i \in DOMAIN socket
    BY DEF ServeInv, SocketOK, Receivable
  <2>3. socket[i] \in D
    BY <2>2, LenProperties, ElementOfSeq
  <2>4. socket[i].query \in DOMAIN Messages /\ socket[i].from \in Clients
    BY <2>3
  <2>. QED
    BY <2>1, <2>4 DEF TypeThreads
<1>4. ASSUME NEW t \in Threads, Respond(t)
      PROVE  TypeThreads'
  <2>1. /\ replies' = replies \cup {<<client[t], Response(t)>>}
        /\ waiting' = waiting \ {<<client[t], query[t]>>}
        /\ UNCHANGED <<query, client>>
        /\ ~At(t, "recv")
    BY <1>4 DEF Respond, At
  <2>2. client[t] \in Clients /\ query[t] \in DOMAIN Messages
    BY <2>1, BusyTypes
  <2>3. Response(t).word \in Bits16
    <3>1. Input(t).word \in Bits16
      BY <2>2, MessagesDomain, InputWord
    <3>. QED
      BY <3>1, ReplyWord DEF Response
  <2>4. \A r \in replies' : r[1] \in Clients /\ r[2].word \in Bits16
    BY <2>1, <2>2, <2>3 DEF TypeThreads
  <2>. QED
    BY <2>1, <2>4 DEF TypeThreads
<1>5. ASSUME NEW t \in Threads, Serve(t) \/ Killed(t)
      PROVE  TypeThreads'
  <2>1. CASE Parse(t) /\ UNCHANGED serverVars
    <3>1. UNCHANGED query
      BY <2>1 DEF Parse, CheckSection, NextSection, StartName, ReadLabel,
                  ReadQuestion, ReadRecord
    <3>. QED
      BY <1>1, <2>1, <3>1 DEF serverVars
  <2>2. CASE Drop(t) \/ Killed(t)
    BY <1>1, <2>2 DEF Drop, Killed, serverVars
  <2>. QED
    BY <1>3, <1>4, <1>5, <2>1, <2>2 DEF Serve
<1>6. CASE UNCHANGED vars
  BY <1>1, <1>6 DEF vars, serverVars
<1>7. CASE Load /\ UNCHANGED <<query, parser, serverVars>>
  BY <1>1, <1>7 DEF serverVars
<1>. QED
  BY <1>2, <1>5, <1>6, <1>7 DEF Next

LEMMA TypeParts ==
  ServeInv /\ ParserInv => (TypeOK <=> TypeTable /\ TypeThreads)
<1>. SUFFICES ASSUME ServeInv, ParserInv PROVE TypeOK <=> TypeTable /\ TypeThreads
  OBVIOUS
<1>1. \A t \in Threads :
        /\ parser[t].pc \in {"recv", "check", "item", "label", "parsed", "dropped"}
        /\ parser[t].room \in 0..255
  <2>1. \A t \in Threads : parser[t] \in States
    BY DEF ParserInv
  <2>2. \A x \in Rooms : x \in 0..255
    BY DEF Rooms
  <2>3. ASSUME NEW p \in States
        PROVE  /\ p.pc \in {"recv", "check", "item", "label", "parsed", "dropped"}
               /\ p.room \in Rooms
    BY StateFields
  <2>. QED
    BY <2>1, <2>2, <2>3
<1>2. socket \in Seq([from : Clients, query : DOMAIN Messages])
  BY DEF ServeInv, SocketOK
<1>. QED
  BY <1>1, <1>2 DEF TypeOK, TypeTable, TypeThreads

\* Every variable keeps its type: with any number of threads, of clients and
\* of lines, and the second word of every reply in its 16 bits.
THEOREM TypeCorrect == Spec => []TypeOK
<1>. DEFINE Inv == TypeTable /\ TypeThreads /\ TableInv /\ ServeInv /\ ParserInv
<1>1. Init => Inv
  BY TypeStarts, TypeParts, TableStarts, ServeStarts, ParserStarts
<1>2. Inv /\ [Next]_vars => Inv'
  BY TableStays, ServeStays, ParserStays, TypeTableStays, TypeThreadsStays
<1>3. Inv => TypeOK
  BY TypeParts
<1>. QED
  BY <1>1, <1>2, <1>3, PTL DEF Spec

(***************************************************************************)
(* The table and the file.                                                 *)
(*                                                                         *)
(* For every name that anybody may ask for, the first record in the table  *)
(* is the one of the first line with that name, as far as the file has     *)
(* been read: of lines that end as they should.                            *)
(***************************************************************************)
LinesOf(x) ==
  {i \in 1..lineNo : file[i] # Blank /\ file[i].after = "newline" /\ file[i].name = x}
RowsOf(x) == {k \in 1..Len(table) : table[k].name = x}

FirstIs(x) ==
  /\ RowsOf(x) = {} <=> LinesOf(x) = {}
  /\ RowsOf(x) # {} => table[Min(RowsOf(x))].ip = file[Min(LinesOf(x))].ip

TableMatches ==
  /\ \A x \in Seq(Words) : FirstIs(x)
  /\ main = "serve" => lineNo = Len(file)

\* Nobody asks for a name that lost its last character.
LEMMA CutNever ==
  ASSUME NEW name \in Seq(STRING)
  PROVE  Cut(name) \notin Seq(Words)
<1>1. /\ Len(name) \in Nat
      /\ Len(Append(name, "cut")) = Len(name) + 1
      /\ Append(name, "cut")[Len(name) + 1] = "cut"
  BY AppendProperties, LenProperties
<1>2. ASSUME Append(name, "cut") \in Seq(Words) PROVE FALSE
  <2>1. Append(name, "cut")[Len(name) + 1] \in Words
    BY <1>1, <1>2, ElementOfSeq
  <2>. QED
    BY <1>1, <2>1 DEF Words
<1>. QED
  BY <1>2 DEF Cut

LEMMA DomainIs ==
  ASSUME NEW l \in Lines, NEW x \in Seq(Words)
  PROVE  Domain(l) = x <=> l.after = "newline" /\ l.name = x
<1>1. l.name \in Seq(STRING)
  BY DEF Lines
<1>2. Cut(l.name) # x
  BY <1>1, CutNever
<1>. QED
  BY <1>2 DEF Domain

LEMMA MatchesStarts == Init => TableMatches
<1>. SUFFICES ASSUME Init PROVE TableMatches
  OBVIOUS
<1>1. lineNo = 0 /\ table = <<>> /\ main = "load"
  BY DEF Init, TableInit
<1>2. \A x : RowsOf(x) = {} /\ LinesOf(x) = {}
  BY <1>1 DEF RowsOf, LinesOf
<1>. QED
  BY <1>1, <1>2 DEF TableMatches, FirstIs

LEMMA MatchesLoad ==
  ASSUME TableMatches, TypeTable, TableInv, LoadLine
  PROVE  TableMatches'
<1>. DEFINE n == lineNo + 1 l == file[n] e == [name |-> Domain(l), ip |-> l.ip]
            k == Len(table) + 1
<1>1. /\ table' = Append(table, e) /\ lineNo' = n /\ file' = file
      /\ main = "load" /\ main' = main /\ l # Blank /\ lineNo < Len(file)
  BY DEF LoadLine, NextLine
<1>2. file \in Seq(Lines) /\ Len(file) \in Nat /\ lineNo \in Nat
  <2>1. file \in Seq(Lines)
    BY DnsTableAssumption DEF TypeTable
  <2>. QED
    BY <2>1, LenProperties DEF TypeTable
<1>3. l \in Lines
  <2>1. n \in 1..Len(file)
    BY <1>1, <1>2
  <2>. QED
    BY <1>2, <2>1, ElementOfSeq
<1>4. /\ Len(table) \in Nat /\ Len(table') = k
      /\ \A j \in 1..Len(table) : table'[j] = table[j]
      /\ table'[k] = e
  <2>1. PICK S : table \in Seq(S)
    BY DEF TableInv, IsRow
  <2>2. Len(table) \in Nat /\ table \in [1..Len(table) -> S]
    BY <2>1, LenProperties
  <2>3. table \in [1..Len(table) -> S \cup {e}]
    BY <2>2
  <2>4. table \in Seq(S \cup {e})
    BY <2>2, <2>3, SeqDef
  <2>. HIDE DEF e
  <2>. QED
    BY <1>1, <2>2, <2>4, AppendProperties
<1>5. e.name = Domain(l) /\ e.ip = l.ip
  OBVIOUS
<1>6. 1..n = 1..lineNo \cup {n} /\ 1..k = 1..Len(table) \cup {k}
  BY <1>2, <1>4
<1>. HIDE DEF n, l, e, k
<1>7. ASSUME NEW x \in Seq(Words), Domain(l) # x PROVE FirstIs(x)'
  <2>1. ~(l.after = "newline" /\ l.name = x)
    BY <1>3, <1>7, DomainIs
  <2>2. LinesOf(x)' = LinesOf(x)
    BY <1>1, <1>6, <2>1 DEF LinesOf, l
  <2>3. RowsOf(x)' = RowsOf(x)
    BY <1>4, <1>5, <1>6, <1>7 DEF RowsOf
  <2>4. RowsOf(x) # {} => Min(RowsOf(x)) \in 1..Len(table)
    <3>1. RowsOf(x) \subseteq Nat /\ RowsOf(x) \subseteq 1..Len(table)
      BY DEF RowsOf
    <3>. QED
      BY <3>1, MinOfNat
  <2>. QED
    BY <1>1, <1>4, <2>2, <2>3, <2>4 DEF TableMatches, FirstIs
<1>8. ASSUME NEW x \in Seq(Words), Domain(l) = x PROVE FirstIs(x)'
  <2>1. l.after = "newline" /\ l.name = x
    BY <1>3, <1>8, DomainIs
  <2>2. LinesOf(x)' = LinesOf(x) \cup {n}
    BY <1>1, <1>6, <2>1 DEF LinesOf, l
  <2>3. RowsOf(x)' = RowsOf(x) \cup {k}
    BY <1>4, <1>5, <1>6, <1>8 DEF RowsOf
  <2>4. /\ LinesOf(x) \subseteq Nat /\ \A i \in LinesOf(x) : i <= n
        /\ RowsOf(x) \subseteq 1..Len(table)
        /\ RowsOf(x) \subseteq Nat /\ \A i \in RowsOf(x) : i <= k
        /\ n \in Nat /\ k \in Nat
    BY <1>2, <1>4 DEF LinesOf, RowsOf, n, k
  <2>5. FirstIs(x)
    BY DEF TableMatches
  <2>6. CASE RowsOf(x) = {}
    <3>1. LinesOf(x)' = {n} /\ RowsOf(x)' = {k}
      BY <2>2, <2>3, <2>5, <2>6 DEF FirstIs
    <3>2. Min({n}) = n /\ Min({k}) = k
      BY <2>4, MinOfOne
    <3>3. table'[k].ip = file[n].ip
      BY <1>4, <1>5 DEF l
    <3>. QED
      BY <1>1, <3>1, <3>2, <3>3 DEF FirstIs
  <2>7. CASE RowsOf(x) # {}
    <3>1. LinesOf(x) # {} /\ table[Min(RowsOf(x))].ip = file[Min(LinesOf(x))].ip
      BY <2>5, <2>7 DEF FirstIs
    <3>2. Min(LinesOf(x)') = Min(LinesOf(x)) /\ Min(RowsOf(x)') = Min(RowsOf(x))
      BY <2>2, <2>3, <2>4, <2>7, <3>1, MinOfMore
    <3>3. Min(RowsOf(x)) \in 1..Len(table)
      BY <2>4, <2>7, MinOfNat
    <3>4. table'[Min(RowsOf(x))] = table[Min(RowsOf(x))]
      BY <1>4, <3>3
    <3>5. LinesOf(x)' # {} /\ RowsOf(x)' # {}
      BY <2>2, <2>3
    <3>. QED
      BY <1>1, <3>1, <3>2, <3>4, <3>5 DEF FirstIs
  <2>. QED
    BY <2>6, <2>7
<1>. QED
  BY <1>1, <1>7, <1>8 DEF TableMatches

LEMMA MatchesSame ==
  ASSUME TableMatches, UNCHANGED <<file, lineNo, table>>,
         main' = "serve" => lineNo = Len(file)
  PROVE  TableMatches'
<1>1. ASSUME NEW x \in Seq(Words) PROVE FirstIs(x)'
  <2>1. LinesOf(x)' = LinesOf(x)
    BY DEF LinesOf
  <2>2. RowsOf(x)' = RowsOf(x)
    BY DEF RowsOf
  <2>. QED
    BY <2>1, <2>2 DEF TableMatches, FirstIs
<1>. QED
  BY <1>1 DEF TableMatches

LEMMA MatchesStays ==
  TableMatches /\ TypeTable /\ TableInv /\ [Next]_vars => TableMatches'
<1>. SUFFICES ASSUME TableMatches, TypeTable, TableInv, [Next]_vars
              PROVE  TableMatches'
  OBVIOUS
<1>1. CASE UNCHANGED <<file, lineNo, table>> /\ main' # "serve"
  BY <1>1, MatchesSame
<1>2. CASE UNCHANGED <<main, file, lineNo, table>>
  BY <1>2, MatchesSame DEF TableMatches
<1>3. CASE SkipBlank
  <2>1. /\ lineNo' = lineNo + 1 /\ file[lineNo + 1] = Blank
        /\ UNCHANGED <<main, file, table>> /\ main = "load"
    BY <1>3 DEF SkipBlank, NextLine
  <2>2. lineNo \in Nat
    <3>1. file \in Seq(Lines)
      BY DnsTableAssumption DEF TypeTable
    <3>. QED
      BY <3>1, LenProperties DEF TypeTable
  <2>3. 1..(lineNo + 1) = 1..lineNo \cup {lineNo + 1}
    BY <2>2
  <2>4. ASSUME NEW x \in Seq(Words) PROVE FirstIs(x)'
    <3>1. LinesOf(x)' = LinesOf(x)
      BY <2>1, <2>3 DEF LinesOf
    <3>2. RowsOf(x)' = RowsOf(x)
      BY <2>1 DEF RowsOf
    <3>. QED
      BY <2>1, <3>1, <3>2 DEF TableMatches, FirstIs
  <2>. QED
    BY <2>1, <2>4 DEF TableMatches
<1>4. CASE Loaded
  <2>1. lineNo = Len(file) /\ UNCHANGED <<file, lineNo, table>>
    BY <1>4 DEF Loaded
  <2>. QED
    BY <2>1, MatchesSame
<1>5. CASE LoadNoName
  BY <1>1, <1>5 DEF LoadNoName
<1>6. CASE UNCHANGED vars
  BY <1>2, <1>6 DEF vars, tableVars
<1>7. ASSUME NEW c \in Clients, NEW q \in DOMAIN Messages, Ask(c, q)
      PROVE  TableMatches'
  BY <1>2, <1>7 DEF Ask, tableVars
<1>8. ASSUME NEW t \in Threads, Serve(t)
      PROVE  TableMatches'
  BY <1>2, <1>8 DEF Serve, Receive, Drop, Respond, tableVars
<1>9. ASSUME NEW t \in Threads, Killed(t)
      PROVE  TableMatches'
  BY <1>1, <1>9 DEF Killed
<1>. QED
  BY <1>3, <1>4, <1>5, <1>6, <1>7, <1>8, <1>9, MatchesLoad DEF Next, Load

(***************************************************************************)
(* The server is a name server for its file: DnsService, whose records are *)
(* the entries of the file.  Receiving, parsing and loading are steps that *)
(* it does not see.                                                        *)
(***************************************************************************)
LEMMA ServiceMin == \A S : Service!Min(S) = Min(S)
BY DEF Service!Min, Min

LEMMA ServiceLookup ==
  ASSUME TableMatches, TypeTable, TableInv, main = "serve", NEW x \in Seq(Words)
  PROVE  /\ Lookup(x) = 0 <=> Service!RecordsOf(x) = {}
         /\ Lookup(x) # 0 =>
              table[Lookup(x)].ip = Entries(file)[Min(Service!RecordsOf(x))].ip
<1>1. /\ DOMAIN file = 1..Len(file) /\ lineNo = Len(file)
  <2>1. file \in Seq(Lines)
    BY DnsTableAssumption DEF TypeTable
  <2>. QED
    BY <2>1, LenProperties DEF TableMatches
<1>2. Service!RecordsOf(x) = LinesOf(x)
  BY <1>1 DEF Service!RecordsOf, Entries, LinesOf
<1>3. Lookup(x) = IF RowsOf(x) # {} THEN Min(RowsOf(x)) ELSE 0
  BY DEF Lookup, SelectInSeq, RowsOf
<1>4. FirstIs(x)
  BY DEF TableMatches
<1>5. RowsOf(x) # {} => Min(RowsOf(x)) # 0
  <2>1. RowsOf(x) \subseteq Nat /\ 0 \notin RowsOf(x)
    BY DEF RowsOf
  <2>. QED
    BY <2>1, MinOfNat
<1>6. \A i \in LinesOf(x) : Entries(file)[i].ip = file[i].ip
  BY <1>1 DEF Entries, LinesOf
<1>7. LinesOf(x) # {} => Min(LinesOf(x)) \in LinesOf(x)
  <2>1. LinesOf(x) \subseteq Nat
    BY DEF LinesOf
  <2>. QED
    BY <2>1, MinOfNat
<1>8. Lookup(x) = 0 <=> RowsOf(x) = {}
  BY <1>3, <1>5
<1>9. ASSUME RowsOf(x) # {}
      PROVE  table[Lookup(x)].ip = Entries(file)[Min(LinesOf(x))].ip
  BY <1>3, <1>4, <1>6, <1>7, <1>9 DEF FirstIs
<1>. QED
  BY <1>2, <1>4, <1>8, <1>9 DEF FirstIs

\* The questions of a message are those of its letter.
LEMMA MessageQuestions ==
  ASSUME NEW m, IsLetter(m)
  PROVE  /\ Len(Message(m).questions) = Len(m.questions)
         /\ Message(m).questions = <<>> <=> Len(m.questions) = 0
         /\ Len(m.questions) # 0 =>
              /\ Message(m).questions[1] = [text |-> FirstOf(m).text, type |-> FirstOf(m).type,
                                            class |-> FirstOf(m).class]
              /\ FirstOf(m).text \in Seq(Words)
         /\ Message(m).id = m.id /\ Message(m).word = m.word
<1>. DEFINE n == Len(m.questions) f == [k \in DOMAIN m.questions |-> Asked(m.questions[k])]
            A == {Asked(m.questions[k]) : k \in 1..n}
<1>1. n \in Nat /\ DOMAIN m.questions = 1..n
  BY LetterFields
<1>2. f \in [1..n -> A]
  BY <1>1
<1>3. f \in Seq(A) /\ DOMAIN f = 1..n
  BY <1>1, <1>2, SeqDef
<1>4. Len(f) = n
  <2>. HIDE DEF f, A, n
  <2>. QED
    BY <1>1, <1>3, LenProperties
<1>5. f = <<>> <=> n = 0
  <2>. HIDE DEF f, n
  <2>. QED
    BY <1>3, <1>4, EmptySeq
<1>6. Message(m).questions = f /\ Message(m).id = m.id /\ Message(m).word = m.word
  BY DEF Message
<1>7. ASSUME n # 0
      PROVE  /\ f[1] = [text |-> FirstOf(m).text, type |-> FirstOf(m).type,
                        class |-> FirstOf(m).class]
             /\ FirstOf(m).text \in Seq(Words)
  <2>1. f[1] = Asked(m.questions[1])
    BY <1>1, <1>7
  <2>2. /\ FirstOf(m).text = Text(m.questions[1].labels)
        /\ FirstOf(m).type = m.questions[1].type /\ FirstOf(m).class = m.questions[1].class
    BY <1>7 DEF FirstOf
  <2>3. FirstOf(m).text \in Seq(Words)
    BY FirstOfType DEF Firsts
  <2>. QED
    BY <2>1, <2>2, <2>3 DEF Asked
<1>. HIDE DEF f
<1>. QED
  BY <1>4, <1>5, <1>6, <1>7

LEMMA ServiceReply ==
  ASSUME TableMatches, TypeTable, TableInv, ParserInv, main = "serve",
         NEW t \in Threads, At(t, "parsed")
  PROVE  Response(t) = Service!ReplyTo(Messages[query[t]])
<1>. DEFINE m == Letters[query[t]] M == Messages[query[t]] F == First(t) w == M.word
<1>1. query[t] \in DOMAIN Letters /\ IsLetter(m) /\ F = FirstOf(m)
  BY Inside DEF At, Progress, First
<1>2. M = Message(m) /\ Input(t) = M
  BY <1>1 DEF Messages, Input
<1>3. Input(t).counts[1] = Len(m.questions) /\ w \in Bits16 /\ Input(t).word = w
  BY <1>1, <1>2, InputIs, InputWord, Counts
<1>4. /\ Len(M.questions) = Len(m.questions)
      /\ M.questions = <<>> <=> Len(m.questions) = 0
      /\ Len(m.questions) # 0 =>
           /\ M.questions[1] = [text |-> F.text, type |-> F.type, class |-> F.class]
           /\ F.text \in Seq(Words)
      /\ Input(t).id = M.id
  BY <1>1, <1>2, MessageQuestions
<1>5. w \in Nat /\ Flags(w).opcode = Service!Opcode(M)
  <2>1. w \in Nat
    BY <1>3, Bits16Facts
  <2>2. Flags(w).opcode = ((w \div 256) \div 8) % 16
    BY <2>1, FieldsOfHigh DEF Flags
  <2>. HIDE DEF M
  <2>. QED
    BY <2>1, <2>2, OpcodeBits DEF Service!Opcode
<1>. HIDE DEF m, M, F
<1>6. Len(m.questions) # 0 =>
        (M.questions[1].type = F.type /\ M.questions[1].class = F.class
          /\ M.questions[1].text = F.text)
  BY <1>4
<1>7. Len(m.questions) # 0 =>
        /\ Lookup(F.text) = 0 <=> Service!RecordsOf(F.text) = {}
        /\ Lookup(F.text) # 0 =>
             table[Lookup(F.text)].ip = Entries(file)[Min(Service!RecordsOf(F.text))].ip
  BY <1>4, ServiceLookup
<1>20. Rcode(t) = IF Len(m.questions) # 1 THEN 1
                  ELSE IF F.type # 1 \/ F.class # 1 \/ Flags(w).opcode = 1 THEN 4
                  ELSE IF Lookup(F.text) = 0 THEN 3 ELSE 0
  BY <1>3 DEF Rcode, F
<1>8. Rcode(t) = Service!Code(M)
  <2>2. CASE Len(m.questions) # 1
    BY <1>4, <1>20, <2>2 DEF Service!Code
  <2>3. CASE Len(m.questions) = 1
    <3>1. Service!Asks(M) <=> ~(F.type # 1 \/ F.class # 1 \/ Flags(w).opcode = 1)
      BY <1>5, <1>6, <2>3 DEF Service!Asks
    <3>2. Service!Code(M) = IF Service!Asks(M)
                              THEN IF Service!RecordsOf(F.text) = {} THEN 3 ELSE 0
                              ELSE 4
      BY <1>4, <1>6, <2>3 DEF Service!Code
    <3>. QED
      BY <1>7, <1>20, <2>3, <3>1, <3>2
  <2>. QED
    BY <2>2, <2>3
<1>9. Response(t).answer = Service!Answer(M)
  <2>1. Response(t).answer = IF Rcode(t) = 0 THEN table[Lookup(F.text)].ip ELSE NoAnswer
    BY DEF Response, F
  <2>2. ASSUME Rcode(t) = 0
        PROVE  Len(m.questions) # 0 /\ Lookup(F.text) # 0
    <3>1. Len(m.questions) # 1 => Rcode(t) = 1
      BY <1>20
    <3>2. Len(m.questions) = 1 /\ Lookup(F.text) = 0 => Rcode(t) = 4 \/ Rcode(t) = 3
      BY <1>20
    <3>. QED
      BY <2>2, <3>1, <3>2
  <2>3. Service!Answer(M) = IF Service!Code(M) = 0
                              THEN Entries(file)[Min(Service!RecordsOf(M.questions[1].text))].ip
                              ELSE NoAnswer
    BY ServiceMin DEF Service!Answer
  <2>. QED
    BY <1>6, <1>7, <1>8, <2>1, <2>2, <2>3
<1>10. Copied(t) = IF M.questions = <<>> THEN Scrap ELSE M.questions[1]
  BY <1>3, <1>4 DEF Copied, F
<1>11. Word(ReplyFlags(t)) = 32768 + 2048 * Service!Opcode(M) + 1024
                               + 256 * ((w \div 256) % 2) + Service!Code(M)
  <2>1. Service!Opcode(M) = (w \div 2048) % 16
    BY DEF Service!Opcode
  <2>2. Word(ReplyFlags(t)) = 32768 + 2048 * ((w \div 2048) % 16) + 1024
                                + 256 * ((w \div 256) % 2) + Rcode(t)
    BY <1>3, ReplyWord
  <2>. QED
    BY <1>8, <2>1, <2>2
<1>12. Response(t) = [id |-> M.id, word |-> Word(ReplyFlags(t)), question |-> Copied(t),
                      answer |-> Response(t).answer]
  BY <1>4 DEF Response
<1>13. Service!ReplyTo(M) =
         [id |-> M.id,
          word |-> 32768 + 2048 * Service!Opcode(M) + 1024
                     + 256 * ((w \div 256) % 2) + Service!Code(M),
          question |-> IF M.questions = <<>> THEN Scrap ELSE M.questions[1],
          answer |-> Service!Answer(M)]
  BY DEF Service!ReplyTo
<1>. QED
  BY <1>9, <1>10, <1>11, <1>12, <1>13 DEF M

LEMMA ServiceStep ==
  ASSUME TypeTable, TypeThreads, TableInv, TableMatches, ServeInv, ParserInv, [Next]_vars
  PROVE  [Service!Next]_(Service!vars)
<1>1. CASE UNCHANGED <<file, waiting, replies>>
  BY <1>1 DEF Service!vars
<1>2. ASSUME NEW c \in Clients, NEW q \in DOMAIN Messages, Ask(c, q)
      PROVE  Service!Next
  <2>1. Service!Ask(c, q)
    BY <1>2 DEF Ask, tableVars, Service!Ask
  <2>. QED
    BY <2>1 DEF Service!Next
<1>3. ASSUME NEW t \in Threads, Respond(t)
      PROVE  Service!Next
  <2>1. /\ main = "serve" /\ At(t, "parsed") /\ ~At(t, "recv")
        /\ replies' = replies \cup {<<client[t], Response(t)>>}
        /\ waiting' = waiting \ {<<client[t], query[t]>>}
        /\ file' = file
    BY <1>3 DEF Respond, At, tableVars
  <2>2. /\ client[t] \in Clients /\ query[t] \in DOMAIN Messages
        /\ <<client[t], query[t]>> \in waiting
    BY <2>1, BusyTypes
  <2>3. Response(t) = Service!ReplyTo(Messages[query[t]])
    BY <2>1, ServiceReply
  <2>4. Service!Reply(client[t], query[t])
    BY <2>1, <2>2, <2>3 DEF Service!Reply
  <2>. QED
    BY <2>2, <2>4 DEF Service!Next
<1>4. ASSUME NEW t \in Threads, Serve(t) \/ Killed(t)
      PROVE  [Service!Next]_(Service!vars)
  <2>1. CASE Respond(t)
    BY <1>3, <2>1
  <2>2. CASE Receive(t) \/ Drop(t) \/ Killed(t)
    BY <1>1, <2>2 DEF Receive, Drop, Killed, tableVars, serverVars
  <2>3. CASE Parse(t) /\ UNCHANGED <<tableVars, serverVars>>
    BY <1>1, <2>3 DEF tableVars, serverVars
  <2>. QED
    BY <1>4, <2>1, <2>2, <2>3 DEF Serve
<1>5. CASE Load /\ UNCHANGED <<query, parser, serverVars>>
  BY <1>1, <1>5 DEF Load, SkipBlank, LoadLine, LoadNoName, Loaded, serverVars
<1>6. CASE UNCHANGED vars
  BY <1>1, <1>6 DEF vars, tableVars, serverVars
<1>. QED
  BY <1>2, <1>4, <1>5, <1>6 DEF Next

\* Whoever asks, how many at a time, and however the threads take turns: what
\* a client gets is the one reply of a name server for the file that was
\* loaded, with the first address of the name, the flags and the question of
\* its message (thread_serve, load_dns_server_data).
THEOREM ServiceImplemented == Spec => ImplementsService
<1>. DEFINE Inv == /\ TypeTable /\ TypeThreads /\ TableInv /\ TableMatches
                   /\ ServeInv /\ ParserInv
<1>1. Init => Inv
  BY TypeStarts, TypeParts, TableStarts, ServeStarts, ParserStarts, MatchesStarts
<1>2. Inv /\ [Next]_vars => Inv'
  BY TableStays, ServeStays, ParserStays, TypeTableStays, TypeThreadsStays, MatchesStays
<1>3. Init => Service!Init
  BY DEF Init, Service!Init
<1>4. Inv /\ [Next]_vars => [Service!Next]_(Service!vars)
  BY ServiceStep
<1>. QED
  BY <1>1, <1>2, <1>3, <1>4, PTL DEF Spec, ImplementsService, Service!Spec
=============================================================================
