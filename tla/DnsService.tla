----------------------------- MODULE DnsService -----------------------------
(***************************************************************************)
(* What a name server promises: a client gets at most one reply to each    *)
(* message it sent, and that is the answer of the server's records.        *)
(***************************************************************************)
EXTENDS Naturals, Sequences, FiniteSetsExt

CONSTANTS
  Clients,
  Messages,    \* what clients may send, by name: see Message in DnsParser
  NoAnswer,
  Scrap        \* the question in the reply to a message that has none

VARIABLES
  records,     \* the numbered records of a file: a name and an address
  waiting,     \* who still waits for the reply to which message
  replies      \* what was answered, with the client it went to

vars == <<records, waiting, replies>>

Init == waiting = {} /\ replies = {}

Ask(c, q) == waiting' = waiting \cup {<<c, q>>} /\ UNCHANGED <<records, replies>>

\* Bits 11 to 14 of the second word of a message.
Opcode(m) == (m.word \div 2048) % 16

\* One question: for the address of a name on the Internet, not inverse.
Asks(m) == m.questions[1].type = 1 /\ m.questions[1].class = 1 /\ Opcode(m) # 1

\* The records of a name; the first one counts.
RecordsOf(text) == {n \in DOMAIN records : records[n].name = text}

Code(m) ==
  CASE Len(m.questions) # 1 -> 1
    [] Len(m.questions) = 1 /\ ~Asks(m) -> 4
    [] Len(m.questions) = 1 /\ Asks(m) ->
         IF RecordsOf(m.questions[1].text) = {} THEN 3 ELSE 0

Answer(m) ==
  IF Code(m) = 0 THEN records[Min(RecordsOf(m.questions[1].text))].ip ELSE NoAnswer

\* An authoritative response, with the opcode and the "recursion desired" of
\* the message and every other flag off.
ReplyTo(m) ==
  [id |-> m.id,
   word |-> 32768 + 2048 * Opcode(m) + 1024 + 256 * ((m.word \div 256) % 2) + Code(m),
   question |-> IF m.questions = <<>> THEN Scrap ELSE m.questions[1],
   answer |-> Answer(m)]

Reply(c, q) ==
  /\ <<c, q>> \in waiting
  /\ waiting' = waiting \ {<<c, q>>}
  /\ replies' = replies \cup {<<c, ReplyTo(Messages[q])>>}
  /\ UNCHANGED records

Next == \E c \in Clients, q \in DOMAIN Messages : Ask(c, q) \/ Reply(c, q)

Spec == Init /\ [][Next]_vars
=============================================================================
