----------------------------- MODULE DnsParser ------------------------------
(***************************************************************************)
(* parse_dns_message of the DNS server, as each of its threads runs it.    *)
(*                                                                         *)
(* A message is the header and a set of pieces, each at its offset.  The   *)
(* parser goes by offsets: if it reads at one where no piece of the kind   *)
(* it expects starts, it finds whatever is there: the middle of a piece,   *)
(* or what an earlier message left in client_message, which is not cleared *)
(* and given to the parser in its full length.                             *)
(***************************************************************************)
EXTENDS Integers, Sequences

CONSTANTS
  Threads,
  Letters,     \* what clients may send, by name: see IsLetter
  Leftover,    \* bound: the lengths it may find where none was written
  Scrap        \* the text, and the question, made of such bytes

VARIABLES
  query,       \* which message is in client_message of each thread
  parser       \* the variables of parse_dns_message, see Begin

BufferSize == 512
HeaderSize == 12
Bits16 == 0 .. (2^16 - 1)

-----------------------------------------------------------------------------
(* Messages, as their senders lay them out.                                *)

Label(len, text) == [kind |-> "label", len |-> len, text |-> text]
End == Label(0, <<>>)
Fixed(type, class) == [kind |-> "fixed", type |-> type, class |-> class]

\* A resource record: the length of its name, the NUL included, and its data.
Record(name, data) ==
  [kind |-> "record", name |-> name, data |-> data, size |-> name + 10 + data]

\* A record whose name is a pointer, two bytes without a NUL.  strlen goes on
\* to the high byte of the type, and all fields are read one byte late: the
\* length is the low byte of the true one, and the first byte of the data.
Packed(data, byte) ==
  [kind |-> "record", name |-> 3, data |-> 256 * (data % 256) + byte,
   size |-> 12 + data]

\* A question of labels, each a length and a text.  A text is the row of its
\* parts between dots, for nothing keeps a dot out of a label.
Question(labels, type, class) == [labels |-> labels, type |-> type, class |-> class]

\* What a client means to send.  sections: the records that are answers,
\* authorities and additional.
Letter(id, word, questions, sections) ==
  [id |-> id, word |-> word, questions |-> questions,
   records |-> sections[1] \o sections[2] \o sections[3],
   counts |-> <<Len(questions), Len(sections[1]), Len(sections[2]), Len(sections[3])>>]

\* Totals(sizes)[k] is the sum of the first k sizes of a row.
Totals(sizes) ==
  LET total[k \in 0..Len(sizes)] == IF k = 0 THEN 0 ELSE total[k - 1] + sizes[k]
  IN  total

\* Where label j of a question starts, and behind the last of them the byte
\* that ends the name: from the start of the question, as that is from the
\* start of the message.
LabelAt(q, j) == Totals([i \in DOMAIN q.labels |-> q.labels[i].len + 1])[j - 1]
QuestionSize(q) == LabelAt(q, Len(q.labels) + 1) + 5
QuestionAt(m, k) ==
  HeaderSize + Totals([i \in DOMAIN m.questions |-> QuestionSize(m.questions[i])])[k - 1]
RecordAt(m, k) ==
  QuestionAt(m, Len(m.questions) + 1)
    + Totals([i \in DOMAIN m.records |-> m.records[i].size])[k - 1]

Place(offset, piece) == [at |-> offset, piece |-> piece]

LaidQuestion(m, k) ==
  LET q == m.questions[k]
  IN  {Place(QuestionAt(m, k) + LabelAt(q, j), q.labels[j]) : j \in DOMAIN q.labels}
        \cup {Place(QuestionAt(m, k + 1) - 5, End),
              Place(QuestionAt(m, k + 1) - 4, Fixed(q.type, q.class))}

Laid(m) ==
  (UNION {LaidQuestion(m, k) : k \in DOMAIN m.questions})
    \cup {Place(RecordAt(m, k), m.records[k]) : k \in DOMAIN m.records}

\* What the resolver makes of the first k labels: their texts joined by dots.
Joined(labels) ==
  LET text[k \in 0..Len(labels)] ==
        IF k = 0 THEN <<>> ELSE text[k - 1] \o labels[k].text
  IN  text

Text(labels) == Joined(labels)[Len(labels)]

Asked(q) == [text |-> Text(q.labels), type |-> q.type, class |-> q.class]

\* whole: no name of a record is compressed.
Message(m) ==
  [id |-> m.id, word |-> m.word, counts |-> m.counts,
   bytes |-> Laid(m),
   questions |-> [k \in DOMAIN m.questions |-> Asked(m.questions[k])],
   whole |-> \A k \in DOMAIN m.records :
               m.records[k].size = m.records[k].name + 10 + m.records[k].data]

Messages == [q \in DOMAIN Letters |-> Message(Letters[q])]

\* "cut" is what a name in the table ends with that nobody asks for.
Words == STRING \ {"cut"}
Labels == [kind : {"label"}, len : 1..255, text : Seq(Words)]
Questions == [labels : Seq(Labels), type : Bits16, class : Bits16]
Records == [kind : {"record"}, name : Nat \ {0}, data : Nat, size : Nat \ {0}]

\* A name takes at most 255 bytes, and all of it at most 512: that much the
\* DNS allows, and that much recvfrom takes.
IsLetter(m) ==
  /\ m.id \in Bits16 /\ m.word \in Bits16
  /\ m.questions \in Seq(Questions)
  /\ m.records \in Seq(Records)
  /\ m.counts \in [1..4 -> Nat]
  /\ m.counts[1] = Len(m.questions)
  /\ m.counts[2] + m.counts[3] + m.counts[4] = Len(m.records)
  /\ \A k \in DOMAIN m.questions : QuestionSize(m.questions[k]) <= 255 + 4
  /\ RecordAt(m, Len(m.records) + 1) <= BufferSize

ASSUME DnsParserAssumption ==
  /\ Leftover \subseteq 0..255
  /\ \A q \in DOMAIN Letters : IsLetter(Letters[q])

-----------------------------------------------------------------------------
(* The flags: bits 15 to 0 are qr, opcode (4), aa, tc, rd, ra, z (3) and   *)
(* rcode (4).  What the parser shifts and masks is cut once more by the    *)
(* width of the bit field it is stored in, which is that of the mask.      *)

\* The byte shifted right, in a bit field of that width.
BitField(byte, shift, width) == (byte \div 2^shift) % 2^width

Flags(word) ==
  LET hi == word \div 256
      lo == word % 256
  IN  [qr |-> BitField(hi, 7, 1), opcode |-> BitField(hi, 3, 4),
       aa |-> BitField(hi, 2, 1), tc |-> BitField(hi, 1, 1), rd |-> BitField(hi, 0, 1),
       ra |-> BitField(lo, 7, 1), z |-> BitField(lo, 4, 3), rcode |-> BitField(lo, 0, 4)]

-----------------------------------------------------------------------------
(* The parser.                                                             *)

NoQuestion == [text |-> <<>>, type |-> 0, class |-> 0, size |-> 0]

\* section: 1 for questions to 4 for additional; left: how many of its items
\* are still to be read; loc: s_loc; labels, text: how many are in
\* labels_array, and what they say; room: for how many it was allocated;
\* first: questions[0].
Begin == [pc |-> "check", section |-> 1, left |-> 0, loc |-> HeaderSize,
          start |-> HeaderSize, labels |-> 0, text |-> <<>>, room |-> 10,
          first |-> NoQuestion]

At(t, pc) == parser[t].pc = pc
Input(t) == Messages[query[t]]

\* The pieces of a kind that a read at offset o may find.
Junk(kind) ==
  CASE kind = "label" -> {Label(n, <<Scrap>>) : n \in Leftover}
    [] kind = "fixed" -> {Fixed(0, 0)}
    [] kind = "record" -> {Record(n + 1, d) : n \in Leftover, d \in Leftover}

There(t, kind, o) ==
  {place.piece : place \in {p \in Input(t).bytes : p.at = o /\ p.piece.kind = kind}}

Found(t, kind, o) ==
  IF There(t, kind, o) # {} THEN There(t, kind, o) ELSE Junk(kind)

\* Mutant: 12 bytes for a record, as if all names were compressed.
LeastPacked(section) == IF section = 1 THEN 4 ELSE 12

\* if (s_loc + count * 4 > buffer_size) return 1; 10 in the place of 4 for
\* records.
Least(section) == IF section = 1 THEN 4 ELSE 10

CheckSection(t) ==
  LET p == parser[t]
      count == Input(t).counts[p.section]
  IN  /\ At(t, "check")
      /\ parser' = [parser EXCEPT ![t].left = count,
           ![t].pc = IF p.loc + count * Least(p.section) > BufferSize
                       THEN "dropped" ELSE "item"]
      /\ UNCHANGED query

NextSection(t) ==
  /\ At(t, "item") /\ parser[t].left = 0
  /\ parser' = IF parser[t].section = 4
                 THEN [parser EXCEPT ![t].pc = "parsed"]
                 ELSE [parser EXCEPT ![t].pc = "check", ![t].section = @ + 1]
  /\ UNCHANGED query

\* The next question: an array of 10 labels.
StartName(t) ==
  /\ At(t, "item") /\ parser[t].left # 0 /\ parser[t].section = 1
  /\ parser' = [parser EXCEPT ![t].pc = "label", ![t].start = parser[t].loc,
                              ![t].labels = 0, ![t].text = <<>>, ![t].room = 10]
  /\ UNCHANGED query

\* Mutant: one bit less.
Room7(n, room) == IF n = room THEN (2 * room) % 128 ELSE room

\* allocated_labels for one label more than n: doubled, in 8 bits.
Room(n, room) == IF n = room THEN (2 * room) % 256 ELSE room

\* Mutant: the byte with the length is not counted.
Advance1(label) == label.len

\* s_loc += len + 1
Advance(label) == label.len + 1

ReadLabel(t) ==
  LET p == parser[t]
  IN  /\ At(t, "label")
      /\ \E label \in Found(t, "label", p.loc) :
           LET loc == p.loc + Advance(label)
           IN  /\ label.len # 0
               /\ parser' = [parser EXCEPT
                    ![t].room = Room(p.labels, p.room), ![t].labels = @ + 1,
                    ![t].text = @ \o label.text, ![t].loc = loc,
                    ![t].pc = IF loc > BufferSize THEN "dropped" ELSE "label"]
      /\ UNCHANGED query

\* A length of 0 ends the name; type and class are behind it.  Only the first
\* question is ever looked at.
ReadQuestion(t) ==
  LET p == parser[t]
  IN  /\ At(t, "label")
      /\ \E label \in Found(t, "label", p.loc) : label.len = 0
      /\ \E fixed \in Found(t, "fixed", p.loc + 1) :
           LET question == [text |-> p.text, type |-> fixed.type,
                            class |-> fixed.class,
                            size |-> p.loc + 5 - p.start]
           IN  parser' = [parser EXCEPT ![t].pc = "item",
                 ![t].left = @ - 1, ![t].loc = @ + 5,
                 ![t].first = IF p.start = HeaderSize THEN question ELSE @]
      /\ UNCHANGED query

\* A record of any section: nothing stops this in the middle of a section.
ReadRecord(t) ==
  /\ At(t, "item") /\ parser[t].left # 0 /\ parser[t].section # 1
  /\ \E record \in Found(t, "record", parser[t].loc) :
       parser' = [parser EXCEPT ![t].left = @ - 1,
                                ![t].loc = @ + record.name + 10 + record.data]
  /\ UNCHANGED query

\* A record is read, of which nothing is in client_message any more.
BehindBuffer(t) ==
  At(t, "item") /\ parser[t].left # 0 /\ parser[t].loc > BufferSize

Parse(t) ==
  CheckSection(t) \/ NextSection(t) \/ StartName(t) \/ ReadLabel(t)
    \/ ReadQuestion(t) \/ ReadRecord(t)

-----------------------------------------------------------------------------
\* client_message is never cleared, and the parser is told its full length:
\* still it reads only what the sender of this message wrote, at the offsets
\* where it was written, unless names are compressed (parse_dns_message).
ReadsOnlyWritten ==
  \A t \in Threads :
    /\ At(t, "label") => There(t, "label", parser[t].loc) # {}
    /\ At(t, "item") /\ Input(t).whole /\ parser[t].left # 0 /\ parser[t].section # 1 =>
         There(t, "record", parser[t].loc) # {}

\* Every label is written into memory that was allocated for it, although
\* the number of labels allocated is doubled in 8 bits: for every name the
\* DNS allows, of up to 127 labels (extract_labels).
RoomForLabels ==
  \A t \in Threads : parser[t].labels <= parser[t].room

\* No message without compressed names is refused, however close it comes to
\* the 512 bytes: the checks ask for no more than its sections take, and the
\* parser never gets behind the buffer (parse_dns_message).
WholeIsParsed ==
  \A t \in Threads :
    ~At(t, "recv") /\ Input(t).whole => ~At(t, "dropped") /\ ~BehindBuffer(t)
=============================================================================
