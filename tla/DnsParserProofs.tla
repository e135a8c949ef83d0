-------------------------- MODULE DnsParserProofs ---------------------------
(***************************************************************************)
(* Proofs about DnsParser, for any number of threads, letters and labels.  *)
(*                                                                         *)
(* That the parser reads only what was written is not inductive: a read is *)
(* right because of where the reads before it have led.  So the invariant  *)
(* ParserInv says, for each place of the loops, which offset the parser is *)
(* at (Progress): from the section and the pieces left in it, the place in *)
(* the letter follows, and the parser's offset is the one at which Laid has *)
(* put that piece.  What remains is that no other piece of its kind starts *)
(* there, and that the room for labels is doubled in time.                 *)
(*                                                                         *)
(* The offsets are sums over rows and the name is a row joined from rows,  *)
(* recursive functions both.  What is needed of them is proved by the least *)
(* counterexample (Minimum), in the place of induction.                    *)
(***************************************************************************)
EXTENDS DnsParser, Minimum, SequenceTheorems

-----------------------------------------------------------------------------
(* Sums of rows of numbers.                                                *)

\* What Totals is meant to be: its definition, without the recursion.
IsTotal(f, s, n) ==
  f \in [0..n -> Nat] /\ f[0] = 0 /\ \A k \in 1..n : f[k] = f[k - 1] + s[k]

\* There is such a function, and so CHOOSE finds it.
LEMMA TotalsExist ==
  ASSUME NEW s \in Seq(Nat)
  PROVE  \E f : IsTotal(f, s, Len(s))
<1>. DEFINE None == {n \in 0..Len(s) : ~\E f : IsTotal(f, s, n)}
<1>1. Len(s) \in Nat /\ \A k \in 1..Len(s) : s[k] \in Nat
  BY LenProperties, ElementOfSeq
<1>. SUFFICES None = {}
  BY <1>1
<1>. SUFFICES ASSUME None # {} PROVE FALSE
  OBVIOUS
<1>2. None \subseteq Nat
  BY <1>1
<1>3. PICK n \in None : \A m \in None : n <= m
  <2>. HIDE DEF None
  <2>. QED
    BY <1>2, LeastOfNat
<1>4. n # 0
  <2>1. IsTotal([k \in 0..0 |-> 0], s, 0)
    <3>. DEFINE f == [k \in 0..0 |-> 0]
    <3>1. f \in [0..0 -> Nat] /\ f[0] = 0 /\ 1..0 = {}
      OBVIOUS
    <3>. QED
      BY <3>1 DEF IsTotal
  <2>. QED
    BY <1>3, <2>1
<1>5. n \in 1..Len(s) /\ n - 1 \in 0..Len(s) /\ n - 1 \notin None
  <2>1. n \in 0..Len(s)
    BY <1>3
  <2>2. n \in 1..Len(s) /\ n - 1 \in 0..Len(s) /\ ~(n <= n - 1)
    BY <1>1, <1>4, <2>1
  <2>. HIDE DEF None
  <2>. QED
    BY <1>3, <2>2
<1>6. PICK f : IsTotal(f, s, n - 1)
  BY <1>5
<1>. DEFINE g == [k \in 0..n |-> IF k = n THEN f[n - 1] + s[n] ELSE f[k]]
<1>7. IsTotal(g, s, n)
  <2>1. /\ \A k \in 0..(n - 1) : f[k] \in Nat
        /\ f[0] = 0 /\ \A k \in 1..(n - 1) : f[k] = f[k - 1] + s[k]
    BY <1>6 DEF IsTotal
  <2>2. s[n] \in Nat /\ n - 1 \in 0..(n - 1) /\ n \in Nat /\ n > 0
    BY <1>1, <1>5
  <2>3. g \in [0..n -> Nat]
    BY <2>1, <2>2
  <2>4. \A k \in 1..n : g[k] = g[k - 1] + s[k]
    BY <2>1, <2>2, SMTT(30)
  <2>5. g[0] = 0
    BY <2>1, <2>2
  <2>. HIDE DEF g
  <2>. QED
    BY <2>3, <2>4, <2>5 DEF IsTotal
<1>. QED
  BY <1>3, <1>7

\* Totals adds up.
LEMMA TotalsRec ==
  ASSUME NEW s \in Seq(Nat)
  PROVE  /\ Totals(s) = [k \in 0..Len(s) |-> IF k = 0 THEN 0 ELSE Totals(s)[k - 1] + s[k]]
         /\ Len(s) \in Nat
<1>. DEFINE Body(f) == [k \in 0..Len(s) |-> IF k = 0 THEN 0 ELSE f[k - 1] + s[k]]
<1>1. Totals(s) = CHOOSE f : f = Body(f)
  BY DEF Totals
<1>2. PICK f : IsTotal(f, s, Len(s))
  BY TotalsExist
<1>3. Len(s) \in Nat
  BY LenProperties
<1>4. f = Body(f)
  BY <1>2, <1>3 DEF IsTotal
<1>. HIDE DEF Body
<1>5. Totals(s) = Body(Totals(s))
  BY <1>1, <1>4
<1>. QED
  BY <1>5, <1>3 DEF Body

LEMMA TotalsType ==
  ASSUME NEW s \in Seq(Nat)
  PROVE  IsTotal(Totals(s), s, Len(s))
<1>. DEFINE T == Totals(s)
            Not == {k \in 0..Len(s) : T[k] \notin Nat}
<1>1. /\ DOMAIN T = 0..Len(s) /\ T[0] = 0
      /\ \A k \in 1..Len(s) : T[k] = T[k - 1] + s[k]
      /\ T = [k \in 0..Len(s) |-> T[k]]
  BY TotalsRec
<1>2. Len(s) \in Nat /\ \A k \in 1..Len(s) : s[k] \in Nat
  BY LenProperties, ElementOfSeq
<1>. HIDE DEF T
<1>3. Not = {}
  <2>. SUFFICES ASSUME Not # {} PROVE FALSE
    OBVIOUS
  <2>1. Not \subseteq Nat
    BY <1>2
  <2>2. PICK n \in Not : \A m \in Not : n <= m
    <3>. HIDE DEF Not
    <3>. QED
      BY <2>1, LeastOfNat
  <2>3. n \in 1..Len(s) /\ n - 1 \in 0..Len(s) /\ n - 1 \notin Not
    BY <1>1, <1>2, <2>2
  <2>4. T[n - 1] \in Nat /\ s[n] \in Nat /\ T[n] = T[n - 1] + s[n]
    BY <1>1, <1>2, <2>3
  <2>. QED
    BY <2>2, <2>4
<1>. QED
  BY <1>1, <1>2, <1>3 DEF IsTotal, T

\* With sizes of at least c, the sums grow by c at each piece or by more.
LEMMA TotalsGrow ==
  ASSUME NEW s \in Seq(Nat), NEW c \in Nat, \A k \in DOMAIN s : s[k] >= c,
         NEW i \in 0..Len(s), NEW j \in i..Len(s)
  PROVE  Totals(s)[i] + c * (j - i) <= Totals(s)[j]
<1>. DEFINE T == Totals(s)
            Not == {k \in i..Len(s) : ~(T[i] + c * (k - i) <= T[k])}
<1>1. IsTotal(T, s, Len(s))
  BY TotalsType
<1>2. Len(s) \in Nat /\ DOMAIN s = 1..Len(s)
  BY LenProperties
<1>3. /\ \A k \in 0..Len(s) : T[k] \in Nat
      /\ \A k \in 1..Len(s) : T[k] = T[k - 1] + s[k] /\ s[k] \in Nat
  BY <1>1, <1>2, ElementOfSeq DEF IsTotal
<1>. HIDE DEF T
<1>4. Not = {}
  <2>. SUFFICES ASSUME Not # {} PROVE FALSE
    OBVIOUS
  <2>1. Not \subseteq Nat
    BY <1>2
  <2>2. PICK n \in Not : \A m \in Not : n <= m
    <3>. HIDE DEF Not
    <3>. QED
      BY <2>1, LeastOfNat
  <2>3. n # i
    BY <1>2, <1>3, <2>2
  <2>4. n \in 1..Len(s) /\ n - 1 \in i..Len(s) /\ n - 1 \notin Not
    BY <1>2, <2>2, <2>3, SMTT(30)
  <2>5. T[i] + c * ((n - 1) - i) <= T[n - 1] /\ T[n] = T[n - 1] + s[n] /\ s[n] >= c
    BY <1>2, <1>3, <2>4
  <2>6. c * (n - i) = c * ((n - 1) - i) + c /\ c * ((n - 1) - i) \in Int
    BY <1>2, <2>4
  <2>7. T[i] \in Nat /\ T[n - 1] \in Nat /\ s[n] \in Nat
    BY <1>2, <1>3, <2>4
  <2>8. ASSUME NEW y \in Int, NEW a \in Nat, NEW b \in Nat, NEW d \in Nat,
               a + y <= b, d >= c
        PROVE  a + (y + c) <= b + d
    BY <2>8
  <2>9. T[i] + (c * ((n - 1) - i) + c) <= T[n - 1] + s[n]
    BY <2>5, <2>6, <2>7, <2>8
  <2>. QED
    BY <2>2, <2>5, <2>6, <2>9
<1>. QED
  BY <1>2, <1>4 DEF T

-----------------------------------------------------------------------------
(* The texts of a row of labels, joined.                                   *)

\* What Joined is meant to be: its definition, without the recursion.
IsJoined(f, labels, n) ==
  /\ f \in [0..n -> Seq(Words)] /\ f[0] = <<>>
  /\ \A k \in 1..n : f[k] = f[k - 1] \o labels[k].text

\* The text of a label is a row of words.
LEMMA TextOfLabel ==
  ASSUME NEW labels \in Seq(Labels)
  PROVE  /\ Len(labels) \in Nat /\ DOMAIN labels = 1..Len(labels)
         /\ \A k \in 1..Len(labels) :
              /\ labels[k] \in Labels
              /\ labels[k].text \in Seq(Words)
              /\ labels[k].len \in 1..255
              /\ labels[k].kind = "label"
<1>1. Len(labels) \in Nat /\ DOMAIN labels = 1..Len(labels)
  BY LenProperties
<1>2. \A k \in 1..Len(labels) : labels[k] \in Labels
  BY ElementOfSeq
<1>3. \A l \in Labels : l.text \in Seq(Words) /\ l.len \in 1..255 /\ l.kind = "label"
  BY DEF Labels
<1>. QED
  BY <1>1, <1>2, <1>3

LEMMA JoinedExist ==
  ASSUME NEW labels \in Seq(Labels)
  PROVE  \E f : IsJoined(f, labels, Len(labels))
<1>. DEFINE None == {n \in 0..Len(labels) : ~\E f : IsJoined(f, labels, n)}
<1>1. /\ Len(labels) \in Nat
      /\ \A k \in 1..Len(labels) : labels[k].text \in Seq(Words)
  BY TextOfLabel
<1>. SUFFICES None = {}
  BY <1>1
<1>. SUFFICES ASSUME None # {} PROVE FALSE
  OBVIOUS
<1>2. None \subseteq Nat
  BY <1>1
<1>3. PICK n \in None : \A m \in None : n <= m
  <2>. HIDE DEF None
  <2>. QED
    BY <1>2, LeastOfNat
<1>4. n # 0
  <2>1. IsJoined([k \in 0..0 |-> <<>>], labels, 0)
    <3>. DEFINE f == [k \in 0..0 |-> <<>>]
    <3>1. f \in [0..0 -> Seq(Words)] /\ f[0] = <<>> /\ 1..0 = {}
      BY EmptySeq
    <3>. QED
      BY <3>1 DEF IsJoined
  <2>. QED
    BY <1>3, <2>1
<1>5. n \in 1..Len(labels) /\ n - 1 \in 0..Len(labels) /\ n - 1 \notin None
  <2>1. n \in 0..Len(labels)
    BY <1>3
  <2>2. n \in 1..Len(labels) /\ n - 1 \in 0..Len(labels) /\ ~(n <= n - 1)
    BY <1>1, <1>4, <2>1
  <2>. HIDE DEF None
  <2>. QED
    BY <1>3, <2>2
<1>6. PICK f : IsJoined(f, labels, n - 1)
  BY <1>5
<1>. DEFINE t == labels[n].text
            g == [k \in 0..n |-> IF k = n THEN f[n - 1] \o t ELSE f[k]]
<1>7. IsJoined(g, labels, n)
  <2>1. /\ \A k \in 0..(n - 1) : f[k] \in Seq(Words)
        /\ f[0] = <<>> /\ \A k \in 1..(n - 1) : f[k] = f[k - 1] \o labels[k].text
    BY <1>6 DEF IsJoined
  <2>2. n - 1 \in 0..(n - 1) /\ n \in Nat /\ n > 0 /\ t \in Seq(Words)
    BY <1>1, <1>5
  <2>3. f[n - 1] \o t \in Seq(Words)
    <3>. HIDE DEF t
    <3>. QED
      BY <2>1, <2>2, ConcatProperties
  <2>4. g \in [0..n -> Seq(Words)]
    BY <2>1, <2>2, <2>3
  <2>5. ASSUME NEW k \in 1..n
        PROVE  g[k] = g[k - 1] \o labels[k].text
    <3>1. /\ k \in 0..n /\ k - 1 \in 0..n /\ k - 1 # n
          /\ k # n => k \in 1..(n - 1)
      BY <2>2
    <3>2. g[k - 1] = f[k - 1]
      BY <3>1, Zenon
    <3>3. CASE k = n
      <4>1. g[k] = f[n - 1] \o t
        BY <3>1, <3>3, Zenon
      <4>. QED
        BY <3>2, <3>3, <4>1
    <3>4. CASE k # n
      <4>1. g[k] = f[k]
        BY <3>1, <3>4, Zenon
      <4>. QED
        BY <2>1, <3>1, <3>2, <3>4, <4>1, Zenon
    <3>. QED
      BY <3>3, <3>4
  <2>6. g[0] = <<>>
    BY <2>1, <2>2
  <2>. HIDE DEF g
  <2>. QED
    BY <2>4, <2>5, <2>6 DEF IsJoined
<1>. QED
  BY <1>3, <1>7

\* The text of a name is a row of words, joined label by label.
LEMMA JoinedType ==
  ASSUME NEW labels \in Seq(Labels)
  PROVE  IsJoined(Joined(labels), labels, Len(labels))
<1>. DEFINE Body(f) == [k \in 0..Len(labels) |->
                          IF k = 0 THEN <<>> ELSE f[k - 1] \o labels[k].text]
            T == Joined(labels)
            Not == {k \in 0..Len(labels) : T[k] \notin Seq(Words)}
<1>1. Joined(labels) = CHOOSE f : f = Body(f)
  BY DEF Joined
<1>2. PICK f : IsJoined(f, labels, Len(labels))
  BY JoinedExist
<1>3. /\ Len(labels) \in Nat
      /\ \A k \in 1..Len(labels) : labels[k].text \in Seq(Words)
  BY TextOfLabel
<1>4. f = Body(f)
  <2>1. f = [k \in 0..Len(labels) |-> f[k]] /\ f[0] = <<>>
    BY <1>2 DEF IsJoined
  <2>2. \A k \in 1..Len(labels) : f[k] = f[k - 1] \o labels[k].text
    BY <1>2 DEF IsJoined
  <2>3. \A k \in 0..Len(labels) : k = 0 \/ k \in 1..Len(labels)
    BY <1>3
  <2>4. \A k \in 0..Len(labels) :
          f[k] = IF k = 0 THEN <<>> ELSE f[k - 1] \o labels[k].text
    BY <2>1, <2>2, <2>3
  <2>. QED
    BY <2>1, <2>4
<1>5. T = Body(T)
  <2>. HIDE DEF Body
  <2>. QED
    BY <1>1, <1>4
<1>6. /\ T[0] = <<>>
      /\ \A k \in 1..Len(labels) : T[k] = T[k - 1] \o labels[k].text
      /\ T = [k \in 0..Len(labels) |-> T[k]]
  <2>. HIDE DEF T
  <2>. QED
    BY <1>3, <1>5, SMTT(30)
<1>. HIDE DEF T
<1>7. Not = {}
  <2>. SUFFICES ASSUME Not # {} PROVE FALSE
    OBVIOUS
  <2>1. Not \subseteq Nat
    BY <1>3
  <2>2. PICK n \in Not : \A m \in Not : n <= m
    <3>. HIDE DEF Not
    <3>. QED
      BY <2>1, LeastOfNat
  <2>3. n \in 1..Len(labels) /\ n - 1 \in 0..Len(labels) /\ n - 1 \notin Not
    <3>1. n # 0
      BY <1>6, <2>2, EmptySeq
    <3>. QED
      BY <1>3, <2>2, <3>1
  <2>4. T[n - 1] \in Seq(Words) /\ labels[n].text \in Seq(Words)
    BY <1>3, <2>3
  <2>5. T[n - 1] \o labels[n].text \in Seq(Words)
    BY <2>4, ConcatProperties
  <2>. QED
    BY <1>6, <2>2, <2>3, <2>5
<1>. QED
  BY <1>3, <1>6, <1>7 DEF IsJoined, T

-----------------------------------------------------------------------------
(* How a letter is laid out.                                               *)

\* The fields of a question.
LEMMA QuestionFields ==
  ASSUME NEW q \in Questions
  PROVE  q.labels \in Seq(Labels) /\ q.type \in Bits16 /\ q.class \in Bits16
BY DEF Questions

\* The labels of a question follow each other, and the end of its name.
LEMMA QuestionLaid ==
  ASSUME NEW q \in Questions
  PROVE  /\ Len(q.labels) \in Nat
         /\ LabelAt(q, 1) = 0
         /\ \A j \in 1..(Len(q.labels) + 1) : LabelAt(q, j) \in Nat
         /\ \A j \in 1..Len(q.labels) : LabelAt(q, j + 1) = LabelAt(q, j) + (q.labels[j].len + 1)
         /\ \A i, j \in 1..(Len(q.labels) + 1) :
              i <= j => LabelAt(q, i) + 2 * (j - i) <= LabelAt(q, j)
<1>. DEFINE s == [i \in DOMAIN q.labels |-> q.labels[i].len + 1]
            n == Len(q.labels)
<1>1. q.labels \in Seq(Labels)
  BY QuestionFields
<1>. DEFINE size(i) == q.labels[i].len + 1
<1>2. /\ n \in Nat /\ DOMAIN q.labels = 1..n
      /\ \A i \in 1..n : size(i) \in Nat /\ size(i) >= 2
  <2>1. \A i \in 1..n : q.labels[i].len \in 1..255
    BY <1>1, TextOfLabel
  <2>2. \A x \in 1..255 : x + 1 \in Nat /\ x + 1 >= 2
    OBVIOUS
  <2>. QED
    BY <1>1, <2>1, <2>2, TextOfLabel
<1>3. s \in Seq(Nat) /\ Len(s) = n /\ \A i \in 1..n : s[i] = size(i)
  <2>. HIDE DEF size
  <2>0. s = [i \in 1..n |-> size(i)]
    BY <1>2 DEF size
  <2>. HIDE DEF s
  <2>1. s \in [1..n -> Nat]
    BY <1>2, <2>0
  <2>2. s \in Seq(Nat)
    BY <1>2, <2>1, SeqDef
  <2>3. DOMAIN s = 1..n
    BY <2>1
  <2>. QED
    BY <1>2, <2>0, <2>2, <2>3, LenProperties
<1>4. \A j : LabelAt(q, j) = Totals(s)[j - 1]
  BY DEF LabelAt
<1>. HIDE DEF s, size
<1>5. IsTotal(Totals(s), s, n)
  BY <1>3, TotalsType
<1>6. \A i \in DOMAIN s : s[i] >= 2
  <2>1. DOMAIN s = 1..n
    BY <1>3, LenProperties
  <2>. QED
    BY <1>2, <1>3, <2>1
<1>7. ASSUME NEW i \in 1..(n + 1), NEW j \in 1..(n + 1), i <= j
      PROVE  LabelAt(q, i) + 2 * (j - i) <= LabelAt(q, j)
  <2>1. i - 1 \in 0..Len(s) /\ j - 1 \in (i - 1)..Len(s) /\ (j - 1) - (i - 1) = j - i
    BY <1>2, <1>3, <1>7
  <2>2. Totals(s)[i - 1] + 2 * ((j - 1) - (i - 1)) <= Totals(s)[j - 1]
    BY <1>3, <1>6, <2>1, TotalsGrow
  <2>. QED
    BY <1>4, <2>1, <2>2
<1>8. \A j \in 1..(n + 1) : LabelAt(q, j) \in Nat
  BY <1>2, <1>4, <1>5 DEF IsTotal
<1>9. ASSUME NEW j \in 1..n
      PROVE  LabelAt(q, j + 1) = LabelAt(q, j) + (q.labels[j].len + 1)
  <2>1. Totals(s)[j] = Totals(s)[j - 1] + s[j] /\ (j + 1) - 1 = j
    BY <1>2, <1>5 DEF IsTotal
  <2>2. s[j] = q.labels[j].len + 1
    BY <1>3 DEF size
  <2>. QED
    BY <1>4, <2>1, <2>2
<1>10. LabelAt(q, 1) = 0
  BY <1>4, <1>5 DEF IsTotal
<1>. QED
  BY <1>2, <1>7, <1>8, <1>9, <1>10

\* The fields of a letter and of a record.
LEMMA LetterFields ==
  ASSUME NEW m, IsLetter(m)
  PROVE  /\ Len(m.questions) \in Nat /\ DOMAIN m.questions = 1..Len(m.questions)
         /\ \A k \in 1..Len(m.questions) : m.questions[k] \in Questions
         /\ Len(m.records) \in Nat /\ DOMAIN m.records = 1..Len(m.records)
         /\ \A k \in 1..Len(m.records) : m.records[k] \in Records
<1>1. m.questions \in Seq(Questions) /\ m.records \in Seq(Records)
  BY DEF IsLetter
<1>. QED
  BY <1>1, LenProperties, ElementOfSeq

LEMMA RecordFields ==
  ASSUME NEW r \in Records
  PROVE  /\ r.kind = "record" /\ r.name \in Nat /\ r.name >= 1
         /\ r.data \in Nat /\ r.size \in Nat /\ r.size >= 1
<1>1. r.kind = "record" /\ r.name \in Nat \ {0} /\ r.data \in Nat /\ r.size \in Nat \ {0}
  BY DEF Records
<1>2. \A n \in Nat \ {0} : n \in Nat /\ n >= 1
  OBVIOUS
<1>. QED
  BY <1>1, <1>2

\* The offsets of the questions, and how much room they take.
LEMMA QuestionsLaid ==
  ASSUME NEW m, IsLetter(m)
  PROVE  /\ QuestionAt(m, 1) = HeaderSize
         /\ \A k \in 1..(Len(m.questions) + 1) : QuestionAt(m, k) \in Nat
         /\ \A k \in 1..Len(m.questions) :
              QuestionAt(m, k + 1) = QuestionAt(m, k) + QuestionSize(m.questions[k])
         /\ \A i, j \in 1..(Len(m.questions) + 1) :
              i <= j => QuestionAt(m, i) + 5 * (j - i) <= QuestionAt(m, j)
<1>. DEFINE n == Len(m.questions)
            size(k) == QuestionSize(m.questions[k])
            s == [k \in DOMAIN m.questions |-> size(k)]
<1>1. n \in Nat /\ DOMAIN m.questions = 1..n
  BY LetterFields
<1>2. ASSUME NEW k \in 1..n PROVE size(k) \in Nat /\ size(k) >= 5
  <2>. DEFINE q == m.questions[k]
  <2>1. q \in Questions
    BY LetterFields
  <2>2. Len(q.labels) + 1 \in 1..(Len(q.labels) + 1)
    BY <2>1, QuestionLaid
  <2>3. LabelAt(q, Len(q.labels) + 1) \in Nat
    BY <2>1, <2>2, QuestionLaid
  <2>. QED
    BY <2>3 DEF QuestionSize
<1>. HIDE DEF size
<1>3. s = [k \in 1..n |-> size(k)]
  BY <1>1
<1>4. \A k : QuestionAt(m, k) = HeaderSize + Totals(s)[k - 1]
  BY DEF QuestionAt, size
<1>. HIDE DEF s, n
<1>5. s \in Seq(Nat) /\ Len(s) = n /\ DOMAIN s = 1..n /\ \A k \in 1..n : s[k] = size(k)
  <2>1. s \in [1..n -> Nat]
    BY <1>2, <1>3
  <2>2. s \in Seq(Nat)
    BY <1>1, <2>1, SeqDef
  <2>. QED
    BY <1>1, <1>3, <2>1, <2>2, LenProperties
<1>6. IsTotal(Totals(s), s, n)
  BY <1>5, TotalsType
<1>7. ASSUME NEW i \in 1..(n + 1), NEW j \in 1..(n + 1), i <= j
      PROVE  QuestionAt(m, i) + 5 * (j - i) <= QuestionAt(m, j)
  <2>1. i - 1 \in 0..n /\ j - 1 \in 0..n /\ j - 1 \in (i - 1)..n
        /\ (j - 1) - (i - 1) = j - i
    BY <1>1, <1>7
  <2>2. Totals(s)[i - 1] + 5 * ((j - 1) - (i - 1)) <= Totals(s)[j - 1]
    BY <1>2, <1>5, <2>1, TotalsGrow
  <2>3. Totals(s)[i - 1] \in Nat /\ Totals(s)[j - 1] \in Nat
    BY <1>6, <2>1 DEF IsTotal
  <2>. QED
    BY <1>4, <2>1, <2>2, <2>3 DEF HeaderSize
<1>8. ASSUME NEW k \in 1..(n + 1) PROVE QuestionAt(m, k) \in Nat
  <2>1. k - 1 \in 0..n
    BY <1>1
  <2>2. Totals(s)[k - 1] \in Nat
    BY <1>6, <2>1 DEF IsTotal
  <2>. QED
    BY <1>4, <2>2 DEF HeaderSize
<1>9. ASSUME NEW k \in 1..n
      PROVE  QuestionAt(m, k + 1) = QuestionAt(m, k) + QuestionSize(m.questions[k])
  <2>1. Totals(s)[k] = Totals(s)[k - 1] + s[k] /\ (k + 1) - 1 = k
        /\ Totals(s)[k - 1] \in Nat
    BY <1>1, <1>6 DEF IsTotal
  <2>2. s[k] = QuestionSize(m.questions[k]) /\ s[k] \in Nat
    BY <1>2, <1>5 DEF size
  <2>. QED
    BY <1>4, <2>1, <2>2 DEF HeaderSize
<1>10. QuestionAt(m, 1) = HeaderSize
  BY <1>4, <1>6 DEF IsTotal, HeaderSize
<1>. QED
  BY <1>7, <1>8, <1>9, <1>10 DEF n

\* No name of a record is compressed.
Whole(m) ==
  \A k \in DOMAIN m.records :
    m.records[k].size = m.records[k].name + 10 + m.records[k].data

\* The offsets of the records: behind the questions.
LEMMA RecordsLaid ==
  ASSUME NEW m, IsLetter(m)
  PROVE  /\ RecordAt(m, 1) = QuestionAt(m, Len(m.questions) + 1)
         /\ \A k \in 1..(Len(m.records) + 1) : RecordAt(m, k) \in Nat
         /\ \A k \in 1..Len(m.records) :
              RecordAt(m, k + 1) = RecordAt(m, k) + m.records[k].size
         /\ \A i, j \in 1..(Len(m.records) + 1) :
              i <= j => RecordAt(m, i) + (j - i) <= RecordAt(m, j)
         /\ Whole(m) =>
              \A i, j \in 1..(Len(m.records) + 1) :
                i <= j => RecordAt(m, i) + 10 * (j - i) <= RecordAt(m, j)
<1>. DEFINE n == Len(m.records)
            size(k) == m.records[k].size
            s == [k \in DOMAIN m.records |-> size(k)]
            q == QuestionAt(m, Len(m.questions) + 1)
<1>1. n \in Nat /\ DOMAIN m.records = 1..n /\ q \in Nat
  <2>1. Len(m.questions) + 1 \in 1..(Len(m.questions) + 1)
    BY LetterFields
  <2>. QED
    BY <2>1, LetterFields, QuestionsLaid
<1>2. ASSUME NEW k \in 1..n
      PROVE  size(k) \in Nat /\ size(k) >= 1 /\ (Whole(m) => size(k) >= 10)
  <2>1. m.records[k] \in Records
    BY LetterFields
  <2>. DEFINE a == m.records[k].name b == m.records[k].data
  <2>2. a \in Nat /\ b \in Nat /\ size(k) \in Nat /\ size(k) >= 1
    BY <2>1, RecordFields
  <2>3. Whole(m) => size(k) = a + 10 + b
    BY <1>1 DEF Whole
  <2>. HIDE DEF a, b, size
  <2>. QED
    BY <2>2, <2>3
<1>. HIDE DEF size
<1>3. s = [k \in 1..n |-> size(k)]
  BY <1>1
<1>4. \A k : RecordAt(m, k) = q + Totals(s)[k - 1]
  BY DEF RecordAt, size
<1>. HIDE DEF s, n, q
<1>5. s \in Seq(Nat) /\ Len(s) = n /\ DOMAIN s = 1..n /\ \A k \in 1..n : s[k] = size(k)
  <2>1. s \in [1..n -> Nat]
    BY <1>2, <1>3
  <2>2. s \in Seq(Nat)
    BY <1>1, <2>1, SeqDef
  <2>. QED
    BY <1>1, <1>3, <2>1, <2>2, LenProperties
<1>6. IsTotal(Totals(s), s, n)
  BY <1>5, TotalsType
<1>7. ASSUME NEW c \in Nat, \A k \in 1..n : size(k) >= c,
             NEW i \in 1..(n + 1), NEW j \in 1..(n + 1), i <= j
      PROVE  /\ Totals(s)[i - 1] + c * (j - i) <= Totals(s)[j - 1]
             /\ Totals(s)[i - 1] \in Nat /\ Totals(s)[j - 1] \in Nat
  <2>1. i - 1 \in 0..n /\ j - 1 \in 0..n /\ j - 1 \in (i - 1)..n
        /\ (j - 1) - (i - 1) = j - i
    BY <1>1, <1>7
  <2>2. \A k \in DOMAIN s : s[k] >= c
    BY <1>5, <1>7
  <2>3. Totals(s)[i - 1] + c * ((j - 1) - (i - 1)) <= Totals(s)[j - 1]
    BY <1>5, <2>1, <2>2, TotalsGrow
  <2>4. Totals(s)[i - 1] \in Nat /\ Totals(s)[j - 1] \in Nat
    BY <1>6, <2>1 DEF IsTotal
  <2>. QED
    BY <2>1, <2>3, <2>4
<1>8. ASSUME NEW i \in 1..(n + 1), NEW j \in 1..(n + 1), i <= j
      PROVE  RecordAt(m, i) + (j - i) <= RecordAt(m, j)
  <2>1. /\ Totals(s)[i - 1] + 1 * (j - i) <= Totals(s)[j - 1]
        /\ Totals(s)[i - 1] \in Nat /\ Totals(s)[j - 1] \in Nat
    BY <1>2, <1>7, <1>8
  <2>. QED
    BY <1>1, <1>4, <2>1, SMTT(30)
<1>9. ASSUME Whole(m), NEW i \in 1..(n + 1), NEW j \in 1..(n + 1), i <= j
      PROVE  RecordAt(m, i) + 10 * (j - i) <= RecordAt(m, j)
  <2>1. /\ Totals(s)[i - 1] + 10 * (j - i) <= Totals(s)[j - 1]
        /\ Totals(s)[i - 1] \in Nat /\ Totals(s)[j - 1] \in Nat
    BY <1>2, <1>7, <1>9
  <2>. QED
    BY <1>1, <1>4, <2>1, SMTT(30)
<1>10. ASSUME NEW k \in 1..(n + 1) PROVE RecordAt(m, k) \in Nat
  <2>1. k - 1 \in 0..n
    BY <1>1
  <2>2. Totals(s)[k - 1] \in Nat
    BY <1>6, <2>1 DEF IsTotal
  <2>. QED
    BY <1>1, <1>4, <2>2
<1>11. ASSUME NEW k \in 1..n
       PROVE  RecordAt(m, k + 1) = RecordAt(m, k) + m.records[k].size
  <2>1. Totals(s)[k] = Totals(s)[k - 1] + s[k] /\ (k + 1) - 1 = k
        /\ Totals(s)[k - 1] \in Nat
    BY <1>1, <1>6 DEF IsTotal
  <2>2. s[k] = m.records[k].size /\ s[k] \in Nat
    BY <1>2, <1>5 DEF size
  <2>. QED
    BY <1>1, <1>4, <2>1, <2>2
<1>12. RecordAt(m, 1) = q
  BY <1>1, <1>4, <1>6 DEF IsTotal
<1>. QED
  BY <1>8, <1>9, <1>10, <1>11, <1>12 DEF n, q

-----------------------------------------------------------------------------
(* At its offset a piece is alone among those of its kind.                 *)

\* The labels of question k, and where the j-th piece of its name starts.
Named(m, k) == Len(m.questions[k].labels)
Start(m, k, j) == QuestionAt(m, k) + LabelAt(m.questions[k], j)
PieceOf(m, k, j) ==
  IF j <= Named(m, k) THEN m.questions[k].labels[j] ELSE End

\* The pieces of a kind that start at o.
PiecesAt(m, kind, o) ==
  {place.piece : place \in {p \in Laid(m) : p.at = o /\ p.piece.kind = kind}}

\* What of a question lies where.
LEMMA NameLaid ==
  ASSUME NEW m, IsLetter(m), NEW k \in 1..Len(m.questions)
  PROVE  /\ m.questions[k] \in Questions /\ Named(m, k) \in Nat
         /\ QuestionAt(m, k) \in Nat /\ QuestionAt(m, k + 1) \in Nat
         /\ Start(m, k, 1) = QuestionAt(m, k)
         /\ Start(m, k, Named(m, k) + 1) = QuestionAt(m, k + 1) - 5
         /\ \A j \in 1..Named(m, k) :
              Start(m, k, j + 1) = Start(m, k, j) + (m.questions[k].labels[j].len + 1)
         /\ \A j \in 1..(Named(m, k) + 1) : Start(m, k, j) \in Nat
         /\ \A i, j \in 1..(Named(m, k) + 1) :
              i <= j => Start(m, k, i) + 2 * (j - i) <= Start(m, k, j)
<1>. DEFINE q == m.questions[k] n == Len(q.labels)
<1>1. q \in Questions
  BY LetterFields
<1>2. /\ n \in Nat /\ LabelAt(q, 1) = 0
      /\ \A j \in 1..(n + 1) : LabelAt(q, j) \in Nat
      /\ \A j \in 1..n : LabelAt(q, j + 1) = LabelAt(q, j) + (q.labels[j].len + 1)
      /\ \A i, j \in 1..(n + 1) : i <= j => LabelAt(q, i) + 2 * (j - i) <= LabelAt(q, j)
  BY <1>1, QuestionLaid
<1>3. /\ QuestionAt(m, k) \in Nat /\ QuestionAt(m, k + 1) \in Nat
      /\ QuestionAt(m, k + 1) = QuestionAt(m, k) + (LabelAt(q, n + 1) + 5)
  <2>1. k \in 1..(Len(m.questions) + 1) /\ k + 1 \in 1..(Len(m.questions) + 1)
    BY LetterFields
  <2>. QED
    BY <2>1, QuestionsLaid DEF QuestionSize
<1>4. /\ \A j : Start(m, k, j) = QuestionAt(m, k) + LabelAt(q, j)
      /\ Named(m, k) = n
  BY DEF Start, Named
<1>5. \A j \in 1..n : q.labels[j].len + 1 \in Nat
  <2>1. q.labels \in Seq(Labels)
    BY <1>1, QuestionFields
  <2>2. \A j \in 1..n : q.labels[j].len \in 1..255
    BY <2>1, TextOfLabel
  <2>3. \A x \in 1..255 : x + 1 \in Nat
    OBVIOUS
  <2>. QED
    BY <2>2, <2>3
<1>6. ASSUME NEW j \in 1..n
      PROVE  Start(m, k, j + 1) = Start(m, k, j) + (q.labels[j].len + 1)
  <2>. DEFINE x == q.labels[j].len + 1
  <2>1. x \in Nat /\ LabelAt(q, j + 1) = LabelAt(q, j) + x
    <3>. HIDE DEF q, n
    <3>. QED
      BY <1>2, <1>5
  <2>. HIDE DEF x, q, n
  <2>0. LabelAt(q, j) \in Nat
    <3>1. n \in Nat /\ j \in 1..(n + 1)
      BY <1>2
    <3>. QED
      BY <1>2, <3>1
  <2>2. Start(m, k, j + 1) = Start(m, k, j) + x
    BY <1>3, <1>4, <2>0, <2>1
  <2>. QED
    BY <2>2 DEF x
<1>7. ASSUME NEW i \in 1..(n + 1), NEW j \in 1..(n + 1), i <= j
      PROVE  Start(m, k, i) + 2 * (j - i) <= Start(m, k, j)
  <2>. HIDE DEF q, n
  <2>1. /\ LabelAt(q, i) \in Nat /\ LabelAt(q, j) \in Nat
        /\ LabelAt(q, i) + 2 * (j - i) <= LabelAt(q, j)
    BY <1>2, <1>7
  <2>0. i \in Int /\ j \in Int
    BY <1>2
  <2>2. /\ Start(m, k, i) = QuestionAt(m, k) + LabelAt(q, i)
        /\ Start(m, k, j) = QuestionAt(m, k) + LabelAt(q, j)
    BY <1>4
  <2>3. QuestionAt(m, k) \in Nat
    BY <1>3
  <2>. QED
    BY <2>0, <2>1, <2>2, <2>3
<1>8. ASSUME NEW j \in 1..(n + 1) PROVE Start(m, k, j) \in Nat
  <2>. HIDE DEF q, n
  <2>1. LabelAt(q, j) \in Nat /\ Start(m, k, j) = QuestionAt(m, k) + LabelAt(q, j)
    BY <1>2, <1>4
  <2>2. QuestionAt(m, k) \in Nat
    BY <1>3
  <2>. QED
    BY <2>1, <2>2
<1>9. /\ Start(m, k, 1) = QuestionAt(m, k)
      /\ Start(m, k, n + 1) = QuestionAt(m, k + 1) - 5
  <2>. HIDE DEF q, n
  <2>1. n + 1 \in 1..(n + 1)
    BY <1>2
  <2>. QED
    BY <1>2, <1>3, <1>4, <2>1, SMTT(30)
<1>. HIDE DEF n
<1>. QED
  BY <1>1, <1>2, <1>3, <1>4, <1>6, <1>7, <1>8, <1>9

\* A name and its labels lie within their question.
LEMMA NameWithin ==
  ASSUME NEW m, IsLetter(m), NEW k \in 1..Len(m.questions),
         NEW j \in 1..(Named(m, k) + 1)
  PROVE  /\ QuestionAt(m, k) <= Start(m, k, j)
         /\ Start(m, k, j) <= QuestionAt(m, k + 1) - 5
<1>. DEFINE n == Named(m, k)
<1>1. n \in Nat /\ 1 \in 1..(n + 1) /\ n + 1 \in 1..(n + 1) /\ 1 <= j /\ j <= n + 1 /\ j \in Nat
  BY NameLaid, SMTT(30)
<1>2. /\ Start(m, k, 1) + 2 * (j - 1) <= Start(m, k, j)
      /\ Start(m, k, j) + 2 * ((n + 1) - j) <= Start(m, k, n + 1)
  <2>. HIDE DEF n
  <2>. QED
    BY <1>1, NameLaid DEF n
<1>3. /\ Start(m, k, 1) \in Nat /\ Start(m, k, j) \in Nat /\ Start(m, k, n + 1) \in Nat
      /\ Start(m, k, 1) = QuestionAt(m, k)
      /\ Start(m, k, n + 1) = QuestionAt(m, k + 1) - 5
      /\ QuestionAt(m, k + 1) \in Nat
  BY <1>1, NameLaid
<1>. HIDE DEF n
<1>4. Start(m, k, 1) <= Start(m, k, j) /\ Start(m, k, j) <= Start(m, k, n + 1)
  BY <1>1, <1>2, <1>3, SMTT(30)
<1>. QED
  BY <1>3, <1>4

\* So no two questions, no two labels and no two records meet.
LEMMA QuestionsApart ==
  ASSUME NEW m, IsLetter(m), NEW k \in 1..Len(m.questions),
         NEW l \in 1..Len(m.questions), k < l
  PROVE  QuestionAt(m, k + 1) <= QuestionAt(m, l)
<1>. DEFINE a == k + 1 n == Len(m.questions)
<1>1. n \in Nat /\ a \in 1..(n + 1) /\ l \in 1..(n + 1) /\ a <= l /\ a \in Nat
  BY LetterFields
<1>2. /\ QuestionAt(m, a) + 5 * (l - a) <= QuestionAt(m, l)
      /\ QuestionAt(m, a) \in Nat /\ QuestionAt(m, l) \in Nat
  <2>. HIDE DEF a
  <2>. QED
    BY <1>1, QuestionsLaid
<1>. HIDE DEF a, n
<1>3. QuestionAt(m, a) <= QuestionAt(m, l)
  BY <1>1, <1>2
<1>. QED
  BY <1>3 DEF a

LEMMA LabelsApart ==
  ASSUME NEW m, IsLetter(m),
         NEW k \in 1..Len(m.questions), NEW j \in 1..(Named(m, k) + 1),
         NEW l \in 1..Len(m.questions), NEW i \in 1..(Named(m, l) + 1),
         Start(m, k, j) = Start(m, l, i)
  PROVE  k = l /\ j = i
<1>1. /\ QuestionAt(m, k) <= Start(m, k, j) /\ Start(m, k, j) <= QuestionAt(m, k + 1) - 5
      /\ QuestionAt(m, l) <= Start(m, l, i) /\ Start(m, l, i) <= QuestionAt(m, l + 1) - 5
      /\ QuestionAt(m, k) \in Nat /\ QuestionAt(m, k + 1) \in Nat
      /\ QuestionAt(m, l) \in Nat /\ QuestionAt(m, l + 1) \in Nat
      /\ Start(m, k, j) \in Nat
  BY NameWithin, NameLaid
<1>2. ~(k < l)
  BY <1>1, QuestionsApart, SMTT(30)
<1>3. ~(l < k)
  BY <1>1, QuestionsApart, SMTT(30)
<1>4. k = l
  BY <1>2, <1>3, LetterFields
<1>5. /\ Named(m, k) \in Nat
      /\ \A x, y \in 1..(Named(m, k) + 1) :
           x <= y => Start(m, k, x) + 2 * (y - x) <= Start(m, k, y)
  BY NameLaid
<1>6. ~(j < i) /\ ~(i < j)
  BY <1>1, <1>4, <1>5
<1>. QED
  BY <1>4, <1>5, <1>6

LEMMA RecordsApart ==
  ASSUME NEW m, IsLetter(m), NEW i \in 1..Len(m.records), NEW j \in 1..Len(m.records),
         RecordAt(m, i) = RecordAt(m, j)
  PROVE  i = j
<1>. DEFINE n == Len(m.records)
<1>1. n \in Nat /\ i \in 1..(n + 1) /\ j \in 1..(n + 1)
  BY LetterFields
<1>2. /\ RecordAt(m, i) \in Nat
      /\ i <= j => RecordAt(m, i) + (j - i) <= RecordAt(m, j)
      /\ j <= i => RecordAt(m, j) + (i - j) <= RecordAt(m, i)
  BY <1>1, RecordsLaid
<1>. QED
  BY <1>1, <1>2

\* What of which kind was laid, and where.
LEMMA LaidPlaces ==
  ASSUME NEW m, IsLetter(m), NEW p
  PROVE  p \in Laid(m) <=>
           \/ \E k \in 1..Len(m.questions) :
                \/ \E j \in 1..(Named(m, k) + 1) : p = Place(Start(m, k, j), PieceOf(m, k, j))
                \/ p = Place(QuestionAt(m, k + 1) - 4,
                             Fixed(m.questions[k].type, m.questions[k].class))
           \/ \E i \in 1..Len(m.records) : p = Place(RecordAt(m, i), m.records[i])
<1>1. DOMAIN m.questions = 1..Len(m.questions) /\ DOMAIN m.records = 1..Len(m.records)
  BY LetterFields
<1>2. ASSUME NEW k \in 1..Len(m.questions)
      PROVE  p \in LaidQuestion(m, k) <=>
               \/ \E j \in 1..(Named(m, k) + 1) : p = Place(Start(m, k, j), PieceOf(m, k, j))
               \/ p = Place(QuestionAt(m, k + 1) - 4,
                            Fixed(m.questions[k].type, m.questions[k].class))
  <2>. DEFINE q == m.questions[k] n == Named(m, k)
  <2>1. q \in Questions /\ n \in Nat /\ DOMAIN q.labels = 1..n
    BY NameLaid, QuestionFields, TextOfLabel DEF Named
  <2>2. QuestionAt(m, k + 1) - 5 = Start(m, k, n + 1)
    BY NameLaid
  <2>3. p \in LaidQuestion(m, k) <=>
          \/ \E j \in 1..n : p = Place(Start(m, k, j), q.labels[j])
          \/ p = Place(Start(m, k, n + 1), End)
          \/ p = Place(QuestionAt(m, k + 1) - 4, Fixed(q.type, q.class))
    BY <2>1, <2>2 DEF LaidQuestion, Start
  <2>4. PieceOf(m, k, n + 1) = End /\ \A j \in 1..n : PieceOf(m, k, j) = q.labels[j]
    BY <2>1 DEF PieceOf
  <2>5. \A j : j \in 1..(n + 1) <=> (j \in 1..n \/ j = n + 1)
    BY <2>1
  <2>. HIDE DEF n, q
  <2>6. p \in LaidQuestion(m, k) <=>
          \/ \E j \in 1..(n + 1) : p = Place(Start(m, k, j), PieceOf(m, k, j))
          \/ p = Place(QuestionAt(m, k + 1) - 4, Fixed(q.type, q.class))
    BY <2>3, <2>4, <2>5
  <2>. QED
    BY <2>6 DEF n, q
<1>3. p \in Laid(m) <=>
        \/ \E k \in 1..Len(m.questions) : p \in LaidQuestion(m, k)
        \/ \E i \in 1..Len(m.records) : p = Place(RecordAt(m, i), m.records[i])
  BY <1>1 DEF Laid
<1>. QED
  BY <1>2, <1>3

\* The kinds of the pieces.
LEMMA Kinds ==
  ASSUME NEW m, IsLetter(m)
  PROVE  /\ \A k \in 1..Len(m.questions) :
              /\ \A j \in 1..(Named(m, k) + 1) : PieceOf(m, k, j).kind = "label"
              /\ Fixed(m.questions[k].type, m.questions[k].class).kind = "fixed"
         /\ \A i \in 1..Len(m.records) : m.records[i].kind = "record"
<1>1. ASSUME NEW k \in 1..Len(m.questions), NEW j \in 1..(Named(m, k) + 1)
      PROVE  PieceOf(m, k, j).kind = "label"
  <2>1. m.questions[k].labels \in Seq(Labels) /\ Named(m, k) \in Nat
    BY NameLaid, QuestionFields
  <2>2. j <= Named(m, k) => j \in 1..Len(m.questions[k].labels)
    BY <2>1 DEF Named
  <2>3. \A x \in 1..Len(m.questions[k].labels) : m.questions[k].labels[x].kind = "label"
    BY <2>1, TextOfLabel
  <2>. QED
    BY <2>2, <2>3 DEF PieceOf, End, Label
<1>2. \A x, y : Fixed(x, y).kind = "fixed"
  BY DEF Fixed
<1>3. \A i \in 1..Len(m.records) : m.records[i].kind = "record"
  BY LetterFields, RecordFields
<1>. QED
  BY <1>1, <1>2, <1>3

\* Where a label starts, that label is found and nothing else.
LEMMA LabelFound ==
  ASSUME NEW m, IsLetter(m), NEW k \in 1..Len(m.questions),
         NEW j \in 1..(Named(m, k) + 1)
  PROVE  PiecesAt(m, "label", Start(m, k, j)) = {PieceOf(m, k, j)}
<1>1. ASSUME NEW p \in Laid(m), p.at = Start(m, k, j), p.piece.kind = "label"
      PROVE  p.piece = PieceOf(m, k, j)
  <2>0. PICK l \in 1..Len(m.questions) :
          \E i \in 1..(Named(m, l) + 1) : p = Place(Start(m, l, i), PieceOf(m, l, i))
    BY <1>1, LaidPlaces, Kinds DEF Place
  <2>1. PICK i \in 1..(Named(m, l) + 1) :
          p = Place(Start(m, l, i), PieceOf(m, l, i))
    BY <2>0
  <2>2. Start(m, l, i) = Start(m, k, j) /\ p.piece = PieceOf(m, l, i)
    BY <1>1, <2>1 DEF Place
  <2>. QED
    BY <2>2, LabelsApart
<1>2. Place(Start(m, k, j), PieceOf(m, k, j)) \in Laid(m)
  BY LaidPlaces
<1>3. PieceOf(m, k, j) \in PiecesAt(m, "label", Start(m, k, j))
  <2>. DEFINE p == Place(Start(m, k, j), PieceOf(m, k, j))
  <2>1. p.at = Start(m, k, j) /\ p.piece = PieceOf(m, k, j) /\ p.piece.kind = "label"
    BY Kinds DEF Place
  <2>. HIDE DEF p
  <2>2. p \in Laid(m)
    BY <1>2 DEF p
  <2>. QED
    BY <2>1, <2>2 DEF PiecesAt
<1>. QED
  BY <1>1, <1>3 DEF PiecesAt

\* Behind a name its type and class are found.
LEMMA FixedFound ==
  ASSUME NEW m, IsLetter(m), NEW k \in 1..Len(m.questions)
  PROVE  PiecesAt(m, "fixed", QuestionAt(m, k + 1) - 4)
           = {Fixed(m.questions[k].type, m.questions[k].class)}
<1>. DEFINE f(l) == Fixed(m.questions[l].type, m.questions[l].class)
<1>1. ASSUME NEW p \in Laid(m), p.at = QuestionAt(m, k + 1) - 4, p.piece.kind = "fixed"
      PROVE  p.piece = f(k)
  <2>1. PICK l \in 1..Len(m.questions) : p = Place(QuestionAt(m, l + 1) - 4, f(l))
    BY <1>1, LaidPlaces, Kinds DEF Place
  <2>2. QuestionAt(m, l + 1) - 4 = QuestionAt(m, k + 1) - 4 /\ p.piece = f(l)
    BY <1>1, <2>1 DEF Place
  <2>. DEFINE a == QuestionAt(m, k + 1) b == QuestionAt(m, l + 1)
  <2>3. Start(m, k, Named(m, k) + 1) = Start(m, l, Named(m, l) + 1)
    <3>1. /\ a \in Nat /\ Start(m, k, Named(m, k) + 1) = a - 5
          /\ b \in Nat /\ Start(m, l, Named(m, l) + 1) = b - 5
      BY NameLaid
    <3>2. b - 4 = a - 4
      BY <2>2
    <3>. HIDE DEF a, b
    <3>. QED
      BY <3>1, <3>2
  <2>4. /\ Named(m, k) + 1 \in 1..(Named(m, k) + 1)
        /\ Named(m, l) + 1 \in 1..(Named(m, l) + 1)
    <3>1. Named(m, k) \in Nat /\ Named(m, l) \in Nat
      BY NameLaid
    <3>. QED
      BY <3>1
  <2>5. k = l
    BY <2>3, <2>4, LabelsApart
  <2>. QED
    BY <2>2, <2>5
<1>2. Place(QuestionAt(m, k + 1) - 4, f(k)) \in Laid(m)
  BY LaidPlaces
<1>3. f(k) \in PiecesAt(m, "fixed", QuestionAt(m, k + 1) - 4)
  <2>. DEFINE p == Place(QuestionAt(m, k + 1) - 4, f(k))
  <2>1. p.at = QuestionAt(m, k + 1) - 4 /\ p.piece = f(k) /\ p.piece.kind = "fixed"
    BY Kinds DEF Place
  <2>. HIDE DEF p
  <2>2. p \in Laid(m)
    BY <1>2 DEF p
  <2>. QED
    BY <2>1, <2>2 DEF PiecesAt
<1>. QED
  BY <1>1, <1>3 DEF PiecesAt

\* And where a record starts, that record.
LEMMA RecordFound ==
  ASSUME NEW m, IsLetter(m), NEW i \in 1..Len(m.records)
  PROVE  PiecesAt(m, "record", RecordAt(m, i)) = {m.records[i]}
<1>1. ASSUME NEW p \in Laid(m), p.at = RecordAt(m, i), p.piece.kind = "record"
      PROVE  p.piece = m.records[i]
  <2>1. PICK j \in 1..Len(m.records) : p = Place(RecordAt(m, j), m.records[j])
    BY <1>1, LaidPlaces, Kinds DEF Place
  <2>2. RecordAt(m, j) = RecordAt(m, i) /\ p.piece = m.records[j]
    BY <1>1, <2>1 DEF Place
  <2>. QED
    BY <2>2, RecordsApart
<1>2. Place(RecordAt(m, i), m.records[i]) \in Laid(m)
  BY LaidPlaces
<1>3. m.records[i] \in PiecesAt(m, "record", RecordAt(m, i))
  <2>. DEFINE p == Place(RecordAt(m, i), m.records[i])
  <2>1. p.at = RecordAt(m, i) /\ p.piece = m.records[i] /\ p.piece.kind = "record"
    BY Kinds DEF Place
  <2>. HIDE DEF p
  <2>2. p \in Laid(m)
    BY <1>2 DEF p
  <2>. QED
    BY <2>1, <2>2 DEF PiecesAt
<1>. QED
  BY <1>1, <1>3 DEF PiecesAt

-----------------------------------------------------------------------------
(* How far a parser has come, whose variables are p, in the letter m.      *)

\* The room for labels: 10, doubled as often as 127 labels can demand.
Rooms == {10, 20, 40, 80, 160}
Firsts == [text : Seq(Words), type : Bits16, class : Bits16, size : Nat]
States ==
  [pc : {"recv", "check", "item", "label", "parsed", "dropped"},
   section : 1..4, left : Nat, loc : Nat, start : Nat,
   labels : 0..127, text : Seq(Words), room : Rooms, first : Firsts]

\* The first question of a letter, as the resolver is to see it.
FirstOf(m) ==
  LET q == m.questions[1]
  IN  IF Len(m.questions) = 0 THEN NoQuestion
      ELSE [text |-> Text(q.labels), type |-> q.type, class |-> q.class,
            size |-> QuestionSize(q)]

\* How many records come before a section.
Before(m, section) ==
  (IF section > 2 THEN m.counts[2] ELSE 0) + (IF section > 3 THEN m.counts[3] ELSE 0)

Current(p, m) == (Len(m.questions) - p.left) + 1
CurrentRecord(p, m) == (Before(m, p.section) + (m.counts[p.section] - p.left)) + 1

\* At the start of a section; counting what is left in it; at the start of
\* a piece; and at a label: offset, texts and room are what they should be.
Checking(p, m) ==
  IF p.section = 1
    THEN p.loc = HeaderSize /\ p.first = NoQuestion
    ELSE /\ p.first = FirstOf(m)
         /\ Whole(m) => p.loc = RecordAt(m, Before(m, p.section) + 1)

Counting(p, m) ==
  /\ p.left <= m.counts[p.section]
  /\ p.first = IF p.section = 1 /\ p.left = Len(m.questions) THEN NoQuestion
               ELSE FirstOf(m)

AtItem(p, m) ==
  IF p.section = 1
    THEN p.loc = QuestionAt(m, Current(p, m))
    ELSE Whole(m) => p.loc = RecordAt(m, CurrentRecord(p, m))

AtLabel(p, m) ==
  /\ p.section = 1 /\ p.left # 0
  /\ p.start = QuestionAt(m, Current(p, m))
  /\ p.labels <= Named(m, Current(p, m))
  /\ p.loc = Start(m, Current(p, m), p.labels + 1)
  /\ p.text = Joined(m.questions[Current(p, m)].labels)[p.labels]

\* Wherever the parser is.
Progress(p, m) ==
  /\ p.labels <= p.room
  /\ p.pc = "check" => Checking(p, m)
  /\ p.pc \in {"item", "label"} => Counting(p, m)
  /\ p.pc = "item" => AtItem(p, m)
  /\ p.pc = "label" => AtLabel(p, m)
  /\ p.pc = "parsed" => p.first = FirstOf(m)
  /\ p.pc = "dropped" => ~Whole(m)

\* The invariant: whoever parses has come as far as its variables say.
ParserInv ==
  /\ parser \in [Threads -> States]
  /\ \A t \in Threads :
       /\ parser[t].pc # "recv" =>
            query[t] \in DOMAIN Letters /\ Progress(parser[t], Letters[query[t]])
       /\ parser[t].labels <= parser[t].room

\* The variables of a parser, and an assignment to one of them.
LEMMA StateFields ==
  ASSUME NEW p \in States
  PROVE  /\ p.section \in 1..4 /\ p.left \in Nat /\ p.loc \in Nat /\ p.start \in Nat
         /\ p.labels \in 0..127 /\ p.text \in Seq(Words) /\ p.room \in Rooms
         /\ p.first \in Firsts
         /\ p.pc \in {"recv", "check", "item", "label", "parsed", "dropped"}
BY DEF States

LEMMA StateExcept ==
  ASSUME NEW p \in States
  PROVE  /\ \A x \in {"recv", "check", "item", "label", "parsed", "dropped"} :
              [p EXCEPT !.pc = x] \in States
         /\ \A x \in 1..4 : [p EXCEPT !.section = x] \in States
         /\ \A x \in Nat : /\ [p EXCEPT !.left = x] \in States
                           /\ [p EXCEPT !.loc = x] \in States
                           /\ [p EXCEPT !.start = x] \in States
         /\ \A x \in 0..127 : [p EXCEPT !.labels = x] \in States
         /\ \A x \in Seq(Words) : [p EXCEPT !.text = x] \in States
         /\ \A x \in Rooms : [p EXCEPT !.room = x] \in States
         /\ \A x \in Firsts : [p EXCEPT !.first = x] \in States
BY ZenonT(40) DEF States

\* Numbers of 16 bits.
LEMMA Bits16Facts ==
  /\ 0 \in Bits16 /\ 1 \in Bits16
  /\ \A x \in Bits16 : x \in Nat /\ x <= 65535
  /\ \A x \in Nat : x <= 65535 => x \in Bits16
<1>1. 2^16 = 65536
  OBVIOUS
<1>2. ASSUME NEW x \in Bits16 PROVE x \in Nat /\ x <= 65535
  BY <1>1, <1>2 DEF Bits16
<1>3. ASSUME NEW x \in Nat, x <= 65535 PROVE x \in Bits16
  <2>. DEFINE top == 2^16 - 1
  <2>1. top = 65535
    BY <1>1
  <2>2. top \in Int
    OBVIOUS
  <2>. HIDE DEF top
  <2>3. x <= top
    BY <1>3, <2>1
  <2>4. x \in 0..top
    BY <2>2, <2>3
  <2>. QED
    BY <2>4 DEF top, Bits16
<1>4. 0 \in Bits16 /\ 1 \in Bits16
  BY <1>3
<1>. QED
  BY <1>2, <1>3, <1>4

\* The first question, before there is one.
LEMMA NoQuestionType == NoQuestion \in Firsts
BY Bits16Facts, EmptySeq DEF NoQuestion, Firsts

\* The counts of the header are those of the sections.
LEMMA Counts ==
  ASSUME NEW m, IsLetter(m)
  PROVE  /\ m.counts[1] = Len(m.questions)
         /\ \A s \in 1..4 : m.counts[s] \in Nat
         /\ m.counts[2] + m.counts[3] + m.counts[4] = Len(m.records)
         /\ RecordAt(m, Len(m.records) + 1) <= BufferSize
         /\ \A k \in 1..Len(m.questions) : QuestionSize(m.questions[k]) <= 259
<1>1. /\ m.counts \in [1..4 -> Nat]
      /\ m.counts[1] = Len(m.questions)
      /\ m.counts[2] + m.counts[3] + m.counts[4] = Len(m.records)
      /\ RecordAt(m, Len(m.records) + 1) <= BufferSize
      /\ \A k \in DOMAIN m.questions : QuestionSize(m.questions[k]) <= 255 + 4
  BY DEF IsLetter
<1>. QED
  BY <1>1, LetterFields, SMTT(30)

\* No offset is behind the buffer, and the checks pass.
LEMMA WithinBuffer ==
  ASSUME NEW m, IsLetter(m)
  PROVE  /\ \A k \in 1..(Len(m.questions) + 1) : QuestionAt(m, k) <= BufferSize
         /\ \A i \in 1..(Len(m.records) + 1) : RecordAt(m, i) <= BufferSize
         /\ HeaderSize + Len(m.questions) * 4 <= BufferSize
<1>. DEFINE n == Len(m.questions) r == Len(m.records)
<1>1. n \in Nat /\ r \in Nat
  BY LetterFields
<1>2. ASSUME NEW i \in 1..(r + 1) PROVE RecordAt(m, i) <= BufferSize
  <2>. DEFINE z == r + 1
  <2>1. i \in 1..z /\ z \in 1..z /\ i <= z /\ i \in Nat /\ z \in Nat
    BY <1>1
  <2>2. /\ RecordAt(m, i) + (z - i) <= RecordAt(m, z)
        /\ RecordAt(m, i) \in Nat /\ RecordAt(m, z) \in Nat
    BY <2>1, RecordsLaid
  <2>3. RecordAt(m, z) <= BufferSize
    BY Counts
  <2>. HIDE DEF z
  <2>. QED
    BY <2>1, <2>2, <2>3 DEF BufferSize
<1>3. QuestionAt(m, n + 1) <= BufferSize
  BY <1>1, <1>2, RecordsLaid
<1>4. ASSUME NEW k \in 1..(n + 1)
      PROVE  QuestionAt(m, k) + 5 * ((n + 1) - k) <= BufferSize /\ QuestionAt(m, k) \in Nat
  <2>. DEFINE z == n + 1
  <2>1. k \in 1..z /\ z \in 1..z /\ k <= z /\ k \in Nat /\ z \in Nat
    BY <1>1
  <2>2. /\ QuestionAt(m, k) + 5 * (z - k) <= QuestionAt(m, z)
        /\ QuestionAt(m, k) \in Nat /\ QuestionAt(m, z) \in Nat
    BY <2>1, QuestionsLaid
  <2>3. QuestionAt(m, z) <= BufferSize
    BY <1>3
  <2>. HIDE DEF z
  <2>4. QuestionAt(m, k) + 5 * (z - k) <= BufferSize
    BY <2>1, <2>2, <2>3 DEF BufferSize
  <2>. QED
    BY <2>2, <2>4 DEF z
<1>5. ASSUME NEW k \in 1..(n + 1) PROVE QuestionAt(m, k) <= BufferSize
  BY <1>1, <1>4 DEF BufferSize
<1>6. HeaderSize + n * 4 <= BufferSize
  <2>1. 1 \in 1..(n + 1) /\ QuestionAt(m, 1) = HeaderSize
    BY <1>1, QuestionsLaid
  <2>2. HeaderSize + 5 * ((n + 1) - 1) <= BufferSize
    BY <1>4, <2>1
  <2>. HIDE DEF n
  <2>. QED
    BY <1>1, <2>2 DEF HeaderSize, BufferSize
<1>. QED
  BY <1>2, <1>5, <1>6

\* A section of whole records starts and ends where it should.
LEMMA SectionLaid ==
  ASSUME NEW m, IsLetter(m), NEW s \in 2..4
  PROVE  /\ Before(m, s) \in Nat /\ Before(m, 2) = 0
         /\ s < 4 => Before(m, s + 1) = Before(m, s) + m.counts[s]
         /\ Before(m, s) + m.counts[s] <= Len(m.records)
         /\ Whole(m) => RecordAt(m, Before(m, s) + 1) + m.counts[s] * 10 <= BufferSize
<1>. DEFINE a == m.counts[2] b == m.counts[3] c == m.counts[4] n == Len(m.records)
            x == Before(m, s) y == m.counts[s]
<1>1. a \in Nat /\ b \in Nat /\ c \in Nat /\ n \in Nat /\ a + b + c = n
  BY Counts, LetterFields
<1>2. /\ Before(m, 2) = 0 /\ Before(m, 3) = a /\ Before(m, 4) = a + b
  BY <1>1 DEF Before
<1>3. /\ x \in Nat /\ y \in Nat /\ x + y <= n
      /\ s < 4 => Before(m, s + 1) = x + y
  <2>. HIDE DEF a, b, c, n
  <2>1. CASE s = 2
    <3>1. x = 0 /\ y = a /\ Before(m, s + 1) = a
      BY <1>2, <2>1 DEF a
    <3>. QED
      BY <1>1, <3>1
  <2>2. CASE s = 3
    <3>1. x = a /\ y = b /\ Before(m, s + 1) = a + b
      BY <1>2, <2>2 DEF b
    <3>. QED
      BY <1>1, <3>1
  <2>3. CASE s = 4
    <3>1. x = a + b /\ y = c
      BY <1>2, <2>3 DEF c
    <3>. QED
      BY <1>1, <2>3, <3>1
  <2>. QED
    BY <2>1, <2>2, <2>3
<1>4. ASSUME Whole(m) PROVE RecordAt(m, x + 1) + y * 10 <= BufferSize
  <2>. DEFINE i == x + 1 j == (x + y) + 1
  <2>. HIDE DEF x, y, n
  <2>1. i \in 1..(n + 1) /\ j \in 1..(n + 1) /\ i <= j /\ j - i = y
    BY <1>1, <1>3
  <2>. HIDE DEF i, j
  <2>2. /\ RecordAt(m, i) + 10 * (j - i) <= RecordAt(m, j)
        /\ RecordAt(m, i) \in Nat /\ RecordAt(m, j) \in Nat
    BY <1>4, <2>1, RecordsLaid DEF n
  <2>3. RecordAt(m, j) <= BufferSize
    BY <2>1, WithinBuffer DEF n
  <2>4. RecordAt(m, i) + 10 * y <= RecordAt(m, j)
    BY <2>1, <2>2
  <2>. QED
    BY <1>3, <2>2, <2>3, <2>4 DEF BufferSize, i
<1>. QED
  BY <1>2, <1>3, <1>4

\* The check at the start of a section.
LEMMA ProgressCheck ==
  ASSUME NEW m, IsLetter(m), NEW p \in States, Progress(p, m), p.pc = "check",
         NEW x, x = IF p.loc + m.counts[p.section] * Least(p.section) > BufferSize
                      THEN "dropped" ELSE "item",
         NEW r, r = [p EXCEPT !.left = m.counts[p.section], !.pc = x]
  PROVE  r \in States /\ Progress(r, m)
<1>1. /\ p.section \in 1..4 /\ m.counts[p.section] \in Nat
      /\ x \in {"dropped", "item"}
  BY StateFields, Counts
<1>2. /\ r.section = p.section /\ r.left = m.counts[p.section] /\ r.pc = x
      /\ r.loc = p.loc /\ r.labels = p.labels /\ r.room = p.room /\ r.first = p.first
  BY DEF States
<1>3. r \in States
  <2>. DEFINE u == [p EXCEPT !.left = m.counts[p.section]]
  <2>1. u \in States
    BY <1>1, StateExcept
  <2>2. r = [u EXCEPT !.pc = x]
    OBVIOUS
  <2>. HIDE DEF u
  <2>3. [u EXCEPT !.pc = x] \in States
    BY <1>1, <2>1, StateExcept
  <2>. QED
    BY <2>2, <2>3
<1>4. Checking(p, m) /\ p.labels <= p.room
  BY DEF Progress
<1>5. CASE p.section = 1
  <2>1. m.counts[1] = Len(m.questions) /\ Len(m.questions) \in Nat
    BY Counts, LetterFields
  <2>2. p.loc = HeaderSize /\ p.first = NoQuestion
    BY <1>4, <1>5 DEF Checking
  <2>3. p.loc + m.counts[p.section] * Least(p.section) <= BufferSize
    BY <1>5, <2>1, <2>2, WithinBuffer DEF Least
  <2>4. x = "item"
    BY <1>5, <2>1, <2>2, <2>3 DEF Least, HeaderSize, BufferSize
  <2>5. Current(r, m) = 1
    BY <1>2, <1>5, <2>1 DEF Current
  <2>6. AtItem(r, m)
    BY <1>2, <1>5, <2>2, <2>5, QuestionsLaid DEF AtItem
  <2>7. Counting(r, m)
    BY <1>2, <1>5, <2>1, <2>2 DEF Counting
  <2>. QED
    BY <1>2, <1>3, <1>4, <2>4, <2>6, <2>7 DEF Progress
<1>6. CASE p.section # 1
  <2>1. p.section \in 2..4
    BY <1>1, <1>6
  <2>2. p.first = FirstOf(m) /\ (Whole(m) => p.loc = RecordAt(m, Before(m, p.section) + 1))
    BY <1>4, <1>6 DEF Checking
  <2>3. Least(p.section) = 10
    BY <1>6 DEF Least
  <2>4. Whole(m) => p.loc + m.counts[p.section] * Least(p.section) <= BufferSize
    BY <2>1, <2>2, <2>3, SectionLaid
  <2>5. Whole(m) => x = "item"
    <3>1. p.loc \in Nat /\ m.counts[p.section] * 10 \in Nat
      BY <1>1, StateFields
    <3>. QED
      BY <2>3, <2>4, <3>1 DEF BufferSize
  <2>6. CurrentRecord(r, m) = Before(m, p.section) + 1
    BY <1>1, <1>2, <2>1, SectionLaid DEF CurrentRecord
  <2>7. AtItem(r, m)
    BY <1>2, <1>6, <2>2, <2>6 DEF AtItem
  <2>8. Counting(r, m)
    BY <1>1, <1>2, <1>6, <2>2 DEF Counting
  <2>. QED
    BY <1>1, <1>2, <1>3, <1>4, <2>5, <2>7, <2>8 DEF Progress
<1>. QED
  BY <1>5, <1>6
\* A section is finished: the next one, or the end.
LEMMA ProgressNext ==
  ASSUME NEW m, IsLetter(m), NEW p \in States, Progress(p, m), p.pc = "item", p.left = 0,
         NEW r, r = IF p.section = 4 THEN [p EXCEPT !.pc = "parsed"]
                    ELSE [p EXCEPT !.pc = "check", !.section = p.section + 1]
  PROVE  r \in States /\ Progress(r, m)
<1>1. /\ p.section \in 1..4 /\ p.labels <= p.room /\ Counting(p, m) /\ AtItem(p, m)
  BY StateFields DEF Progress
<1>2. p.first = FirstOf(m)
  BY <1>1 DEF Counting, FirstOf
<1>3. CASE p.section = 4
  <2>1. r = [p EXCEPT !.pc = "parsed"]
    BY <1>3
  <2>2. r.pc = "parsed" /\ r.first = p.first /\ r.labels = p.labels /\ r.room = p.room
    BY <2>1 DEF States
  <2>3. r \in States
    BY <2>1, StateExcept
  <2>. QED
    BY <1>1, <1>2, <2>2, <2>3 DEF Progress
<1>4. CASE p.section # 4
  <2>. DEFINE s == p.section + 1
  <2>1. r = [p EXCEPT !.pc = "check", !.section = s]
    BY <1>4
  <2>2. s \in 2..4 /\ s \in 1..4
    BY <1>1, <1>4
  <2>. HIDE DEF s
  <2>3. /\ r.pc = "check" /\ r.section = s /\ r.loc = p.loc /\ r.first = p.first
        /\ r.labels = p.labels /\ r.room = p.room
    BY <2>1 DEF States
  <2>4. r \in States
    <3>. DEFINE u == [p EXCEPT !.pc = "check"]
    <3>1. u \in States
      BY StateExcept
    <3>2. r = [u EXCEPT !.section = s]
      BY <2>1
    <3>. HIDE DEF u
    <3>3. [u EXCEPT !.section = s] \in States
      BY <2>2, <3>1, StateExcept
    <3>. QED
      BY <3>2, <3>3
  <2>5. CASE p.section = 1
    <3>1. s = 2 /\ Before(m, 2) + 1 = 1
      BY <2>5 DEF s, Before
    <3>2. Current(p, m) = Len(m.questions) + 1
      BY <1>1, LetterFields DEF Current
    <3>3. p.loc = RecordAt(m, 1)
      BY <1>1, <2>5, <3>2, RecordsLaid DEF AtItem
    <3>. QED
      BY <1>1, <1>2, <2>3, <2>4, <3>1, <3>3 DEF Progress, Checking
  <2>6. CASE p.section # 1
    <3>1. p.section \in 2..4 /\ p.section < 4
      BY <1>1, <1>4, <2>6
    <3>2. /\ Before(m, s) = Before(m, p.section) + m.counts[p.section]
          /\ Before(m, p.section) \in Nat /\ m.counts[p.section] \in Nat
      BY <1>1, <3>1, SectionLaid, Counts DEF s
    <3>3. CurrentRecord(p, m) = Before(m, s) + 1
      BY <3>2 DEF CurrentRecord
    <3>4. Whole(m) => p.loc = RecordAt(m, Before(m, s) + 1)
      BY <1>1, <2>6, <3>3 DEF AtItem
    <3>5. s # 1
      BY <2>2
    <3>. QED
      BY <1>1, <1>2, <2>3, <2>4, <3>4, <3>5 DEF Progress, Checking
  <2>. QED
    BY <2>5, <2>6
<1>. QED
  BY <1>3, <1>4

\* Which question is being read.
LEMMA CurrentQuestion ==
  ASSUME NEW m, IsLetter(m), NEW p \in States, Counting(p, m), p.section = 1, p.left # 0
  PROVE  /\ Current(p, m) \in 1..Len(m.questions)
         /\ Len(m.questions) \in Nat /\ p.left \in 1..Len(m.questions)
         /\ Current(p, m) = 1 <=> p.left = Len(m.questions)
         /\ (Len(m.questions) - (p.left - 1)) + 1 = Current(p, m) + 1
<1>1. p.left <= Len(m.questions)
  BY Counts DEF Counting
<1>2. Len(m.questions) \in Nat /\ p.left \in Nat
  BY LetterFields, StateFields
<1>. QED
  BY <1>1, <1>2 DEF Current

\* The name of a question starts where the question does.
LEMMA ProgressName ==
  ASSUME NEW m, IsLetter(m), NEW p \in States, Progress(p, m),
         p.pc = "item", p.left # 0, p.section = 1,
         NEW r, r = [p EXCEPT !.pc = "label", !.start = p.loc, !.labels = 0,
                              !.text = <<>>, !.room = 10]
  PROVE  r \in States /\ Progress(r, m)
<1>. DEFINE k == Current(p, m) q == m.questions[k]
<1>1. Counting(p, m) /\ AtItem(p, m)
  BY DEF Progress
<1>2. k \in 1..Len(m.questions)
  BY <1>1, CurrentQuestion
<1>3. /\ r.pc = "label" /\ r.start = p.loc /\ r.labels = 0 /\ r.text = <<>> /\ r.room = 10
      /\ r.section = p.section /\ r.left = p.left /\ r.loc = p.loc /\ r.first = p.first
  BY DEF States
<1>4. r \in States
  <2>. DEFINE a == [p EXCEPT !.pc = "label"]
              b == [a EXCEPT !.start = p.loc]
              c == [b EXCEPT !.labels = 0]
              d == [c EXCEPT !.text = <<>>]
  <2>1. p.loc \in Nat /\ 0 \in 0..127 /\ <<>> \in Seq(Words) /\ 10 \in Rooms
    BY StateFields, EmptySeq DEF Rooms
  <2>2. r = [d EXCEPT !.room = 10]
    OBVIOUS
  <2>3. a \in States
    BY StateExcept
  <2>. HIDE DEF a
  <2>4. b \in States
    BY <2>1, <2>3, StateExcept
  <2>. HIDE DEF b
  <2>5. c \in States
    BY <2>1, <2>4, StateExcept
  <2>. HIDE DEF c
  <2>6. d \in States
    BY <2>1, <2>5, StateExcept
  <2>. HIDE DEF d
  <2>7. [d EXCEPT !.room = 10] \in States
    BY <2>1, <2>6, StateExcept
  <2>. QED
    BY <2>2, <2>7
<1>5. Current(r, m) = k
  BY <1>3 DEF Current
<1>. HIDE DEF k
<1>6. p.loc = QuestionAt(m, k) /\ Start(m, k, 1) = p.loc /\ Named(m, k) \in Nat
  BY <1>1, <1>2, NameLaid DEF AtItem, k
<1>7. Joined(q.labels)[0] = <<>>
  BY <1>2, NameLaid, QuestionFields, JoinedType DEF IsJoined
<1>8. AtLabel(r, m)
  BY <1>3, <1>5, <1>6, <1>7 DEF AtLabel
<1>9. Counting(r, m)
  BY <1>1, <1>3 DEF Counting
<1>. QED
  BY <1>3, <1>4, <1>8, <1>9 DEF Progress

\* At most 127 labels, for each of them takes two bytes or more.
LEMMA NamedBound ==
  ASSUME NEW m, IsLetter(m), NEW k \in 1..Len(m.questions)
  PROVE  Named(m, k) \in 0..127
<1>. DEFINE n == Named(m, k) q == m.questions[k]
<1>1. q \in Questions /\ n \in Nat
  BY NameLaid
<1>2. /\ LabelAt(q, 1) = 0 /\ LabelAt(q, n + 1) \in Nat
      /\ LabelAt(q, 1) + 2 * ((n + 1) - 1) <= LabelAt(q, n + 1)
  <2>1. 1 \in 1..(n + 1) /\ n + 1 \in 1..(n + 1) /\ 1 <= n + 1
    BY <1>1
  <2>. HIDE DEF q
  <2>. QED
    BY <1>1, <2>1, QuestionLaid DEF q, Named
<1>3. LabelAt(q, n + 1) + 5 <= 259
  BY Counts DEF QuestionSize, Named
<1>. DEFINE x == LabelAt(q, n + 1)
<1>. HIDE DEF n, q, x
<1>4. x \in Nat /\ 0 + 2 * ((n + 1) - 1) <= x /\ x + 5 <= 259
  BY <1>2, <1>3 DEF x
<1>5. n \in 0..127
  BY <1>1, <1>4
<1>. QED
  BY <1>5 DEF n

\* What a read of the next label finds.
LEMMA NextLabel ==
  ASSUME NEW m, IsLetter(m), NEW p \in States, Progress(p, m), p.pc = "label"
  PROVE  LET k == Current(p, m)
         IN  /\ k \in 1..Len(m.questions) /\ p.labels + 1 \in 1..(Named(m, k) + 1)
             /\ p.loc = Start(m, k, p.labels + 1)
             /\ PiecesAt(m, "label", p.loc) = {PieceOf(m, k, p.labels + 1)}
             /\ PieceOf(m, k, p.labels + 1).len # 0 <=> p.labels < Named(m, k)
<1>. DEFINE k == Current(p, m) j == p.labels + 1
<1>1. Counting(p, m) /\ AtLabel(p, m)
  BY DEF Progress
<1>2. k \in 1..Len(m.questions)
  BY <1>1, CurrentQuestion DEF AtLabel
<1>. HIDE DEF k
<1>3. p.labels \in Nat /\ Named(m, k) \in Nat /\ p.labels <= Named(m, k)
  <2>1. p.labels \in 0..127
    BY StateFields
  <2>2. Named(m, k) \in Nat
    BY <1>2, NameLaid
  <2>3. p.labels <= Named(m, k)
    BY <1>1 DEF AtLabel, k
  <2>. QED
    BY <2>1, <2>2, <2>3
<1>4. j \in 1..(Named(m, k) + 1) /\ (j <= Named(m, k) <=> p.labels < Named(m, k))
  BY <1>3
<1>5. p.loc = Start(m, k, j)
  BY <1>1 DEF AtLabel, k
<1>. HIDE DEF j
<1>6. PiecesAt(m, "label", p.loc) = {PieceOf(m, k, j)}
  BY <1>2, <1>4, <1>5, LabelFound
<1>7. PieceOf(m, k, j).len # 0 <=> j <= Named(m, k)
  <2>1. m.questions[k].labels \in Seq(Labels)
    BY <1>2, NameLaid, QuestionFields
  <2>2. ASSUME j <= Named(m, k) PROVE m.questions[k].labels[j].len \in 1..255
    <3>1. j \in 1..Len(m.questions[k].labels)
      BY <1>3, <1>4, <2>2 DEF Named
    <3>. QED
      BY <2>1, <3>1, TextOfLabel
  <2>3. \A x \in 1..255 : x # 0
    OBVIOUS
  <2>4. End.len = 0
    BY DEF End, Label
  <2>. QED
    BY <2>2, <2>3, <2>4 DEF PieceOf
<1>. QED
  BY <1>2, <1>4, <1>5, <1>6, <1>7 DEF k, j

\* The size of a question is a number.
LEMMA QuestionSizeType ==
  ASSUME NEW q \in Questions
  PROVE  QuestionSize(q) \in Nat
<1>. DEFINE n == Len(q.labels)
<1>1. n \in Nat /\ \A j \in 1..(n + 1) : LabelAt(q, j) \in Nat
  BY QuestionLaid
<1>. HIDE DEF n
<1>2. LabelAt(q, n + 1) \in Nat
  BY <1>1
<1>. QED
  BY <1>2 DEF QuestionSize, n

\* The array of labels is grown before it is full.
LEMMA RoomGrows ==
  ASSUME NEW n \in 0..126, NEW room \in Rooms, n <= room
  PROVE  Room(n, room) \in Rooms /\ n + 1 <= Room(n, room)
<1>1. CASE n # room
  <2>1. room \in Int /\ n + 1 <= room
    BY <1>1 DEF Rooms
  <2>. QED
    BY <1>1, <2>1 DEF Room
<1>2. CASE n = room
  <2>1. room \in {10, 20, 40, 80}
    BY <1>2 DEF Rooms
  <2>2. Room(n, room) = (2 * room) % 256
    BY <1>2 DEF Room
  <2>. QED
    BY <1>2, <2>1, <2>2 DEF Rooms
<1>. QED
  BY <1>1, <1>2

\* The variables of the parser behind a label.
BehindLabel(p, label) ==
  LET loc == p.loc + Advance(label)
  IN  [p EXCEPT !.room = Room(p.labels, p.room), !.labels = p.labels + 1,
                !.text = p.text \o label.text, !.loc = loc,
                !.pc = IF loc > BufferSize THEN "dropped" ELSE "label"]

\* A label is read: the next one starts behind it.
LEMMA ProgressLabel ==
  ASSUME NEW m, IsLetter(m), NEW p \in States, Progress(p, m), p.pc = "label",
         NEW label \in PiecesAt(m, "label", p.loc), label.len # 0
  PROVE  BehindLabel(p, label) \in States /\ Progress(BehindLabel(p, label), m)
<1>. DEFINE k == Current(p, m) j == p.labels + 1 q == m.questions[k]
            x == p.loc + Advance(label) r == BehindLabel(p, label)
<1>1. /\ k \in 1..Len(m.questions) /\ j \in 1..(Named(m, k) + 1)
      /\ p.loc = Start(m, k, j) /\ label = PieceOf(m, k, j) /\ p.labels < Named(m, k)
  BY NextLabel
<1>2. Counting(p, m) /\ AtLabel(p, m) /\ p.labels <= p.room
  BY DEF Progress
<1>. HIDE DEF k
<1>3. /\ p.labels \in Nat /\ Named(m, k) \in 0..127 /\ j \in 1..Named(m, k)
      /\ p.labels \in 0..126 /\ j \in 1..127
  <2>. DEFINE n == Named(m, k) l == p.labels
  <2>1. l \in 0..127 /\ n \in 0..127 /\ l < n
    BY <1>1, StateFields, NamedBound
  <2>. HIDE DEF n, l
  <2>2. /\ l \in Nat /\ n \in 0..127 /\ l + 1 \in 1..n
        /\ l \in 0..126 /\ l + 1 \in 1..127
    BY <2>1
  <2>. QED
    BY <2>2 DEF n, l
<1>4. label = q.labels[j] /\ q.labels[j].text \in Seq(Words)
  <2>1. q.labels \in Seq(Labels) /\ Named(m, k) = Len(q.labels)
    BY <1>1, NameLaid, QuestionFields DEF Named
  <2>2. j <= Named(m, k)
    BY <1>3
  <2>. HIDE DEF j, q
  <2>. QED
    BY <1>1, <1>3, <2>1, <2>2, TextOfLabel DEF PieceOf, q
<1>5. Room(p.labels, p.room) \in Rooms /\ j <= Room(p.labels, p.room)
  BY <1>2, <1>3, StateFields, RoomGrows
<1>6. x = Start(m, k, j + 1) /\ x \in Nat /\ x <= BufferSize
  <2>1. Start(m, k, j + 1) = Start(m, k, j) + (label.len + 1)
    BY <1>1, <1>3, <1>4, NameLaid
  <2>2. x = Start(m, k, j) + (label.len + 1)
    BY <1>1 DEF Advance
  <2>3. j + 1 \in 1..(Named(m, k) + 1)
    BY <1>3
  <2>4. /\ Start(m, k, j + 1) \in Nat /\ QuestionAt(m, k + 1) \in Nat
        /\ Start(m, k, j + 1) <= QuestionAt(m, k + 1) - 5
    BY <1>1, <2>3, NameLaid, NameWithin
  <2>5. QuestionAt(m, k + 1) <= BufferSize
    <3>1. k + 1 \in 1..(Len(m.questions) + 1)
      BY <1>1, LetterFields
    <3>. QED
      BY <3>1, WithinBuffer
  <2>6. x = Start(m, k, j + 1)
    BY <2>1, <2>2
  <2>. HIDE DEF j
  <2>. QED
    BY <2>4, <2>5, <2>6 DEF BufferSize
<1>7. ~(x > BufferSize)
  BY <1>6 DEF BufferSize
<1>8. p.text \o label.text = Joined(q.labels)[j] /\ p.text \o label.text \in Seq(Words)
  <2>1. q.labels \in Seq(Labels) /\ Named(m, k) = Len(q.labels)
    BY <1>1, NameLaid, QuestionFields DEF Named
  <2>2. IsJoined(Joined(q.labels), q.labels, Named(m, k))
    BY <2>1, JoinedType
  <2>3. Joined(q.labels)[j] = Joined(q.labels)[j - 1] \o q.labels[j].text
    <3>. HIDE DEF j, q
    <3>. QED
      BY <1>3, <2>2 DEF IsJoined
  <2>6. j - 1 = p.labels
    BY <1>3
  <2>4. p.text = Joined(q.labels)[p.labels] /\ p.text \in Seq(Words)
    BY <1>2, StateFields DEF AtLabel, k
  <2>5. p.text \o label.text \in Seq(Words)
    BY <1>4, <2>4, ConcatProperties
  <2>. HIDE DEF j, q
  <2>. QED
    BY <1>4, <2>3, <2>4, <2>5, <2>6
<1>. DEFINE text == p.text \o label.text room == Room(p.labels, p.room)
<1>9. r = [p EXCEPT !.room = room, !.labels = j, !.text = text, !.loc = x, !.pc = "label"]
  BY <1>7 DEF BehindLabel
<1>. HIDE DEF j, q, x, r, text, room
<1>10. /\ r.pc = "label" /\ r.labels = j /\ r.text = text /\ r.room = room /\ r.loc = x
       /\ r.section = p.section /\ r.left = p.left /\ r.first = p.first
       /\ r.start = p.start
  BY <1>9 DEF States
<1>11. r \in States
  <2>. DEFINE a == [p EXCEPT !.room = room]
              b == [a EXCEPT !.labels = j]
              c == [b EXCEPT !.text = text]
              d == [c EXCEPT !.loc = x]
  <2>1. room \in Rooms /\ j \in 0..127 /\ text \in Seq(Words) /\ x \in Nat
    BY <1>3, <1>5, <1>6, <1>8 DEF room, text
  <2>2. r = [d EXCEPT !.pc = "label"]
    BY <1>9
  <2>3. a \in States
    BY <2>1, StateExcept
  <2>. HIDE DEF a
  <2>4. b \in States
    BY <2>1, <2>3, StateExcept
  <2>. HIDE DEF b
  <2>5. c \in States
    BY <2>1, <2>4, StateExcept
  <2>. HIDE DEF c
  <2>6. d \in States
    BY <2>1, <2>5, StateExcept
  <2>. HIDE DEF d
  <2>7. [d EXCEPT !.pc = "label"] \in States
    BY <2>6, StateExcept
  <2>. QED
    BY <2>2, <2>7
<1>12. Current(r, m) = k
  BY <1>10 DEF Current, k
<1>13. AtLabel(r, m)
  <2>1. j <= Named(m, k)
    BY <1>3
  <2>. QED
    BY <1>2, <1>6, <1>8, <1>10, <1>12, <2>1 DEF AtLabel, k, text, q
<1>14. Counting(r, m)
  BY <1>2, <1>10 DEF Counting
<1>. QED
  BY <1>5, <1>10, <1>11, <1>13, <1>14 DEF Progress, room, r

\* What the resolver may be asked for.
LEMMA FirstOfType ==
  ASSUME NEW m, IsLetter(m)
  PROVE  FirstOf(m) \in Firsts
<1>1. CASE Len(m.questions) = 0
  BY <1>1, NoQuestionType DEF FirstOf
<1>2. CASE Len(m.questions) # 0
  <2>. DEFINE f == m.questions[1]
  <2>1. 1 \in 1..Len(m.questions)
    BY <1>2, LetterFields
  <2>2. f \in Questions
    BY <2>1, NameLaid
  <2>3. Text(f.labels) \in Seq(Words)
    <3>. DEFINE l == f.labels
    <3>1. l \in Seq(Labels) /\ Len(l) \in 0..Len(l)
      BY <2>2, QuestionFields, TextOfLabel
    <3>. HIDE DEF l
    <3>2. IsJoined(Joined(l), l, Len(l))
      BY <3>1, JoinedType
    <3>3. Text(l) \in Seq(Words)
      BY <3>1, <3>2 DEF Text, IsJoined
    <3>. QED
      BY <3>3 DEF l
  <2>4. QuestionSize(f) \in Nat
    BY <2>2, QuestionSizeType
  <2>5. f.type \in Bits16 /\ f.class \in Bits16
    BY <2>2, QuestionFields
  <2>6. FirstOf(m) = [text |-> Text(f.labels), type |-> f.type, class |-> f.class,
                      size |-> QuestionSize(f)]
    BY <1>2 DEF FirstOf
  <2>. HIDE DEF f
  <2>. QED
    BY <2>3, <2>4, <2>5, <2>6 DEF Firsts
<1>. QED
  BY <1>1, <1>2

\* The variables of the parser behind a question.
BehindQuestion(p, fixed) ==
  LET question == [text |-> p.text, type |-> fixed.type, class |-> fixed.class,
                   size |-> p.loc + 5 - p.start]
  IN  [p EXCEPT !.pc = "item", !.left = p.left - 1, !.loc = p.loc + 5,
                !.first = IF p.start = HeaderSize THEN question ELSE p.first]

\* The name ends, and the next question starts behind its type and class.
LEMMA ProgressQuestion ==
  ASSUME NEW m, IsLetter(m), NEW p \in States, Progress(p, m), p.pc = "label",
         \E label \in PiecesAt(m, "label", p.loc) : label.len = 0,
         NEW fixed, PiecesAt(m, "fixed", p.loc + 1) # {} =>
                      fixed \in PiecesAt(m, "fixed", p.loc + 1)
  PROVE  BehindQuestion(p, fixed) \in States /\ Progress(BehindQuestion(p, fixed), m)
<1>. DEFINE k == Current(p, m) q == m.questions[k] r == BehindQuestion(p, fixed)
            x == r.first
<1>1. /\ k \in 1..Len(m.questions)
      /\ p.loc = Start(m, k, p.labels + 1)
      /\ ~(p.labels < Named(m, k))
  BY NextLabel
<1>2. Counting(p, m) /\ AtLabel(p, m) /\ p.labels <= p.room
  BY DEF Progress
<1>3. /\ Len(m.questions) \in Nat /\ p.left \in 1..Len(m.questions)
      /\ k = 1 <=> p.left = Len(m.questions)
      /\ (Len(m.questions) - (p.left - 1)) + 1 = k + 1
  BY <1>2, CurrentQuestion DEF AtLabel
<1>. HIDE DEF k
<1>4. p.labels = Named(m, k)
  <2>. DEFINE n == Named(m, k) l == p.labels
  <2>1. l \in 0..127 /\ n \in 0..127 /\ l <= n /\ ~(l < n)
    BY <1>1, <1>2, StateFields, NamedBound DEF AtLabel, k
  <2>. HIDE DEF n, l
  <2>2. l = n
    BY <2>1
  <2>. QED
    BY <2>2 DEF n, l
<1>. DEFINE a == QuestionAt(m, k) b == QuestionAt(m, k + 1)
<1>5. a \in Nat /\ b \in Nat /\ p.loc = b - 5 /\ p.start = a
  BY <1>1, <1>2, <1>4, NameLaid DEF AtLabel, k
<1>6. b = a + QuestionSize(q)
  BY <1>1, QuestionsLaid
<1>7. QuestionSize(q) \in Nat
  BY <1>1, NameLaid, QuestionSizeType
<1>8. p.loc + 1 = b - 4 /\ p.loc + 5 = b
  <2>. HIDE DEF b
  <2>. QED
    BY <1>5
<1>9. fixed = Fixed(q.type, q.class)
  <2>1. PiecesAt(m, "fixed", b - 4) = {Fixed(q.type, q.class)}
    BY <1>1, FixedFound
  <2>. HIDE DEF b, q
  <2>. QED
    BY <1>8, <2>1
<1>10. fixed.type = q.type /\ fixed.class = q.class
  BY <1>9 DEF Fixed
<1>11. k = 1 <=> a = HeaderSize
  <2>. DEFINE n == Len(m.questions)
  <2>1. /\ 1 \in 1..(n + 1) /\ k \in 1..(n + 1) /\ 1 <= k
        /\ QuestionAt(m, 1) = HeaderSize
    BY <1>1, <1>3, QuestionsLaid
  <2>2. QuestionAt(m, 1) + 5 * (k - 1) <= a
    BY <2>1, QuestionsLaid
  <2>. HIDE DEF a, n
  <2>3. HeaderSize + 5 * (k - 1) <= a /\ k \in Nat /\ 1 <= k
    BY <2>1, <2>2
  <2>4. k # 1 => a # HeaderSize
    BY <1>5, <2>3 DEF HeaderSize
  <2>. QED
    BY <2>1, <2>4 DEF a
<1>0. x = IF p.start = HeaderSize
            THEN [text |-> p.text, type |-> fixed.type, class |-> fixed.class,
                  size |-> p.loc + 5 - p.start]
            ELSE p.first
  BY DEF BehindQuestion, States
<1>12. x = FirstOf(m)
  <2>. HIDE DEF x
  <2>1. CASE k = 1
    <3>1. p.text = Text(q.labels)
      BY <1>2, <1>4 DEF AtLabel, Text, Named, k
    <3>2. p.loc + 5 - p.start = QuestionSize(q)
      <4>. DEFINE z == QuestionSize(q)
      <4>. HIDE DEF a, b, z
      <4>1. p.loc + 5 = b /\ p.start = a /\ b = a + z
        BY <1>5, <1>6, <1>8 DEF z
      <4>2. z \in Nat /\ a \in Nat
        BY <1>5, <1>7 DEF z
      <4>3. b - a = z
        BY <4>1, <4>2
      <4>4. (p.loc + 5) - p.start = b - a
        BY <4>1
      <4>5. p.loc \in Nat /\ p.start \in Nat
        BY StateFields
      <4>6. p.loc + 5 - p.start = (p.loc + 5) - p.start
        BY <4>5
      <4>. QED
        BY <4>3, <4>4, <4>6 DEF z
    <3>3. Len(m.questions) # 0 /\ q = m.questions[1]
      BY <1>3, <2>1
    <3>. QED
      BY <1>0, <1>5, <1>10, <1>11, <2>1, <3>1, <3>2, <3>3 DEF FirstOf
  <2>2. CASE k # 1
    <3>1. p.first = FirstOf(m)
      BY <1>2, <1>3, <2>2 DEF Counting
    <3>. QED
      BY <1>0, <1>5, <1>11, <2>2, <3>1
  <2>. QED
    BY <2>1, <2>2
<1>13. /\ r.pc = "item" /\ r.left = p.left - 1 /\ r.loc = p.loc + 5 /\ r.first = x
       /\ r.labels = p.labels /\ r.room = p.room /\ r.section = p.section
  BY DEF States, BehindQuestion
<1>14. FirstOf(m) \in Firsts
  BY FirstOfType
<1>15. r \in States
  <2>. HIDE DEF x
  <2>. DEFINE c == [p EXCEPT !.pc = "item"]
              d == [c EXCEPT !.left = p.left - 1]
              e == [d EXCEPT !.loc = p.loc + 5]
  <2>1. p.left - 1 \in Nat /\ p.loc + 5 \in Nat /\ x \in Firsts
    <3>1. p.loc \in Nat /\ x \in Firsts
      BY <1>12, <1>14, StateFields
    <3>. QED
      BY <1>3, <3>1
  <2>2. r = [e EXCEPT !.first = x]
    BY <1>0 DEF BehindQuestion
  <2>3. c \in States
    BY StateExcept
  <2>. HIDE DEF c
  <2>4. d \in States
    BY <2>1, <2>3, StateExcept
  <2>. HIDE DEF d
  <2>5. e \in States
    BY <2>1, <2>4, StateExcept
  <2>. HIDE DEF e
  <2>6. [e EXCEPT !.first = x] \in States
    BY <2>1, <2>5, StateExcept
  <2>. QED
    BY <2>2, <2>6
<1>16. Current(r, m) = k + 1
  BY <1>3, <1>13 DEF Current
<1>17. AtItem(r, m)
  BY <1>2, <1>8, <1>13, <1>16 DEF AtItem, AtLabel
<1>18. Counting(r, m)
  <2>1. r.left <= m.counts[r.section] /\ r.left # Len(m.questions)
    BY <1>2, <1>3, <1>13, Counts DEF AtLabel
  <2>. QED
    BY <1>12, <1>13, <2>1 DEF Counting
<1>. QED
  BY <1>2, <1>13, <1>15, <1>17, <1>18 DEF Progress

\* Whatever of the kind of a record is found is one, and so is what may be
\* read where none was written.
LEMMA RecordsThere ==
  ASSUME NEW m, IsLetter(m), NEW o, NEW record \in PiecesAt(m, "record", o)
  PROVE  record.name \in Nat /\ record.data \in Nat
<1>1. PICK p \in Laid(m) : p.piece.kind = "record" /\ record = p.piece
  BY DEF PiecesAt
<1>2. PICK i \in 1..Len(m.records) : p = Place(RecordAt(m, i), m.records[i])
  BY <1>1, LaidPlaces, Kinds DEF Place
<1>3. record = m.records[i]
  BY <1>1, <1>2 DEF Place
<1>. QED
  BY <1>3, LetterFields, RecordFields

\* The fields of a scrap that is taken for a record are numbers.
LEMMA JunkRecords ==
  ASSUME NEW record \in Junk("record")
  PROVE  record.name \in Nat /\ record.data \in Nat
<1>1. Junk("record") = {Record(n + 1, d) : n \in Leftover, d \in Leftover}
  BY DEF Junk
<1>2. PICK n \in Leftover, d \in Leftover : record = Record(n + 1, d)
  BY <1>1
<1>3. n \in Nat /\ d \in Nat
  BY DnsParserAssumption
<1>4. record.name = n + 1 /\ record.data = d
  BY <1>2 DEF Record
<1>. QED
  BY <1>3, <1>4

\* The variables of the parser behind a record.
BehindRecord(p, record) ==
  [p EXCEPT !.left = p.left - 1, !.loc = p.loc + record.name + 10 + record.data]

\* Which record is being read.
LEMMA CurrentRecordIs ==
  ASSUME NEW m, IsLetter(m), NEW p \in States, Counting(p, m), p.section # 1, p.left # 0
  PROVE  /\ CurrentRecord(p, m) \in 1..Len(m.records)
         /\ (Before(m, p.section) + (m.counts[p.section] - (p.left - 1))) + 1
              = CurrentRecord(p, m) + 1
         /\ p.left - 1 \in Nat /\ p.left - 1 <= m.counts[p.section]
<1>. DEFINE b == Before(m, p.section) c == m.counts[p.section] l == p.left
            n == Len(m.records)
<1>1. p.section \in 2..4
  BY StateFields
<1>2. b \in Nat /\ c \in Nat /\ l \in Nat /\ b + c <= n /\ l <= c /\ l # 0 /\ n \in Nat
  BY <1>1, StateFields, SectionLaid, Counts, LetterFields DEF Counting
<1>3. CurrentRecord(p, m) = (b + (c - l)) + 1
  BY DEF CurrentRecord
<1>. HIDE DEF b, c, l, n
<1>4. /\ (b + (c - l)) + 1 \in 1..n
      /\ (b + (c - (l - 1))) + 1 = ((b + (c - l)) + 1) + 1
      /\ l - 1 \in Nat /\ l - 1 <= c
  BY <1>2
<1>. QED
  BY <1>3, <1>4 DEF b, c, l, n

\* A record is read: the next one starts behind it, if it is whole.
LEMMA ProgressRecord ==
  ASSUME NEW m, IsLetter(m), NEW p \in States, Progress(p, m),
         p.pc = "item", p.left # 0, p.section # 1,
         NEW record, record.name \in Nat, record.data \in Nat,
         PiecesAt(m, "record", p.loc) # {} => record \in PiecesAt(m, "record", p.loc)
  PROVE  BehindRecord(p, record) \in States /\ Progress(BehindRecord(p, record), m)
<1>. DEFINE r == BehindRecord(p, record) k == CurrentRecord(p, m)
            x == p.loc + record.name + 10 + record.data
<1>1. Counting(p, m) /\ AtItem(p, m) /\ p.labels <= p.room
  BY DEF Progress
<1>2. /\ k \in 1..Len(m.records) /\ p.left - 1 \in Nat
      /\ p.left - 1 <= m.counts[p.section]
      /\ (Before(m, p.section) + (m.counts[p.section] - (p.left - 1))) + 1 = k + 1
  BY <1>1, CurrentRecordIs
<1>. HIDE DEF k
<1>3. x \in Nat
  <2>1. p.loc \in Nat
    BY StateFields
  <2>. QED
    BY <2>1
<1>4. /\ r.pc = "item" /\ r.left = p.left - 1 /\ r.loc = x /\ r.first = p.first
      /\ r.labels = p.labels /\ r.room = p.room /\ r.section = p.section
  BY DEF States, BehindRecord
<1>5. r \in States
  <2>. DEFINE a == [p EXCEPT !.left = p.left - 1]
  <2>1. a \in States
    BY <1>2, StateExcept
  <2>2. r = [a EXCEPT !.loc = x]
    BY DEF BehindRecord
  <2>. HIDE DEF a, x
  <2>3. [a EXCEPT !.loc = x] \in States
    BY <1>3, <2>1, StateExcept
  <2>. QED
    BY <2>2, <2>3
<1>6. ASSUME Whole(m) PROVE x = RecordAt(m, k + 1)
  <2>1. p.loc = RecordAt(m, k)
    BY <1>1, <1>6 DEF AtItem, k
  <2>2. record = m.records[k]
    <3>1. PiecesAt(m, "record", p.loc) = {m.records[k]}
      BY <1>2, <2>1, RecordFound
    <3>. QED
      BY <3>1
  <2>3. record.size = record.name + 10 + record.data
    BY <1>2, <1>6, <2>2, LetterFields DEF Whole
  <2>4. RecordAt(m, k + 1) = RecordAt(m, k) + record.size /\ RecordAt(m, k) \in Nat
    <3>1. k \in 1..(Len(m.records) + 1)
      BY <1>2, LetterFields
    <3>. QED
      BY <1>2, <2>2, <3>1, RecordsLaid
  <2>. QED
    BY <2>1, <2>3, <2>4
<1>. HIDE DEF x, r
<1>7. CurrentRecord(r, m) = k + 1
  BY <1>2, <1>4 DEF CurrentRecord
<1>8. AtItem(r, m)
  BY <1>4, <1>6, <1>7 DEF AtItem
<1>9. Counting(r, m)
  BY <1>1, <1>2, <1>4 DEF Counting
<1>. QED
  BY <1>1, <1>4, <1>5, <1>8, <1>9 DEF Progress, r

\* At a label there is a label.
LEMMA LabelThere ==
  ASSUME NEW m, IsLetter(m), NEW p \in States, Progress(p, m), p.pc = "label"
  PROVE  PiecesAt(m, "label", p.loc) # {}
<1>1. PiecesAt(m, "label", p.loc) = {PieceOf(m, Current(p, m), p.labels + 1)}
  BY NextLabel
<1>. QED
  BY <1>1

-----------------------------------------------------------------------------
(* The parsers of all threads.                                             *)

\* What a thread parses is a letter, piece by piece.
LEMMA InputIs ==
  ASSUME NEW t \in Threads, query[t] \in DOMAIN Letters
  PROVE  LET m == Letters[query[t]]
         IN  /\ IsLetter(m)
             /\ Input(t).counts = m.counts
             /\ Input(t).whole <=> Whole(m)
             /\ \A kind, o : There(t, kind, o) = PiecesAt(m, kind, o)
<1>. DEFINE m == Letters[query[t]]
<1>1. IsLetter(m)
  BY DnsParserAssumption
<1>2. Input(t) = Message(m)
  BY DEF Input, Messages
<1>. HIDE DEF m
<1>3. /\ Message(m).bytes = Laid(m) /\ Message(m).counts = m.counts
      /\ Message(m).whole <=> Whole(m)
  BY DEF Message, Whole
<1>4. \A kind, o : There(t, kind, o) = PiecesAt(m, kind, o)
  BY <1>2, <1>3 DEF There, PiecesAt
<1>. QED
  BY <1>1, <1>2, <1>3, <1>4 DEF m

\* Every step of a parser keeps its progress.
LEMMA ParserStep ==
  ASSUME ParserInv, NEW t \in Threads, ~At(t, "recv"),
         NEW r \in States, parser' = [parser EXCEPT ![t] = r], UNCHANGED query,
         Progress(r, Letters[query[t]])
  PROVE  ParserInv'
<1>1. parser \in [Threads -> States]
  BY DEF ParserInv
<1>2. parser' \in [Threads -> States]
  BY <1>1
<1>3. parser'[t] = r /\ \A u \in Threads \ {t} : parser'[u] = parser[u]
  BY <1>1
<1>4. query[t] \in DOMAIN Letters /\ r.labels <= r.room
  BY DEF ParserInv, At, Progress
<1>5. ASSUME NEW u \in Threads
      PROVE  /\ parser'[u].pc # "recv" =>
                  query'[u] \in DOMAIN Letters /\ Progress(parser'[u], Letters[query'[u]])
             /\ parser'[u].labels <= parser'[u].room
  <2>1. CASE u = t
    BY <1>3, <1>4, <2>1
  <2>2. CASE u # t
    BY <1>3, <2>2 DEF ParserInv
  <2>. QED
    BY <2>1, <2>2
<1>. QED
  BY <1>2, <1>5 DEF ParserInv

\* What every thread inside the parser knows.
LEMMA Inside ==
  ASSUME ParserInv, NEW t \in Threads, ~At(t, "recv")
  PROVE  /\ parser[t] \in States /\ query[t] \in DOMAIN Letters
         /\ Progress(parser[t], Letters[query[t]])
         /\ IsLetter(Letters[query[t]])
BY InputIs DEF ParserInv, At

\* And nothing that a thread does disturbs another's.
LEMMA ParseStays ==
  ASSUME ParserInv, NEW t \in Threads, Parse(t)
  PROVE  ParserInv'
<1>. DEFINE p == parser[t] m == Letters[query[t]]
<1>1. ~At(t, "recv")
  BY DEF Parse, CheckSection, NextSection, StartName, ReadLabel, ReadQuestion,
         ReadRecord, At
<1>2. /\ p \in States /\ Progress(p, m) /\ IsLetter(m)
      /\ Input(t).counts = m.counts
      /\ \A kind, o : There(t, kind, o) = PiecesAt(m, kind, o)
  BY <1>1, Inside, InputIs
<1>3. parser \in [Threads -> States]
  BY DEF ParserInv
<1>4. CASE CheckSection(t)
  <2>. DEFINE x == IF p.loc + m.counts[p.section] * Least(p.section) > BufferSize
                     THEN "dropped" ELSE "item"
              r == [p EXCEPT !.left = m.counts[p.section], !.pc = x]
  <2>1. p.pc = "check" /\ UNCHANGED query
    BY <1>4 DEF CheckSection, At
  <2>2. parser' = [parser EXCEPT ![t] = r]
    BY <1>2, <1>3, <1>4 DEF CheckSection
  <2>3. r \in States /\ Progress(r, m)
    BY <1>2, <2>1, ProgressCheck
  <2>. HIDE DEF r
  <2>. QED
    BY <1>1, <2>1, <2>2, <2>3, ParserStep
<1>5. CASE NextSection(t)
  <2>. DEFINE r == IF p.section = 4 THEN [p EXCEPT !.pc = "parsed"]
                   ELSE [p EXCEPT !.pc = "check", !.section = p.section + 1]
  <2>1. p.pc = "item" /\ p.left = 0 /\ UNCHANGED query
    BY <1>5 DEF NextSection, At
  <2>2. parser' = [parser EXCEPT ![t] = r]
    BY <1>3, <1>5 DEF NextSection
  <2>3. r \in States /\ Progress(r, m)
    BY <1>2, <2>1, ProgressNext
  <2>. HIDE DEF r
  <2>. QED
    BY <1>1, <2>1, <2>2, <2>3, ParserStep
<1>6. CASE StartName(t)
  <2>. DEFINE r == [p EXCEPT !.pc = "label", !.start = p.loc, !.labels = 0,
                             !.text = <<>>, !.room = 10]
  <2>1. p.pc = "item" /\ p.left # 0 /\ p.section = 1 /\ UNCHANGED query
    BY <1>6 DEF StartName, At
  <2>2. parser' = [parser EXCEPT ![t] = r]
    BY <1>3, <1>6 DEF StartName
  <2>3. r \in States /\ Progress(r, m)
    BY <1>2, <2>1, ProgressName
  <2>. HIDE DEF r
  <2>. QED
    BY <1>1, <2>1, <2>2, <2>3, ParserStep
<1>7. CASE ReadLabel(t)
  <2>1. p.pc = "label" /\ UNCHANGED query
    BY <1>7 DEF ReadLabel, At
  <2>0. PICK label \in Found(t, "label", p.loc) :
          LET loc == p.loc + Advance(label)
          IN  /\ label.len # 0
              /\ parser' = [parser EXCEPT
                   ![t].room = Room(p.labels, p.room), ![t].labels = @ + 1,
                   ![t].text = @ \o label.text, ![t].loc = loc,
                   ![t].pc = IF loc > BufferSize THEN "dropped" ELSE "label"]
    BY <1>7, Zenon DEF ReadLabel
  <2>2. label.len # 0 /\ parser' = [parser EXCEPT ![t] = BehindLabel(p, label)]
    BY <1>3, <2>0 DEF BehindLabel
  <2>3. PiecesAt(m, "label", p.loc) # {}
    BY <1>2, <2>1, LabelThere
  <2>4. label \in PiecesAt(m, "label", p.loc)
    BY <1>2, <2>2, <2>3 DEF Found
  <2>5. BehindLabel(p, label) \in States /\ Progress(BehindLabel(p, label), m)
    BY <1>2, <2>1, <2>2, <2>4, ProgressLabel
  <2>. QED
    BY <1>1, <2>1, <2>2, <2>5, ParserStep
<1>8. CASE ReadQuestion(t)
  <2>1. p.pc = "label" /\ UNCHANGED query
    BY <1>8 DEF ReadQuestion, At
  <2>2. \E label \in Found(t, "label", p.loc) : label.len = 0
    BY <1>8 DEF ReadQuestion
  <2>3. PICK fixed \in Found(t, "fixed", p.loc + 1) :
          parser' = [parser EXCEPT ![t] = BehindQuestion(p, fixed)]
    BY <1>3, <1>8, ZenonT(40) DEF ReadQuestion, BehindQuestion
  <2>4. PiecesAt(m, "label", p.loc) # {}
    BY <1>2, <2>1, LabelThere
  <2>5. \E label \in PiecesAt(m, "label", p.loc) : label.len = 0
    BY <1>2, <2>2, <2>4 DEF Found
  <2>6. PiecesAt(m, "fixed", p.loc + 1) # {} => fixed \in PiecesAt(m, "fixed", p.loc + 1)
    BY <1>2, <2>3 DEF Found
  <2>7. BehindQuestion(p, fixed) \in States /\ Progress(BehindQuestion(p, fixed), m)
    BY <1>2, <2>1, <2>5, <2>6, ProgressQuestion
  <2>. QED
    BY <1>1, <2>1, <2>3, <2>7, ParserStep
<1>9. CASE ReadRecord(t)
  <2>1. p.pc = "item" /\ p.left # 0 /\ p.section # 1 /\ UNCHANGED query
    BY <1>9 DEF ReadRecord, At
  <2>2. PICK record \in Found(t, "record", p.loc) :
          parser' = [parser EXCEPT ![t] = BehindRecord(p, record)]
    BY <1>3, <1>9 DEF ReadRecord, BehindRecord
  <2>3. PiecesAt(m, "record", p.loc) # {} => record \in PiecesAt(m, "record", p.loc)
    BY <1>2, <2>2 DEF Found
  <2>4. record \in PiecesAt(m, "record", p.loc) \/ record \in Junk("record")
    BY <1>2, <2>2 DEF Found
  <2>5. record.name \in Nat /\ record.data \in Nat
    BY <1>2, <2>4, RecordsThere, JunkRecords
  <2>6. BehindRecord(p, record) \in States /\ Progress(BehindRecord(p, record), m)
    BY <1>2, <2>1, <2>3, <2>5, ProgressRecord
  <2>. QED
    BY <1>1, <2>1, <2>2, <2>6, ParserStep
<1>. QED
  BY <1>4, <1>5, <1>6, <1>7, <1>8, <1>9 DEF Parse

\* What the invariant says of the properties.
LEMMA ParserReads == ParserInv => ReadsOnlyWritten
<1>. SUFFICES ASSUME ParserInv, NEW t \in Threads
              PROVE  /\ At(t, "label") => There(t, "label", parser[t].loc) # {}
                     /\ At(t, "item") /\ Input(t).whole /\ parser[t].left # 0
                          /\ parser[t].section # 1 =>
                          There(t, "record", parser[t].loc) # {}
  BY DEF ReadsOnlyWritten
<1>. DEFINE p == parser[t] m == Letters[query[t]]
<1>1. CASE At(t, "label")
  <2>1. p \in States /\ Progress(p, m) /\ IsLetter(m) /\ p.pc = "label"
        /\ query[t] \in DOMAIN Letters
    BY <1>1, Inside DEF At
  <2>2. PiecesAt(m, "label", p.loc) # {}
    BY <2>1, LabelThere
  <2>. QED
    BY <1>1, <2>1, <2>2, InputIs DEF At
<1>2. CASE At(t, "item") /\ Input(t).whole /\ p.left # 0 /\ p.section # 1
  <2>1. p \in States /\ Progress(p, m) /\ IsLetter(m) /\ p.pc = "item"
        /\ query[t] \in DOMAIN Letters
    BY <1>2, Inside DEF At
  <2>2. Whole(m)
    BY <1>2, <2>1, InputIs
  <2>3. p.loc = RecordAt(m, CurrentRecord(p, m)) /\ Counting(p, m)
    BY <1>2, <2>1, <2>2 DEF Progress, AtItem
  <2>4. CurrentRecord(p, m) \in 1..Len(m.records)
    BY <1>2, <2>1, <2>3, CurrentRecordIs
  <2>5. PiecesAt(m, "record", p.loc) = {m.records[CurrentRecord(p, m)]}
    BY <2>1, <2>3, <2>4, RecordFound
  <2>6. PiecesAt(m, "record", p.loc) # {}
    BY <2>5
  <2>. QED
    BY <1>2, <2>1, <2>6, InputIs DEF At
<1>. QED
  BY <1>1, <1>2

\* Behind the last record of a whole letter the parser has read it all.
LEMMA ParserWhole == ParserInv => WholeIsParsed
<1>. SUFFICES ASSUME ParserInv, NEW t \in Threads, ~At(t, "recv"), Input(t).whole
              PROVE  ~At(t, "dropped") /\ ~BehindBuffer(t)
  BY DEF WholeIsParsed
<1>. DEFINE p == parser[t] m == Letters[query[t]]
<1>1. p \in States /\ Progress(p, m) /\ IsLetter(m) /\ Whole(m)
  BY Inside, InputIs
<1>2. ~At(t, "dropped")
  BY <1>1 DEF Progress, At
<1>3. ASSUME At(t, "item"), p.left # 0 PROVE p.loc \in Nat /\ p.loc <= BufferSize
  <2>1. Counting(p, m) /\ AtItem(p, m)
    BY <1>1, <1>3 DEF Progress, At
  <2>2. p.loc \in Nat
    BY <1>1, StateFields
  <2>3. CASE p.section = 1
    <3>1. Current(p, m) \in 1..(Len(m.questions) + 1)
      BY <1>1, <1>3, <2>1, <2>3, CurrentQuestion
    <3>. QED
      BY <1>1, <2>1, <2>2, <2>3, <3>1, WithinBuffer DEF AtItem
  <2>4. CASE p.section # 1
    <3>1. CurrentRecord(p, m) \in 1..(Len(m.records) + 1)
      BY <1>1, <1>3, <2>1, <2>4, CurrentRecordIs, LetterFields
    <3>. QED
      BY <1>1, <2>1, <2>2, <2>4, <3>1, WithinBuffer DEF AtItem
  <2>. QED
    BY <2>3, <2>4
<1>4. ~BehindBuffer(t)
  BY <1>3 DEF BehindBuffer, BufferSize
<1>. QED
  BY <1>2, <1>4
=============================================================================
