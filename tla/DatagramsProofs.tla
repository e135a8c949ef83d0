-------------------------- MODULE DatagramsProofs --------------------------
(***************************************************************************)
(* Whatever is sent, lost, copied or received, a channel over a set of     *)
(* datagrams stays one: the lemmas the invariants of both protocols rest   *)
(* on.                                                                     *)
(***************************************************************************)
EXTENDS Datagrams, SequenceTheorems, TLAPS

LEMMA WithoutInSeq ==
  ASSUME NEW S, NEW ch \in Seq(S), NEW i \in DOMAIN ch
  PROVE  Without(ch, i) \in Seq(S)
<1>1. Len(ch) \in Nat /\ DOMAIN ch = 1..Len(ch) /\ i \in 1..Len(ch)
  BY LenProperties
<1>2. \A j \in 1..Len(ch) : ch[j] \in S
  BY ElementOfSeq
<1>3. SubSeq(ch, 1, i - 1) \in Seq(S)
  BY <1>1, <1>2, SubSeqProperties
<1>4. SubSeq(ch, i + 1, Len(ch)) \in Seq(S)
  BY <1>1, <1>2, SubSeqProperties
<1>. QED
  BY <1>3, <1>4, ConcatProperties DEF Without, RemoveAt

LEMMA EnqueueInSeq ==
  ASSUME NEW S, NEW ch \in Seq(S), NEW m \in S
  PROVE  Enqueue(ch, m) \in Seq(S)
BY AppendProperties DEF Enqueue

LEMMA FaultsInSeq ==
  ASSUME NEW S, NEW ch \in Seq(S), NEW chNext,
         Loses(ch, chNext) \/ Duplicates(ch, chNext)
  PROVE  chNext \in Seq(S)
<1>1. CASE Loses(ch, chNext)
  BY <1>1, WithoutInSeq DEF Loses
<1>2. CASE Duplicates(ch, chNext)
  <2>1. PICK i \in DOMAIN ch : chNext = Append(ch, ch[i])
    BY <1>2 DEF Duplicates
  <2>2. ch[i] \in S
    BY ElementOfSeq, LenProperties
  <2>. QED
    BY <2>1, <2>2, AppendProperties
<1>. QED
  BY <1>1, <1>2
=============================================================================
