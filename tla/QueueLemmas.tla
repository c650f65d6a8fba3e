---------------------------- MODULE QueueLemmas ----------------------------
(***************************************************************************)
(* What the operations on the message queues of a stream do to the length  *)
(* of a queue and to the set of the values in it.                          *)
(***************************************************************************)
EXTENDS SequencesExt, SequenceTheorems, TLAPS

\* Appending adds the value that is appended.
LEMMA RangeOfAppend ==
  ASSUME NEW S, NEW seq \in Seq(S), NEW e \in S
  PROVE  Range(Append(seq, e)) = Range(seq) \cup {e}
<1>1. /\ Append(seq, e) \in Seq(S) /\ Len(Append(seq, e)) = Len(seq) + 1
      /\ \A i \in 1..Len(seq) : Append(seq, e)[i] = seq[i]
      /\ Append(seq, e)[Len(seq) + 1] = e
  BY AppendProperties
<1>2. Range(Append(seq, e)) = {Append(seq, e)[i] : i \in 1..Len(seq) + 1}
  BY <1>1, RangeEquality
<1>3. Range(seq) = {seq[i] : i \in 1..Len(seq)}
  BY RangeEquality
<1>4. Len(seq) \in Nat
  BY LenProperties
<1>. QED
  BY <1>1, <1>2, <1>3, <1>4

\* Taking the head off leaves the others.
LEMMA RangeOfTail ==
  ASSUME NEW S, NEW seq \in Seq(S), seq # <<>>
  PROVE  /\ Tail(seq) \in Seq(S) /\ Head(seq) \in S
         /\ Head(seq) \in Range(seq)
         /\ Range(seq) = {Head(seq)} \cup Range(Tail(seq))
<1>1. /\ Tail(seq) \in Seq(S) /\ Len(Tail(seq)) = Len(seq) - 1
      /\ Head(seq) = seq[1] /\ Head(seq) \in S
      /\ \A i \in 1..Len(seq) - 1 : Tail(seq)[i] = seq[i + 1]
  BY HeadTailProperties
<1>2. Range(Tail(seq)) = {Tail(seq)[i] : i \in 1..Len(seq) - 1}
  BY <1>1, RangeEquality
<1>3. Range(seq) = {seq[i] : i \in 1..Len(seq)}
  BY RangeEquality
<1>4. Len(seq) \in Nat \ {0}
  BY EmptySeq
<1>5. Head(seq) \in Range(seq)
  BY <1>1, <1>3, <1>4
<1>6. Range(Tail(seq)) \subseteq Range(seq)
  BY <1>1, <1>2, <1>3, <1>4
<1>7. Range(seq) \subseteq {Head(seq)} \cup Range(Tail(seq))
  <2>. SUFFICES ASSUME NEW i \in 1..Len(seq), i # 1 PROVE seq[i] \in Range(Tail(seq))
    BY <1>1, <1>3
  <2>1. i - 1 \in 1..Len(seq) - 1 /\ Tail(seq)[i - 1] = seq[i]
    BY <1>1, <1>4
  <2>. QED
    BY <1>2, <2>1
<1>. QED
  BY <1>1, <1>5, <1>6, <1>7

\* What is left when the end of a queue is lost.
LEMMA RangeOfPrefix ==
  ASSUME NEW S, NEW seq \in Seq(S), NEW n \in 0..Len(seq)
  PROVE  /\ SubSeq(seq, 1, n) \in Seq(S) /\ Len(SubSeq(seq, 1, n)) = n
         /\ Range(SubSeq(seq, 1, n)) \subseteq Range(seq)
         /\ SubSeq(seq, 1, n) # <<>> => seq # <<>> /\ Head(SubSeq(seq, 1, n)) = Head(seq)
<1>1. /\ SubSeq(seq, 1, n) \in Seq(S) /\ Len(SubSeq(seq, 1, n)) = n
      /\ \A i \in 1..n : SubSeq(seq, 1, n)[i] = seq[i]
  BY LenProperties, SubSeqProperties, ElementOfSeq
<1>2. Range(SubSeq(seq, 1, n)) = {SubSeq(seq, 1, n)[i] : i \in 1..n}
  BY <1>1, RangeEquality
<1>3. Range(seq) = {seq[i] : i \in 1..Len(seq)} /\ Len(seq) \in Nat
  BY RangeEquality, LenProperties
<1>4. Range(SubSeq(seq, 1, n)) \subseteq Range(seq)
  BY <1>1, <1>2, <1>3
<1>5. ASSUME SubSeq(seq, 1, n) # <<>> PROVE seq # <<>> /\ Head(SubSeq(seq, 1, n)) = Head(seq)
  <2>1. n \in 1..Len(seq)
    BY <1>1, <1>3, <1>5
  <2>. QED
    BY <1>1, <1>3, <2>1
<1>. QED
  BY <1>1, <1>4, <1>5

\* A function on 1..n is a sequence.
LEMMA FunctionIsSeq ==
  ASSUME NEW S, NEW n \in Nat, NEW f \in [1..n -> S]
  PROVE  f \in Seq(S) /\ Len(f) = n /\ DOMAIN f = 1..n
<1>1. f \in Seq(S)
  BY SeqDef
<1>2. DOMAIN f = 1..Len(f) /\ Len(f) \in Nat /\ DOMAIN f = 1..n
  BY <1>1, LenProperties
<1>. QED
  BY <1>1, <1>2

\* Taking a value out of the middle of a queue.
LEMMA ElementsOfRemoveAt ==
  ASSUME NEW S, NEW seq \in Seq(S), NEW i \in 1..Len(seq)
  PROVE  /\ RemoveAt(seq, i) \in Seq(S)
         /\ Len(RemoveAt(seq, i)) = Len(seq) - 1
         /\ DOMAIN RemoveAt(seq, i) = 1..Len(seq) - 1
         /\ \A k \in 1..Len(seq) - 1 :
               RemoveAt(seq, i)[k] = seq[IF k < i THEN k ELSE k + 1]
<1>. DEFINE a == SubSeq(seq, 1, i - 1)
            b == SubSeq(seq, i + 1, Len(seq))
<1>1. /\ Len(seq) \in Nat /\ i \in Int /\ i - 1 \in Int /\ i + 1 \in Int
      /\ \A k \in 1..Len(seq) : seq[k] \in S
  BY LenProperties, ElementOfSeq
<1>2. /\ a \in Seq(S) /\ Len(a) = i - 1
      /\ \A k \in 1..i - 1 : a[k] = seq[k]
  <2>1. \A k \in 1..i - 1 : seq[k] \in S
    BY <1>1
  <2>2. a \in Seq(S) /\ Len(a) = (IF 1 <= i - 1 THEN i - 1 - 1 + 1 ELSE 0)
        /\ \A k \in 1..i - 1 - 1 + 1 : a[k] = seq[1 + k - 1]
    BY <1>1, <2>1, SubSeqProperties
  <2>. HIDE DEF a
  <2>. QED
    BY <1>1, <2>2
<1>3. /\ b \in Seq(S) /\ Len(b) = Len(seq) - i
      /\ \A k \in 1..Len(seq) - i : b[k] = seq[i + k]
  <2>1. \A k \in i + 1..Len(seq) : seq[k] \in S
    BY <1>1
  <2>2. b \in Seq(S) /\ Len(b) = (IF i + 1 <= Len(seq) THEN Len(seq) - (i + 1) + 1 ELSE 0)
        /\ \A k \in 1..Len(seq) - (i + 1) + 1 : b[k] = seq[(i + 1) + k - 1]
    BY <1>1, <2>1, SubSeqProperties
  <2>. HIDE DEF b
  <2>. QED
    BY <1>1, <2>2
<1>4. RemoveAt(seq, i) = a \o b
  BY DEF RemoveAt
<1>. HIDE DEF a, b
<1>5. /\ a \o b \in Seq(S) /\ Len(a \o b) = Len(a) + Len(b)
      /\ \A k \in 1..Len(a) + Len(b) :
            (a \o b)[k] = IF k <= Len(a) THEN a[k] ELSE b[k - Len(a)]
  BY <1>2, <1>3, ConcatProperties
<1>6. Len(a \o b) = Len(seq) - 1
  BY <1>1, <1>2, <1>3, <1>5
<1>7. \A k \in 1..Len(seq) - 1 : (a \o b)[k] = seq[IF k < i THEN k ELSE k + 1]
  BY <1>1, <1>2, <1>3, <1>5
<1>8. DOMAIN (a \o b) = 1..Len(seq) - 1
  BY <1>5, <1>6, LenProperties
<1>. QED
  BY <1>4, <1>5, <1>6, <1>7, <1>8

LEMMA RangeOfRemoveAt ==
  ASSUME NEW S, NEW seq \in Seq(S), NEW i \in 1..Len(seq)
  PROVE  /\ RemoveAt(seq, i) \in Seq(S)
         /\ Len(RemoveAt(seq, i)) = Len(seq) - 1
         /\ Range(RemoveAt(seq, i)) \subseteq Range(seq)
         /\ seq[i] \in S /\ seq[i] \in Range(seq)
<1>1. Len(seq) \in Nat /\ seq[i] \in S /\ Range(seq) = {seq[k] : k \in 1..Len(seq)}
  BY LenProperties, ElementOfSeq, RangeEquality
<1>2. ASSUME NEW k \in DOMAIN RemoveAt(seq, i) PROVE RemoveAt(seq, i)[k] \in Range(seq)
  <2>. DEFINE from == IF k < i THEN k ELSE k + 1
  <2>1. k \in 1..Len(seq) - 1
    BY ElementsOfRemoveAt
  <2>2. from \in 1..Len(seq)
    BY <1>1, <2>1
  <2>3. RemoveAt(seq, i)[k] = seq[from]
    BY <2>1, ElementsOfRemoveAt
  <2>. HIDE DEF from
  <2>. QED
    BY <1>1, <2>2, <2>3
<1>. QED
  BY <1>1, <1>2, ElementsOfRemoveAt DEF Range

---------------------------------------------------------------------------
\* Queues that hold nothing twice stay so.
LEMMA InjectiveAppend ==
  ASSUME NEW S, NEW seq \in Seq(S), NEW e \in S, IsInjective(seq), e \notin Range(seq)
  PROVE  IsInjective(Append(seq, e))
<1>1. /\ Len(Append(seq, e)) = Len(seq) + 1
      /\ \A i \in 1..Len(seq) : Append(seq, e)[i] = seq[i]
      /\ Append(seq, e)[Len(seq) + 1] = e
      /\ DOMAIN Append(seq, e) = 1..Len(seq) + 1
  BY AppendProperties, LenProperties
<1>2. Len(seq) \in Nat /\ DOMAIN seq = 1..Len(seq)
  BY LenProperties
<1>3. \A i \in 1..Len(seq) : seq[i] # e
  BY <1>2 DEF Range
<1>. QED
  BY <1>1, <1>2, <1>3 DEF IsInjective

LEMMA InjectiveTail ==
  ASSUME NEW S, NEW seq \in Seq(S), seq # <<>>, IsInjective(seq)
  PROVE  IsInjective(Tail(seq)) /\ Range(Tail(seq)) = Range(seq) \ {Head(seq)}
<1>1. /\ Tail(seq) \in Seq(S) /\ Len(Tail(seq)) = Len(seq) - 1
      /\ Head(seq) = seq[1]
      /\ \A i \in 1..Len(seq) - 1 : Tail(seq)[i] = seq[i + 1]
  BY HeadTailProperties
<1>2. /\ Len(seq) \in Nat \ {0} /\ DOMAIN seq = 1..Len(seq)
      /\ DOMAIN Tail(seq) = 1..Len(seq) - 1
  BY <1>1, LenProperties, EmptySeq
<1>3. IsInjective(Tail(seq))
  BY <1>1, <1>2 DEF IsInjective
<1>4. \A i \in 1..Len(seq) - 1 : i + 1 \in 1..Len(seq) /\ 1 \in 1..Len(seq) /\ i + 1 # 1
  BY <1>2
<1>5. \A i \in 1..Len(seq) - 1 : Tail(seq)[i] # Head(seq)
  BY <1>1, <1>2, <1>4 DEF IsInjective
<1>6. Head(seq) \notin Range(Tail(seq))
  BY <1>2, <1>5 DEF Range
<1>. QED
  BY <1>3, <1>6, RangeOfTail

LEMMA InjectivePrefix ==
  ASSUME NEW S, NEW seq \in Seq(S), NEW n \in 0..Len(seq), IsInjective(seq)
  PROVE  IsInjective(SubSeq(seq, 1, n))
<1>1. /\ SubSeq(seq, 1, n) \in Seq(S) /\ Len(SubSeq(seq, 1, n)) = n
      /\ \A i \in 1..n : SubSeq(seq, 1, n)[i] = seq[i]
  BY LenProperties, SubSeqProperties, ElementOfSeq
<1>2. /\ Len(seq) \in Nat /\ DOMAIN seq = 1..Len(seq)
      /\ DOMAIN SubSeq(seq, 1, n) = 1..n
  BY <1>1, LenProperties
<1>. QED
  BY <1>1, <1>2 DEF IsInjective

LEMMA InjectiveRemoveAt ==
  ASSUME NEW S, NEW seq \in Seq(S), NEW i \in 1..Len(seq), IsInjective(seq)
  PROVE  IsInjective(RemoveAt(seq, i)) /\ Range(RemoveAt(seq, i)) = Range(seq) \ {seq[i]}
<1>. DEFINE r == RemoveAt(seq, i)
            from(k) == IF k < i THEN k ELSE k + 1
<1>0. Len(seq) \in Nat /\ DOMAIN seq = 1..Len(seq)
  BY LenProperties
<1>1. /\ DOMAIN r = 1..Len(seq) - 1
      /\ \A k \in 1..Len(seq) - 1 : r[k] = seq[from(k)]
  BY ElementsOfRemoveAt
<1>. HIDE DEF r
<1>2. \A k \in 1..Len(seq) - 1 : from(k) \in 1..Len(seq) \ {i}
  BY <1>0
<1>3. \A j, k \in 1..Len(seq) - 1 : from(j) = from(k) => j = k
  BY <1>0
<1>4. \A k \in 1..Len(seq) \ {i} : \E j \in 1..Len(seq) - 1 : from(j) = k
  <2>. TAKE k \in 1..Len(seq) \ {i}
  <2>1. CASE k < i
    <3>1. k \in 1..Len(seq) - 1
      BY <1>0, <2>1
    <3>. WITNESS k \in 1..Len(seq) - 1
    <3>. QED
      BY <2>1
  <2>2. CASE ~(k < i)
    <3>1. k - 1 \in 1..Len(seq) - 1 /\ ~(k - 1 < i) /\ k - 1 + 1 = k
      BY <1>0, <2>2
    <3>. WITNESS k - 1 \in 1..Len(seq) - 1
    <3>. QED
      BY <3>1
  <2>. QED
    BY <2>1, <2>2
<1>. HIDE DEF from
<1>5. IsInjective(r)
  BY <1>0, <1>1, <1>2, <1>3 DEF IsInjective
<1>6. Range(r) = {r[k] : k \in 1..Len(seq) - 1} /\ Range(seq) = {seq[k] : k \in 1..Len(seq)}
  BY <1>0, <1>1 DEF Range
<1>7. Range(r) \subseteq Range(seq) \ {seq[i]}
  BY <1>0, <1>1, <1>2, <1>6 DEF IsInjective
<1>8. Range(seq) \ {seq[i]} \subseteq Range(r)
  BY <1>1, <1>4, <1>6
<1>. QED
  BY <1>5, <1>7, <1>8 DEF r
============================================================================
