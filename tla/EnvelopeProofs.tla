--------------------------- MODULE EnvelopeProofs ---------------------------
(***************************************************************************)
(* Proofs about Envelope, for any keys, nonces and plain texts and for any *)
(* lengths of the tag, of cut tags and of the nonce.                       *)
(*                                                                         *)
(* Four facts about the operators carry them: the two ways of cutting a    *)
(* blob cut the same parts of one that holds a nonce and a whole tag; of a *)
(* shorter one Go opens nothing and Node nothing but the empty text; the   *)
(* parts of a sealed transaction open to its plain text; and a transaction *)
(* that opens has the blob and the HMAC of a sealed one.                   *)
(***************************************************************************)
EXTENDS Envelope, QueueLemmas

\* The bytes of cipher texts, tags and nonces.
Bytes ==
    ({"cipher", "tag"} \X Keys \X Nonces \X Plains \X Nat) \cup ({"nonce"} \X Nonces \X Nat)

Transaction ==
    [blob : Seq(Bytes), key : Keys, hmac : [key : Keys, data : Seq(Bytes)], secret : Keys]

\* What travels is a transaction, whatever was changed, and what was sent is sealed.
Travels ==
    origin # None =>
        /\ wire \in Transaction
        /\ \E k \in Keys, n \in Nonces : origin.sent = GoSeal(k, n, origin.plain)

\* The programs open what arrived and nothing else.
OpensWire ==
    \/ opened = [o \in Programs |-> Refused("not yet")]
    \/ /\ origin # None
       /\ opened = [o \in Programs |-> IF o = "go" THEN GoOpen(wire) ELSE TsOpen(wire)]

IInv == TypeOK /\ Travels /\ OpensWire

USE EnvelopeAssumption

---------------------------------------------------------------------------
\* Cutting a concatenation where its parts meet gives back the parts.
LEMMA CutConcat ==
  ASSUME NEW S, NEW s \in Seq(S), NEW t \in Seq(S)
  PROVE  /\ s \o t \in Seq(S) /\ Len(s \o t) = Len(s) + Len(t)
         /\ SubSeq(s \o t, 1, Len(s)) = s
         /\ SubSeq(s \o t, Len(s) + 1, Len(s) + Len(t)) = t
<1>. DEFINE st == s \o t
<1>1. /\ st \in Seq(S) /\ Len(st) = Len(s) + Len(t)
      /\ \A i \in 1..Len(s) + Len(t) : st[i] = IF i <= Len(s) THEN s[i] ELSE t[i - Len(s)]
  BY ConcatProperties
<1>2. Len(s) \in Nat /\ Len(t) \in Nat
  BY LenProperties
<1>. HIDE DEF st
<1>3. \A i \in 1..Len(st) : st[i] \in S
  BY <1>1, ElementOfSeq
<1>4. SubSeq(st, 1, Len(s)) = s
  <2>. DEFINE c == SubSeq(st, 1, Len(s))
  <2>1. \A i \in 1..Len(s) : st[i] \in S
    BY <1>1, <1>2, <1>3
  <2>2. /\ c \in Seq(S) /\ Len(c) = (IF 1 <= Len(s) THEN Len(s) - 1 + 1 ELSE 0)
        /\ \A i \in 1..Len(s) - 1 + 1 : c[i] = st[1 + i - 1]
    BY <1>2, <2>1, SubSeqProperties
  <2>. HIDE DEF c
  <2>3. Len(c) = Len(s) /\ \A i \in 1..Len(c) : c[i] = s[i]
    BY <1>1, <1>2, <2>2
  <2>4. c = s
    BY <2>2, <2>3, SeqEqual
  <2>. QED
    BY <2>4 DEF c
<1>5. SubSeq(st, Len(s) + 1, Len(s) + Len(t)) = t
  <2>. DEFINE c == SubSeq(st, Len(s) + 1, Len(s) + Len(t))
  <2>1. \A i \in Len(s) + 1..Len(s) + Len(t) : st[i] \in S
    BY <1>1, <1>2, <1>3
  <2>2. /\ c \in Seq(S)
        /\ Len(c) = (IF Len(s) + 1 <= Len(s) + Len(t) THEN Len(s) + Len(t) - (Len(s) + 1) + 1 ELSE 0)
        /\ \A i \in 1..Len(s) + Len(t) - (Len(s) + 1) + 1 : c[i] = st[(Len(s) + 1) + i - 1]
    BY <1>2, <2>1, SubSeqProperties
  <2>. HIDE DEF c
  <2>3. Len(c) = Len(t)
    BY <1>2, <2>2
  <2>4. ASSUME NEW i \in 1..Len(c) PROVE c[i] = t[i]
    <3>1. i \in 1..Len(t) /\ (Len(s) + 1) + i - 1 = Len(s) + i
      BY <1>2, <2>3
    <3>2. Len(s) + i \in 1..Len(s) + Len(t) /\ ~(Len(s) + i <= Len(s)) /\ (Len(s) + i) - Len(s) = i
      BY <1>2, <3>1
    <3>3. c[i] = st[Len(s) + i]
      BY <1>2, <2>2, <3>1
    <3>. QED
      BY <1>1, <3>2, <3>3
  <2>5. c = t
    BY <2>2, <2>3, <2>4, SeqEqual
  <2>. QED
    BY <2>5 DEF c
<1>. QED
  BY <1>1, <1>4, <1>5 DEF st

\* The part of a sequence between two places, and a part of that part.
LEMMA CutTwice ==
  ASSUME NEW S, NEW s \in Seq(S), NEW i \in Nat \ {0}, NEW j \in 0..Len(s), j + 1 >= i,
         NEW m \in Nat \ {0}, NEW n \in 0..j - i + 1
  PROVE  /\ SubSeq(s, i, j) \in Seq(S) /\ Len(SubSeq(s, i, j)) = j - i + 1
         /\ SubSeq(SubSeq(s, i, j), m, n) = SubSeq(s, i + m - 1, i + n - 1)
<1>. DEFINE c == SubSeq(s, i, j)
            d == SubSeq(c, m, n)
            e == SubSeq(s, i + m - 1, i + n - 1)
<1>1. Len(s) \in Nat /\ j \in Int /\ n \in Int /\ \A k \in 1..Len(s) : s[k] \in S
  BY LenProperties, ElementOfSeq
<1>2. /\ c \in Seq(S) /\ Len(c) = j - i + 1
      /\ \A k \in 1..j - i + 1 : c[k] = s[i + k - 1]
  <2>1. \A k \in i..j : s[k] \in S
    BY <1>1
  <2>2. /\ c \in Seq(S) /\ Len(c) = (IF i <= j THEN j - i + 1 ELSE 0)
        /\ \A k \in 1..j - i + 1 : c[k] = s[i + k - 1]
    BY <1>1, <2>1, SubSeqProperties
  <2>. HIDE DEF c
  <2>. QED
    BY <1>1, <2>2
<1>. HIDE DEF c
<1>3. /\ d \in Seq(S) /\ Len(d) = IF m <= n THEN n - m + 1 ELSE 0
      /\ \A k \in 1..n - m + 1 : d[k] = c[m + k - 1]
  <2>1. \A k \in m..n : c[k] \in S
    BY <1>1, <1>2
  <2>. QED
    BY <1>1, <2>1, SubSeqProperties
<1>4. /\ e \in Seq(S)
      /\ Len(e) = IF i + m - 1 <= i + n - 1 THEN (i + n - 1) - (i + m - 1) + 1 ELSE 0
      /\ \A k \in 1..(i + n - 1) - (i + m - 1) + 1 : e[k] = s[(i + m - 1) + k - 1]
  <2>1. \A k \in i + m - 1..i + n - 1 : s[k] \in S
    BY <1>1
  <2>2. i + m - 1 \in Int /\ i + n - 1 \in Int
    BY <1>1
  <2>. QED
    BY <2>1, <2>2, SubSeqProperties
<1>. HIDE DEF d, e
<1>5. Len(d) = Len(e)
  BY <1>1, <1>3, <1>4
<1>6. ASSUME NEW k \in 1..Len(d) PROVE d[k] = e[k]
  <2>1. k \in 1..n - m + 1 /\ k \in 1..(i + n - 1) - (i + m - 1) + 1
    BY <1>1, <1>3, <1>6
  <2>2. m + k - 1 \in 1..j - i + 1 /\ i + (m + k - 1) - 1 = (i + m - 1) + k - 1
    BY <1>1, <2>1
  <2>. QED
    BY <1>2, <1>3, <1>4, <2>1, <2>2
<1>7. d = e
  BY <1>3, <1>4, <1>5, <1>6, SeqEqual
<1>. QED
  BY <1>2, <1>7 DEF c, d, e

---------------------------------------------------------------------------
\* The bytes of each part name what it was made from.
LEMMA PartsTyped ==
  ASSUME NEW k \in Keys, NEW n \in Nonces, NEW p \in Plains
  PROVE  /\ CipherText(k, n, p) \in Seq(Bytes) /\ Len(CipherText(k, n, p)) = Len(p)
         /\ Tag(k, n, p) \in Seq(Bytes) /\ Len(Tag(k, n, p)) = TagLen
         /\ NonceBytes(n) \in Seq(Bytes) /\ Len(NonceBytes(n)) = NonceLen
         /\ Len(p) \in Nat
<1>1. Len(p) \in Nat
  BY LenProperties
<1>2. CipherText(k, n, p) \in [1..Len(p) -> Bytes]
  BY <1>1 DEF CipherText, Bytes
<1>3. Tag(k, n, p) \in [1..TagLen -> Bytes]
  BY DEF Tag, Bytes
<1>4. NonceBytes(n) \in [1..NonceLen -> Bytes]
  BY DEF NonceBytes, Bytes
<1>. QED
  BY <1>1, <1>2, <1>3, <1>4, FunctionIsSeq

LEMMA TagNames ==
  ASSUME NEW k, NEW n, NEW p, NEW l, NEW m, NEW q, Tag(k, n, p) = Tag(l, m, q)
  PROVE  k = l /\ n = m /\ p = q
<1>1. Tag(k, n, p)[1] = <<"tag", k, n, p, 1>> /\ Tag(l, m, q)[1] = <<"tag", l, m, q, 1>>
  BY DEF Tag
<1>. QED
  BY <1>1

LEMMA NonceNames ==
  ASSUME NEW n, NEW m, NonceBytes(n) = NonceBytes(m)
  PROVE  n = m
<1>1. NonceBytes(n)[1] = <<"nonce", n, 1>> /\ NonceBytes(m)[1] = <<"nonce", m, 1>>
  BY DEF NonceBytes
<1>. QED
  BY <1>1

\* Decryption gives a plain text whose parts these are, or an error.
LEMMA DecryptResult ==
  ASSUME NEW k, NEW iv, NEW ct, NEW tag, NEW lens
  PROVE  \/ Decrypt(k, iv, ct, tag, lens) = Refused("error")
         \/ \E n \in Nonces, p \in Plains :
               /\ iv = NonceBytes(n) /\ ct = CipherText(k, n, p)
               /\ Len(tag) \in lens /\ tag = SubSeq(Tag(k, n, p), 1, Len(tag))
               /\ Decrypt(k, iv, ct, tag, lens) = Opened(p)
<1>. DEFINE made == {p \in Plains : \E n \in Nonces :
                        /\ iv = NonceBytes(n) /\ ct = CipherText(k, n, p)
                        /\ Len(tag) \in lens /\ tag = SubSeq(Tag(k, n, p), 1, Len(tag))}
<1>1. Decrypt(k, iv, ct, tag, lens) = IF made = {} THEN Refused("error")
                                      ELSE Opened(CHOOSE p \in made : TRUE)
  BY DEF Decrypt
<1>2. made # {} => (CHOOSE p \in made : TRUE) \in made
  OBVIOUS
<1>. QED
  BY <1>1, <1>2

\* The lengths a cut tag may have do not matter to a whole one.
LEMMA WholeTag ==
  ASSUME NEW k, NEW iv, NEW ct, NEW tag, NEW lens, NEW others, Len(tag) \in lens \cap others
  PROVE  Decrypt(k, iv, ct, tag, lens) = Decrypt(k, iv, ct, tag, others)
<1>. DEFINE made(l) == {p \in Plains : \E n \in Nonces :
                           /\ iv = NonceBytes(n) /\ ct = CipherText(k, n, p)
                           /\ Len(tag) \in l /\ tag = SubSeq(Tag(k, n, p), 1, Len(tag))}
<1>1. \A l : Decrypt(k, iv, ct, tag, l) = IF made(l) = {} THEN Refused("error")
                                           ELSE Opened(CHOOSE p \in made(l) : TRUE)
  BY DEF Decrypt
<1>2. made(lens) = made(others)
  OBVIOUS
<1>. HIDE DEF made
<1>. QED
  BY <1>1, <1>2

LEMMA FullTag ==
  ASSUME NEW k \in Keys, NEW n \in Nonces, NEW p \in Plains
  PROVE  SubSeq(Tag(k, n, p), 1, TagLen) = Tag(k, n, p)
  BY PartsTyped, SubSeqFull

\* The parts of a sealed transaction decrypt to its plain text.
LEMMA DecryptSealed ==
  ASSUME NEW k \in Keys, NEW n \in Nonces, NEW p \in Plains
  PROVE  Decrypt(k, NonceBytes(n), CipherText(k, n, p), Tag(k, n, p), {TagLen}) = Opened(p)
<1>. DEFINE tag == Tag(k, n, p)
            made == {q \in Plains : \E m \in Nonces :
                        /\ NonceBytes(n) = NonceBytes(m)
                        /\ CipherText(k, n, p) = CipherText(k, m, q)
                        /\ Len(tag) \in {TagLen} /\ tag = SubSeq(Tag(k, m, q), 1, Len(tag))}
<1>1. Len(tag) = TagLen
  BY PartsTyped
<1>2. p \in made
  BY <1>1, FullTag
<1>3. ASSUME NEW q \in made PROVE q = p
  <2>1. PICK m \in Nonces : q \in Plains /\ tag = SubSeq(Tag(k, m, q), 1, TagLen)
    BY <1>1
  <2>2. tag = Tag(k, m, q)
    BY <2>1, FullTag
  <2>. QED
    BY <2>2, TagNames
<1>4. made = {p}
  BY <1>2, <1>3
<1>5. (CHOOSE q \in made : TRUE) = p
  BY <1>4
<1>. QED
  BY <1>2, <1>5 DEF Decrypt

---------------------------------------------------------------------------
\* The cuts of the Go program and those of the TypeScript program, of a blob that
\* holds a tag and a nonce.
LEMMA SameCuts ==
  ASSUME NEW S, NEW b \in Seq(S), Len(b) >= TagLen + NonceLen
  PROVE  LET n == Len(b) - NonceLen
         IN  /\ AllButLast(b, NonceLen) = SubSeq(b, 1, n)
             /\ LastBytes(b, NonceLen) = SubSeq(b, n + 1, Len(b))
             /\ AllButLast(b, TagLen + NonceLen) = SubSeq(SubSeq(b, 1, n), 1, n - TagLen)
             /\ AllButLast(LastBytes(b, TagLen + NonceLen), NonceLen)
                  = SubSeq(SubSeq(b, 1, n), n - TagLen + 1, n)
<1>. DEFINE len == Len(b)
            n == len - NonceLen
            g == n - TagLen
<1>1. /\ len \in Nat /\ n \in Nat /\ g \in Nat /\ n \in 0..len /\ len > NonceLen
      /\ len - (TagLen + NonceLen) = g /\ n + 1 = len - NonceLen + 1
      /\ (len > TagLen + NonceLen \/ g = 0)
  BY LenProperties
<1>2. AllButLast(b, NonceLen) = SubSeq(b, 1, n)
  BY <1>1 DEF AllButLast
<1>3. LastBytes(b, NonceLen) = SubSeq(b, n + 1, len)
  BY <1>1 DEF LastBytes
<1>4. AllButLast(b, TagLen + NonceLen) = SubSeq(b, 1, g)
  BY <1>1 DEF AllButLast
<1>5. LastBytes(b, TagLen + NonceLen) = SubSeq(b, g + 1, len)
  <2>1. g + 1 = IF Len(b) > TagLen + NonceLen THEN Len(b) - (TagLen + NonceLen) + 1 ELSE 1
    <3>1. CASE len > TagLen + NonceLen
      BY <1>1, <3>1
    <3>2. CASE ~(len > TagLen + NonceLen)
      <4>1. g = 0
        BY <1>1, <3>2
      <4>. HIDE DEF g
      <4>. QED
        BY <3>2, <4>1
    <3>. QED
      BY <3>1, <3>2
  <2>. HIDE DEF g
  <2>. QED
    BY <2>1 DEF LastBytes
<1>. HIDE DEF len, n, g
<1>6. n = g + TagLen /\ len = n + NonceLen
  BY <1>1 DEF n, g
<1>7. SubSeq(SubSeq(b, 1, n), 1, g) = SubSeq(b, 1, g)
  <2>1. 1 \in Nat \ {0} /\ n + 1 >= 1 /\ g \in 0..n - 1 + 1 /\ 1 + 1 - 1 = 1 /\ 1 + g - 1 = g
    BY <1>1, <1>6
  <2>2. SubSeq(SubSeq(b, 1, n), 1, g) = SubSeq(b, 1 + 1 - 1, 1 + g - 1)
    BY <1>1, <2>1, CutTwice DEF len
  <2>. QED
    BY <2>1, <2>2
<1>8. SubSeq(SubSeq(b, 1, n), g + 1, n) = SubSeq(b, g + 1, n)
  <2>1. /\ 1 \in Nat \ {0} /\ n + 1 >= 1 /\ g + 1 \in Nat \ {0} /\ n \in 0..n - 1 + 1
        /\ 1 + (g + 1) - 1 = g + 1 /\ 1 + n - 1 = n
    BY <1>1, <1>6
  <2>2. SubSeq(SubSeq(b, 1, n), g + 1, n) = SubSeq(b, 1 + (g + 1) - 1, 1 + n - 1)
    BY <1>1, <2>1, CutTwice DEF len
  <2>. QED
    BY <2>1, <2>2
<1>9. AllButLast(SubSeq(b, g + 1, len), NonceLen) = SubSeq(b, g + 1, n)
  <2>1. /\ 1 \in Nat \ {0} /\ g + 1 \in Nat \ {0} /\ len \in 0..len /\ len + 1 >= g + 1
        /\ TagLen \in 0..len - (g + 1) + 1 /\ len - (g + 1) + 1 = TagLen + NonceLen
        /\ (g + 1) + 1 - 1 = g + 1 /\ (g + 1) + TagLen - 1 = n
    BY <1>1, <1>6
  <2>2. PICK i \in Nat \ {0} : i = g + 1
    BY <2>1
  <2>. DEFINE cut == SubSeq(SubSeq(b, i, len), 1, TagLen)
  <2>3. cut = SubSeq(b, i + 1 - 1, i + TagLen - 1)
    <3>1. len \in 0..Len(b) /\ len + 1 >= i /\ TagLen \in 0..len - i + 1 /\ 1 \in Nat \ {0}
      BY <2>1, <2>2 DEF len
    <3>. QED
      BY <3>1, CutTwice
  <2>4. Len(SubSeq(b, i, len)) = len - i + 1
    <3>1. \A k \in i..len : b[k] \in S
      BY <1>1, <2>1, <2>2, ElementOfSeq DEF len
    <3>2. i <= len /\ i \in Int /\ len \in Int
      BY <1>1, <2>1, <2>2
    <3>. QED
      BY <3>1, <3>2, SubSeqProperties
  <2>5. TagLen + NonceLen > NonceLen /\ (TagLen + NonceLen) - NonceLen = TagLen
    OBVIOUS
  <2>. QED
    BY <2>1, <2>2, <2>3, <2>4, <2>5 DEF AllButLast
<1>. QED
  BY <1>2, <1>3, <1>4, <1>5, <1>7, <1>8, <1>9 DEF len, n, g

\* What the Go program does with a blob that is long enough.
LEMMA GoLong ==
  ASSUME NEW t, t.blob \in Seq(Bytes), Len(t.blob) >= TagLen + NonceLen
  PROVE  LET n    == Len(t.blob) - NonceLen
             data == SubSeq(t.blob, 1, n)
         IN  GoOpen(t) = IF t.hmac # Hmac(t.key, data) THEN Refused("error")
                         ELSE Decrypt(t.key, SubSeq(t.blob, n + 1, Len(t.blob)),
                                      SubSeq(data, 1, n - TagLen),
                                      SubSeq(data, n - TagLen + 1, n), {TagLen})
<1>1. Len(t.blob) \in Nat /\ Len(<<>>) = 0
  BY LenProperties, EmptySeq
<1>2. Len(t.blob) \notin 1..NonceLen - 1 /\ t.blob # <<>> /\ ~(Len(t.blob) - NonceLen < TagLen)
  BY <1>1
<1>. QED
  BY <1>2 DEF GoOpen

\* Where a blob is long enough the programs do the same with it.
LEMMA LongAgree ==
  ASSUME NEW t, t.blob \in Seq(Bytes), Len(t.blob) >= TagLen + NonceLen
  PROVE  GoOpen(t) = TsOpen(t)
<1>. DEFINE b == t.blob
            n == Len(b) - NonceLen
            data == SubSeq(b, 1, n)
            tag == SubSeq(data, n - TagLen + 1, n)
<1>1. /\ AllButLast(b, NonceLen) = data
      /\ LastBytes(b, NonceLen) = SubSeq(b, n + 1, Len(b))
      /\ AllButLast(b, TagLen + NonceLen) = SubSeq(data, 1, n - TagLen)
      /\ AllButLast(LastBytes(b, TagLen + NonceLen), NonceLen) = tag
  BY SameCuts
<1>2. Len(tag) = TagLen
  <2>1. /\ Len(b) \in Nat /\ n \in 0..Len(b) /\ n - TagLen + 1 \in Nat \ {0}
        /\ n + 1 >= n - TagLen + 1 /\ 1 \in Nat \ {0} /\ n >= 1
        /\ 0 \in 0..n - 1 + 1 /\ n + 1 >= 1 /\ n - 1 + 1 = n
    BY LenProperties
  <2>2. data \in Seq(Bytes) /\ Len(data) = n - 1 + 1
    BY <2>1, CutTwice
  <2>3. PICK i \in Nat \ {0} : i = n - TagLen + 1
    BY <2>1
  <2>4. n \in 0..Len(data) /\ n + 1 >= i /\ 0 \in 0..n - i + 1
    BY <2>1, <2>2, <2>3
  <2>5. Len(SubSeq(data, i, n)) = n - i + 1
    <3>. HIDE DEF data, n
    <3>. QED
      BY <2>1, <2>2, <2>4, CutTwice
  <2>6. n - i + 1 = TagLen
    BY <2>1, <2>3
  <2>. QED
    BY <2>3, <2>5, <2>6
<1>. DEFINE ct == SubSeq(data, 1, n - TagLen)
            iv == SubSeq(b, n + 1, Len(b))
<1>3. Decrypt(t.key, iv, ct, tag, {TagLen}) = Decrypt(t.key, iv, ct, tag, {TagLen} \cup ShortTags)
  <2>. HIDE DEF tag, ct, iv
  <2>. QED
    BY <1>2, WholeTag
<1>. QED
  BY <1>1, <1>3, GoLong DEF TsOpen, Aes256gcmDecrypt

\* Of a shorter one Go opens nothing, and the TypeScript program's slices leave no
\* cipher text.
LEMMA ShortRefused ==
  ASSUME NEW t \in Transaction, Len(t.blob) < TagLen + NonceLen
  PROVE  /\ GoOpen(t).result # "plain"
         /\ GoOpen(t) = Refused(IF Len(t.blob) \in 1..NonceLen - 1 THEN "panic" ELSE "error")
         /\ TsOpen(t) \in {Refused("error"), Opened(<<>>)}
<1>. DEFINE b == t.blob
<1>0. b \in Seq(Bytes) /\ t.key \in Keys
  BY DEF Transaction
<1>1. Len(b) \in Nat
  BY <1>0, LenProperties
<1>2. /\ GoOpen(t) = Refused(IF Len(b) \in 1..NonceLen - 1 THEN "panic" ELSE "error")
      /\ GoOpen(t).result # "plain"
  <2>1. Len(b) - NonceLen < TagLen
    BY <1>1
  <2>2. GoOpen(t) = Refused(IF Len(b) \in 1..NonceLen - 1 THEN "panic" ELSE "error")
    BY <2>1 DEF GoOpen
  <2>. QED
    BY <2>2 DEF Refused
<1>3. TsOpen(t) \in {Refused("error"), Opened(<<>>)}
  <2>. DEFINE iv == LastBytes(b, NonceLen)
              ct == AllButLast(b, TagLen + NonceLen)
              tag == AllButLast(LastBytes(b, TagLen + NonceLen), NonceLen)
  <2>1. TsOpen(t) \in {Refused("error"), Decrypt(t.key, iv, ct, tag, {TagLen} \cup ShortTags)}
    BY DEF TsOpen, Aes256gcmDecrypt
  <2>2. Len(ct) = 0
    <3>1. ct = SubSeq(b, 1, 0)
      <4>1. ~(Len(b) > TagLen + NonceLen)
        BY <1>1
      <4>. QED
        BY <4>1 DEF AllButLast
    <3>2. 0 \in 0..Len(b) /\ 1 \in Nat \ {0} /\ 0 + 1 >= 1 /\ 0 \in 0..0 - 1 + 1 /\ 0 - 1 + 1 = 0
      BY <1>1
    <3>3. Len(SubSeq(b, 1, 0)) = 0 - 1 + 1
      BY <1>0, <3>2, CutTwice
    <3>. QED
      BY <3>1, <3>2, <3>3
  <2>. HIDE DEF iv, ct, tag
  <2>3. ASSUME NEW n \in Nonces, NEW p \in Plains, ct = CipherText(t.key, n, p) PROVE p = <<>>
    <3>1. Len(p) = 0 /\ p \in Seq(Nat)
      BY <1>0, <2>2, <2>3, PartsTyped
    <3>. QED
      BY <3>1, EmptySeq
  <2>4. Decrypt(t.key, iv, ct, tag, {TagLen} \cup ShortTags) \in {Refused("error"), Opened(<<>>)}
    BY <2>3, DecryptResult
  <2>. QED
    BY <2>1, <2>4
<1>. QED
  BY <1>2, <1>3

\* The parts of a sealed transaction, the same whichever program seals it.
LEMMA SealedParts ==
  ASSUME NEW k \in Keys, NEW n \in Nonces, NEW p \in Plains
  PROVE  LET ct     == CipherText(k, n, p)
             sealed == ct \o Tag(k, n, p)
             t      == GoSeal(k, n, p)
         IN  /\ t \in Transaction /\ t = TsSeal(k, n, p)
             /\ sealed \in Seq(Bytes) /\ Len(sealed) = Len(p) + TagLen
             /\ SubSeq(sealed, 1, Len(p)) = ct
             /\ SubSeq(sealed, Len(p) + 1, Len(p) + TagLen) = Tag(k, n, p)
             /\ t.key = k /\ t.hmac = Hmac(k, sealed)
             /\ Len(t.blob) = Len(p) + TagLen + NonceLen
             /\ SubSeq(t.blob, 1, Len(p) + TagLen) = sealed
             /\ SubSeq(t.blob, Len(p) + TagLen + 1, Len(p) + TagLen + NonceLen) = NonceBytes(n)
<1>. DEFINE ct == CipherText(k, n, p)
            sealed == ct \o Tag(k, n, p)
            blob == sealed \o NonceBytes(n)
<1>0. /\ ct \in Seq(Bytes) /\ Len(ct) = Len(p) /\ Len(p) \in Nat
      /\ Tag(k, n, p) \in Seq(Bytes) /\ Len(Tag(k, n, p)) = TagLen
      /\ NonceBytes(n) \in Seq(Bytes) /\ Len(NonceBytes(n)) = NonceLen
  BY PartsTyped
<1>. HIDE DEF ct
<1>cut. \A a, b \in Seq(Bytes) :
         /\ a \o b \in Seq(Bytes) /\ Len(a \o b) = Len(a) + Len(b)
         /\ SubSeq(a \o b, 1, Len(a)) = a
         /\ SubSeq(a \o b, Len(a) + 1, Len(a) + Len(b)) = b
  BY CutConcat
<1>1. /\ sealed \in Seq(Bytes) /\ Len(sealed) = Len(p) + TagLen
      /\ SubSeq(sealed, 1, Len(p)) = ct
      /\ SubSeq(sealed, Len(p) + 1, Len(p) + TagLen) = Tag(k, n, p)
  <2>1. /\ sealed \in Seq(Bytes) /\ Len(sealed) = Len(ct) + Len(Tag(k, n, p))
        /\ SubSeq(sealed, 1, Len(ct)) = ct
        /\ SubSeq(sealed, Len(ct) + 1, Len(ct) + Len(Tag(k, n, p))) = Tag(k, n, p)
    BY <1>0, <1>cut
  <2>. QED
    BY <1>0, <2>1
<1>. HIDE DEF sealed
<1>2. /\ blob \in Seq(Bytes) /\ Len(blob) = Len(p) + TagLen + NonceLen
      /\ SubSeq(blob, 1, Len(p) + TagLen) = sealed
      /\ SubSeq(blob, Len(p) + TagLen + 1, Len(p) + TagLen + NonceLen) = NonceBytes(n)
  <2>1. /\ blob \in Seq(Bytes) /\ Len(blob) = Len(sealed) + Len(NonceBytes(n))
        /\ SubSeq(blob, 1, Len(sealed)) = sealed
        /\ SubSeq(blob, Len(sealed) + 1, Len(sealed) + Len(NonceBytes(n))) = NonceBytes(n)
    BY <1>0, <1>1, <1>cut
  <2>. QED
    BY <1>0, <1>1, <2>1
<1>3. /\ GoSeal(k, n, p) = [blob |-> blob, key |-> k, hmac |-> Hmac(k, sealed), secret |-> k]
      /\ TsSeal(k, n, p) = [blob |-> blob, key |-> k, hmac |-> Hmac(k, sealed), secret |-> k]
  BY DEF GoSeal, TsSeal, Aes256gcmEncrypt, Sealed, ct, sealed
<1>. HIDE DEF blob
<1>4. GoSeal(k, n, p) \in Transaction
  BY <1>1, <1>2, <1>3 DEF Transaction, Hmac
<1>. QED
  <2>1. /\ GoSeal(k, n, p) = TsSeal(k, n, p)
        /\ GoSeal(k, n, p).blob = blob /\ GoSeal(k, n, p).key = k
        /\ GoSeal(k, n, p).hmac = Hmac(k, sealed)
    BY <1>3
  <2>. QED
    BY <1>1, <1>2, <1>4, <2>1 DEF sealed, ct

\* Both programs open what either of them sealed.
LEMMA OpenSealed ==
  ASSUME NEW k \in Keys, NEW n \in Nonces, NEW p \in Plains
  PROVE  GoOpen(GoSeal(k, n, p)) = Opened(p) /\ TsOpen(GoSeal(k, n, p)) = Opened(p)
<1>. DEFINE t == GoSeal(k, n, p)
            m == Len(p) + TagLen
            sealed == CipherText(k, n, p) \o Tag(k, n, p)
<1>1. /\ t \in Transaction /\ t.key = k /\ t.hmac = Hmac(k, sealed)
      /\ Len(t.blob) = m + NonceLen
      /\ SubSeq(t.blob, 1, m) = sealed
      /\ SubSeq(t.blob, m + 1, m + NonceLen) = NonceBytes(n)
      /\ SubSeq(sealed, 1, Len(p)) = CipherText(k, n, p)
      /\ SubSeq(sealed, Len(p) + 1, m) = Tag(k, n, p)
  BY SealedParts
<1>2. t.blob \in Seq(Bytes)
  BY <1>1 DEF Transaction
<1>3. /\ Len(p) \in Nat /\ m + NonceLen >= TagLen + NonceLen
      /\ (m + NonceLen) - NonceLen = m /\ m - TagLen = Len(p)
  BY PartsTyped
<1>. HIDE DEF t, m, sealed
<1>4. GoOpen(t) = IF t.hmac # Hmac(t.key, sealed) THEN Refused("error")
                  ELSE Decrypt(t.key, NonceBytes(n), CipherText(k, n, p), Tag(k, n, p), {TagLen})
  BY <1>1, <1>2, <1>3, GoLong
<1>5. GoOpen(t) = Opened(p)
  BY <1>1, <1>4, DecryptSealed
<1>6. TsOpen(t) = GoOpen(t)
  BY <1>1, <1>2, <1>3, LongAgree
<1>. QED
  BY <1>5, <1>6 DEF t

\* A transaction that the Go program opens has the blob and the HMAC of a sealed one.
LEMMA OpenedIsSealed ==
  ASSUME NEW t \in Transaction, GoOpen(t).result = "plain"
  PROVE  \E n \in Nonces, p \in Plains :
            /\ GoOpen(t) = Opened(p)
            /\ t.blob = GoSeal(t.key, n, p).blob
            /\ t.hmac = GoSeal(t.key, n, p).hmac
<1>. DEFINE b == t.blob
            m == Len(b) - NonceLen
            data == SubSeq(b, 1, m)
            nonce == SubSeq(b, m + 1, Len(b))
            ct == SubSeq(data, 1, m - TagLen)
            tag == SubSeq(data, m - TagLen + 1, m)
<1>1. b \in Seq(Bytes) /\ Len(b) \in Nat /\ Len(b) >= TagLen + NonceLen /\ t.key \in Keys
  <2>1. b \in Seq(Bytes) /\ Len(b) \in Nat /\ t.key \in Keys
    BY LenProperties DEF Transaction
  <2>. QED
    BY <2>1, ShortRefused
<1>2. t.hmac = Hmac(t.key, data) /\ GoOpen(t) = Decrypt(t.key, nonce, ct, tag, {TagLen})
  <2>1. Refused("error").result # "plain"
    BY DEF Refused
  <2>. QED
    BY <1>1, <2>1, GoLong
<1>3. PICK n \in Nonces, p \in Plains :
         /\ nonce = NonceBytes(n) /\ ct = CipherText(t.key, n, p)
         /\ Len(tag) = TagLen /\ tag = SubSeq(Tag(t.key, n, p), 1, Len(tag))
         /\ GoOpen(t) = Opened(p)
  <2>1. Refused("error").result # "plain"
    BY DEF Refused
  <2>. HIDE DEF nonce, ct, tag
  <2>. QED
    BY <1>2, <2>1, DecryptResult
<1>4. tag = Tag(t.key, n, p)
  BY <1>1, <1>3, FullTag
<1>5. data = ct \o tag /\ b = data \o nonce
  <2>1. /\ m \in Nat /\ m \in 0..Len(b) /\ m - TagLen \in Nat /\ m >= m - TagLen
        /\ 1 \in Nat \ {0} /\ m + 1 >= 1 /\ 0 \in 0..m - 1 + 1 /\ m - 1 + 1 = m
    BY <1>1
  <2>2. data \in Seq(Bytes) /\ Len(data) = m
    <3>1. data \in Seq(Bytes) /\ Len(data) = m - 1 + 1
      BY <1>1, <2>1, CutTwice
    <3>. QED
      BY <2>1, <3>1
  <2>3. b = data \o nonce
    <3>1. /\ 1 \in 1..Len(b) + 1 /\ m \in 1 - 1..Len(b) /\ Len(b) \in m..Len(b)
      BY <1>1, <2>1
    <3>2. data \o nonce = SubSeq(b, 1, Len(b))
      BY <1>1, <3>1, ConcatAdjacentSubSeq
    <3>. QED
      BY <1>1, <3>2, SubSeqFull
  <2>. HIDE DEF data
  <2>4. data = ct \o tag
    <3>1. /\ 1 \in 1..Len(data) + 1 /\ m - TagLen \in 1 - 1..Len(data) /\ m \in m - TagLen..Len(data)
      BY <2>1, <2>2
    <3>2. ct \o tag = SubSeq(data, 1, m)
      BY <2>2, <3>1, ConcatAdjacentSubSeq
    <3>. QED
      BY <2>2, <3>2, SubSeqFull
  <2>. QED
    BY <2>3, <2>4
<1>6. /\ GoSeal(t.key, n, p).blob = data \o nonce
      /\ GoSeal(t.key, n, p).hmac = Hmac(t.key, data)
  <2>. HIDE DEF data, nonce, ct, tag
  <2>. QED
    BY <1>3, <1>4, <1>5 DEF GoSeal, Sealed
<1>. QED
  BY <1>2, <1>3, <1>5, <1>6

---------------------------------------------------------------------------
\* The last bytes of a sequence, and the others, are sequences of bytes.
LEMMA CutTyped ==
  ASSUME NEW b \in Seq(Bytes)
  PROVE  /\ \A i, j \in Int : i >= 1 /\ j <= Len(b) => SubSeq(b, i, j) \in Seq(Bytes)
         /\ AllButLast(b, NonceLen) \in Seq(Bytes)
<1>1. Len(b) \in Nat /\ \A k \in 1..Len(b) : b[k] \in Bytes
  BY LenProperties, ElementOfSeq
<1>2. ASSUME NEW i \in Int, NEW j \in Int, i >= 1, j <= Len(b) PROVE SubSeq(b, i, j) \in Seq(Bytes)
  <2>1. \A k \in i..j : b[k] \in Bytes
    BY <1>1, <1>2
  <2>. QED
    BY <2>1, SubSeqProperties
<1>3. AllButLast(b, NonceLen) \in Seq(Bytes)
  <2>. DEFINE j == IF Len(b) > NonceLen THEN Len(b) - NonceLen ELSE 0
  <2>1. j \in Int /\ j <= Len(b) /\ 1 \in Int /\ 1 >= 1
    BY <1>1
  <2>2. AllButLast(b, NonceLen) = SubSeq(b, 1, j)
    BY DEF AllButLast
  <2>. HIDE DEF j
  <2>. QED
    BY <1>2, <2>1, <2>2
<1>. QED
  BY <1>2, <1>3

\* Whatever arrives is a transaction.
LEMMA DamagedTyped ==
  ASSUME NEW t \in Transaction, NEW u \in Damaged(t)
  PROVE  u \in Transaction
<1>0. /\ t.blob \in Seq(Bytes) /\ t.key \in Keys /\ t.secret \in Keys
      /\ t.hmac \in [key : Keys, data : Seq(Bytes)]
      /\ Len(t.blob) \in Nat /\ DOMAIN t.blob = 1..Len(t.blob)
      /\ \A k \in 1..Len(t.blob) : t.blob[k] \in Bytes
  BY LenProperties, ElementOfSeq DEF Transaction
<1>1. Garbled(t.blob) \subseteq Seq(Bytes)
  <2>1. ASSUME NEW i \in 0..Len(t.blob), NEW j \in 1..Len(t.blob) + 1
        PROVE  Spliced(t.blob, i, j) \in Seq(Bytes)
    <3>1. /\ 1 \in Int /\ 1 >= 1 /\ i \in Int /\ i <= Len(t.blob)
          /\ j \in Int /\ j >= 1 /\ Len(t.blob) \in Int /\ Len(t.blob) <= Len(t.blob)
      BY <1>0
    <3>2. SubSeq(t.blob, 1, i) \in Seq(Bytes) /\ SubSeq(t.blob, j, Len(t.blob)) \in Seq(Bytes)
      BY <1>0, <3>1, CutTyped
    <3>. QED
      BY <3>2, ConcatProperties DEF Spliced
  <2>2. ASSUME NEW i \in DOMAIN t.blob, NEW j \in DOMAIN t.blob
        PROVE  [t.blob EXCEPT ![i] = t.blob[j]] \in Seq(Bytes)
    BY <1>0, ExceptSeq
  <2>. DEFINE cut == {Spliced(t.blob, i, j) : i \in 0..Len(t.blob), j \in 1..Len(t.blob) + 1}
              swapped == {[t.blob EXCEPT ![i] = t.blob[j]] : i, j \in DOMAIN t.blob}
  <2>3. ASSUME NEW b \in cut PROVE b \in Seq(Bytes)
    <3>1. PICK i \in 0..Len(t.blob), j \in 1..Len(t.blob) + 1 :
             b = Spliced(t.blob, i, j)
      OBVIOUS
    <3>. QED
      BY <2>1, <3>1
  <2>4. ASSUME NEW b \in swapped PROVE b \in Seq(Bytes)
    <3>1. PICK i \in DOMAIN t.blob, j \in DOMAIN t.blob : b = [t.blob EXCEPT ![i] = t.blob[j]]
      OBVIOUS
    <3>. QED
      BY <2>2, <3>1
  <2>5. Garbled(t.blob) = cut \cup swapped
    BY DEF Garbled
  <2>. HIDE DEF cut, swapped
  <2>. QED
    BY <2>3, <2>4, <2>5
<1>. DEFINE changed == {[t EXCEPT !.blob = b] : b \in Garbled(t.blob)}
                       \cup {[t EXCEPT !.key = k] : k \in Keys}
                       \cup {[t EXCEPT !.secret = k] : k \in Keys}
<1>2. changed \subseteq Transaction
  BY <1>0, <1>1 DEF Transaction
<1>3. ASSUME NEW v \in Transaction PROVE Rehashed(v) \in Transaction
  <2>1. /\ v.blob \in Seq(Bytes) /\ v.key \in Keys /\ v.secret \in Keys
        /\ AllButLast(v.blob, NonceLen) \in Seq(Bytes)
    BY CutTyped DEF Transaction
  <2>. QED
    BY <2>1 DEF Rehashed, Transaction, Hmac
<1>4. \A k \in Keys : [t EXCEPT !.hmac.key = k] \in Transaction
  BY <1>0 DEF Transaction
<1>5. \A n \in Nonces, p \in Plains : GoSeal(t.key, n, p) \in Transaction
  BY <1>0, SealedParts
<1>6. \/ u \in changed
      \/ \E v \in changed : u = Rehashed(v)
      \/ \E k \in Keys : u = [t EXCEPT !.hmac.key = k]
      \/ \E n \in Nonces, p \in Plains : u = GoSeal(t.key, n, p)
  BY DEF Damaged
<1>. HIDE DEF changed
<1>. QED
  BY <1>2, <1>3, <1>4, <1>5, <1>6

\* What opening comes to.
LEMMA OpenResult ==
  ASSUME NEW t
  PROVE  /\ GoOpen(t) \in {Refused("error"), Refused("panic")} \cup {Opened(p) : p \in Plains}
         /\ TsOpen(t) \in {Refused("error")} \cup {Opened(p) : p \in Plains}
<1>1. \A k, iv, ct, tag, lens :
         Decrypt(k, iv, ct, tag, lens) \in {Refused("error")} \cup {Opened(p) : p \in Plains}
  BY DecryptResult
<1>. QED
  BY <1>1 DEF GoOpen, TsOpen, Aes256gcmDecrypt

LEMMA InitInv == Init => IInv
  BY DEF Init, IInv, TypeOK, Travels, OpensWire

LEMMA InvStep == IInv /\ [Next]_vars => IInv'
<1>. SUFFICES ASSUME IInv, [Next]_vars PROVE IInv'
  OBVIOUS
<1>. DEFINE notYet == [o \in Programs |-> Refused("not yet")]
<1>0. TypeOK /\ Travels /\ OpensWire
  BY DEF IInv
<1>1. CASE Seal
  <2>1. PICK k \in Keys, n \in Nonces, p \in Plains, by \in Programs :
           /\ origin = None
           /\ wire' = (IF by = "go" THEN GoSeal(k, n, p) ELSE TsSeal(k, n, p))
           /\ origin' = [by |-> by, plain |-> p, sent |-> wire']
           /\ UNCHANGED opened
    BY <1>1 DEF Seal
  <2>2. wire' = GoSeal(k, n, p) /\ wire' \in Transaction
    BY <2>1, SealedParts
  <2>3. origin'.by \in Programs /\ origin'.plain = p /\ origin'.sent = GoSeal(k, n, p)
    BY <2>1, <2>2
  <2>4. Travels'
    BY <2>2, <2>3 DEF Travels
  <2>5. TypeOK'
    BY <1>0, <2>1, <2>3, Zenon DEF TypeOK
  <2>6. OpensWire'
    BY <1>0, <2>1 DEF OpensWire
  <2>. QED
    BY <2>4, <2>5, <2>6 DEF IInv
<1>2. CASE Damage
  <2>1. /\ origin # None /\ opened["go"] = Refused("not yet")
        /\ wire' \in Damaged(wire)
        /\ UNCHANGED <<origin, opened>>
    BY <1>2 DEF Damage
  <2>2. wire' \in Transaction
    BY <1>0, <2>1, DamagedTyped DEF Travels
  <2>3. Travels'
    BY <1>0, <2>1, <2>2 DEF Travels
  <2>4. TypeOK'
    BY <1>0, <2>1, Zenon DEF TypeOK
  <2>5. opened = notYet
    <3>1. GoOpen(wire) # Refused("not yet")
      <4>1. \/ GoOpen(wire) \in {Refused("error"), Refused("panic")}
            \/ \E p \in Plains : GoOpen(wire) = Opened(p)
        BY OpenResult
      <4>2. /\ \A r : Refused(r).result = r
            /\ \A p : Opened(p).result = "plain"
        BY DEF Refused, Opened
      <4>3. GoOpen(wire).result # "not yet"
        BY <4>1, <4>2
      <4>. QED
        BY <4>2, <4>3
    <3>. QED
      BY <1>0, <2>1, <3>1 DEF OpensWire, Programs
  <2>6. OpensWire'
    BY <2>1, <2>5 DEF OpensWire
  <2>. QED
    BY <2>3, <2>4, <2>6 DEF IInv
<1>3. CASE Open
  <2>1. /\ origin # None
        /\ opened' = [o \in Programs |-> IF o = "go" THEN GoOpen(wire) ELSE TsOpen(wire)]
        /\ UNCHANGED <<origin, wire>>
    BY <1>3 DEF Open
  <2>2. Travels' /\ OpensWire'
    BY <1>0, <2>1 DEF Travels, OpensWire
  <2>3. TypeOK'
    <3>1. \A o \in Programs : opened'[o] \in {GoOpen(wire), TsOpen(wire)}
      BY <2>1
    <3>2. \A o \in Programs :
             \/ opened'[o] \in {Refused(r) : r \in {"not yet", "error", "panic"}}
             \/ opened'[o] \in {Opened(p) : p \in Plains}
      BY <3>1, OpenResult
    <3>. QED
      BY <1>0, <2>1, <3>2, Zenon DEF TypeOK
  <2>. QED
    BY <2>2, <2>3 DEF IInv
<1>4. CASE UNCHANGED vars
  BY <1>0, <1>4 DEF vars, IInv, TypeOK, Travels, OpensWire
<1>. QED
  BY <1>1, <1>2, <1>3, <1>4 DEF Next

\* Every reachable state satisfies the inductive invariant.
THEOREM Invariant == Spec => []IInv
  BY InitInv, InvStep, PTL DEF Spec

---------------------------------------------------------------------------
\* Both programs' results are a plain text, an error or a panic.
THEOREM TypeCorrect == Spec => []TypeOK
<1>1. IInv => TypeOK
  BY DEF IInv
<1>. QED
  BY <1>1, Invariant, PTL

\* What a program opens it to, when it has.
LEMMA Opening ==
  ASSUME IInv, opened # [o \in Programs |-> Refused("not yet")]
  PROVE  /\ origin # None /\ wire \in Transaction
         /\ opened["go"] = GoOpen(wire) /\ opened["ts"] = TsOpen(wire)
  BY DEF IInv, OpensWire, Travels, Programs

\* Whichever program sealed a transaction, both open it to the same plain text, for
\* every plain text, key and nonce, whatever the fields neither program reads have
\* become (aesgcm.go:20-84, utils.ts:21-42).
THEOREM SealedOpens == Spec => []RoundTrip
<1>1. IInv => RoundTrip
  <2>. SUFFICES ASSUME IInv, opened["go"] # Refused("not yet"),
                       wire.blob = origin.sent.blob, wire.key = origin.sent.key,
                       wire.hmac = origin.sent.hmac
                PROVE  \A o \in Programs : opened[o] = Opened(origin.plain)
    BY DEF RoundTrip
  <2>1. /\ origin # None
        /\ opened["go"] = GoOpen(wire) /\ opened["ts"] = TsOpen(wire)
    BY Opening DEF Programs
  <2>2. GoOpen(wire) = GoOpen(origin.sent) /\ TsOpen(wire) = TsOpen(origin.sent)
    BY DEF GoOpen, TsOpen
  <2>3. PICK k \in Keys, n \in Nonces : origin.sent = GoSeal(k, n, origin.plain)
    BY <2>1 DEF IInv, Travels
  <2>4. origin.plain \in Plains
    BY <2>1 DEF IInv, TypeOK
  <2>. QED
    BY <2>1, <2>2, <2>3, <2>4, OpenSealed DEF Programs
<1>. QED
  BY <1>1, Invariant, PTL

\* Of everything that may arrive, also with an HMAC that fits, the two ways of cutting
\* a blob make the same, but for a blob shorter than a nonce, where Go panics, and one
\* with a cut tag, of which Node may make the empty text (aesgcm.go:61-62,
\* utils.ts:33-38).
THEOREM SameOpening == Spec => []DecodersAgree
<1>1. IInv => DecodersAgree
  <2>. SUFFICES ASSUME IInv PROVE DecodersAgree
    OBVIOUS
  <2>1. CASE opened = [o \in Programs |-> Refused("not yet")]
    BY <2>1 DEF DecodersAgree, Programs
  <2>2. CASE opened # [o \in Programs |-> Refused("not yet")]
    <3>1. /\ wire \in Transaction
          /\ opened["go"] = GoOpen(wire) /\ opened["ts"] = TsOpen(wire)
      BY <2>2, Opening
    <3>2. wire.blob \in Seq(Bytes) /\ Len(wire.blob) \in Nat
      BY <3>1, LenProperties DEF Transaction
    <3>3. CASE CutTag
      <4>1. /\ GoOpen(wire) = Refused(IF Len(wire.blob) \in 1..NonceLen - 1 THEN "panic" ELSE "error")
            /\ TsOpen(wire) \in {Refused("error"), Opened(<<>>)}
        BY <3>1, <3>3, ShortRefused DEF CutTag
      <4>. QED
        BY <3>1, <3>2, <3>3, <4>1 DEF DecodersAgree
    <3>4. CASE ~CutTag
      <4>1. GoOpen(wire) = TsOpen(wire)
        BY <3>2, <3>4, LongAgree DEF CutTag
      <4>. QED
        BY <3>1, <4>1 DEF DecodersAgree
    <3>. QED
      BY <3>3, <3>4
  <2>. QED
    BY <2>1, <2>2
<1>. QED
  BY <1>1, Invariant, PTL

\* Neither program opens anything that does not have the blob and the HMAC of a
\* transaction sealed under the key it carries, but for the empty text Node makes of a
\* cut tag (aesgcm.go:64-81, tx-transformer.ts:70-75).
THEOREM OnlySealedOpens == Spec => []OpensOnlySealed
<1>1. IInv => OpensOnlySealed
  <2>. SUFFICES ASSUME IInv, NEW o \in Programs, opened[o].result = "plain"
                PROVE  \/ \E n \in Nonces :
                            /\ wire.blob = GoSeal(wire.key, n, opened[o].text).blob
                            /\ wire.hmac = GoSeal(wire.key, n, opened[o].text).hmac
                       \/ o = "ts" /\ CutTag /\ opened[o].text = <<>>
    BY DEF OpensOnlySealed
  <2>1. /\ \A p : Opened(p).result = "plain" /\ Opened(p).text = p
        /\ \A r : Refused(r).result = r
    BY DEF Opened, Refused
  <2>2. /\ wire \in Transaction
        /\ opened["go"] = GoOpen(wire) /\ opened["ts"] = TsOpen(wire)
    <3>1. ASSUME opened = [q \in Programs |-> Refused("not yet")] PROVE FALSE
      <4>1. opened[o] = Refused("not yet")
        BY <3>1
      <4>2. Refused("not yet").result = "not yet"
        BY DEF Refused
      <4>. QED
        BY <4>1, <4>2
    <3>. QED
      BY <3>1, Opening
  <2>3. wire.blob \in Seq(Bytes) /\ Len(wire.blob) \in Nat
    BY <2>2, LenProperties DEF Transaction
  <2>4. CASE CutTag
    <3>1. GoOpen(wire).result # "plain" /\ TsOpen(wire) \in {Refused("error"), Opened(<<>>)}
      BY <2>2, <2>4, ShortRefused DEF CutTag
    <3>. QED
      BY <2>1, <2>2, <2>4, <3>1 DEF Programs
  <2>5. CASE ~CutTag
    <3>1. opened[o] = GoOpen(wire)
      BY <2>2, <2>3, <2>5, LongAgree DEF CutTag, Programs
    <3>2. PICK n \in Nonces, p \in Plains :
             /\ GoOpen(wire) = Opened(p)
             /\ wire.blob = GoSeal(wire.key, n, p).blob
             /\ wire.hmac = GoSeal(wire.key, n, p).hmac
      BY <2>2, <3>1, OpenedIsSealed
    <3>. QED
      BY <2>1, <3>1, <3>2
  <2>. QED
    BY <2>4, <2>5
<1>. QED
  BY <1>1, Invariant, PTL
=============================================================================
