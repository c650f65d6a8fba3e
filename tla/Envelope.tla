------------------------------ MODULE Envelope ------------------------------
(***************************************************************************)
(* The envelope of a TRISA transaction, as the TRISA VASP (Go) and the     *)
(* Sygna Gateway (TypeScript) seal and open it: AES-GCM with the tag after *)
(* the cipher text and the nonce after the tag, and an HMAC over cipher    *)
(* text and tag under the same key, which travels beside them.  Each       *)
(* program must open what the other one sealed, and cuts the same bytes by *)
(* different means.  Every byte of a cipher text or tag names what it was  *)
(* made from, and an HMAC is its key and data.                             *)
(***************************************************************************)
EXTENDS Integers, Sequences

CONSTANTS
    Keys,       \* encryption keys, of 32 bytes
    Nonces,     \* nonces
    Plains,     \* serialized transaction data, as sequences of bytes
    TagLen,     \* bytes of an authentication tag (16)
    ShortTags,  \* lengths of cut tags that Node's setAuthTag takes (4, 8, 12 to 15)
    NonceLen    \* bytes of a nonce (12)

ASSUME EnvelopeAssumption ==
    /\ \A p \in Plains : p \in Seq(Nat)
    /\ TagLen \in Nat \ {0}
    /\ ShortTags \subseteq 1..TagLen - 1
    /\ NonceLen \in Nat \ {0}

VARIABLES
    origin,  \* what was sealed and by which program, and the transaction it sent
    wire,    \* the transaction as it travels
    opened   \* what each program made of it

vars == <<origin, wire, opened>>

Programs == {"go", "ts"}

\* What opening comes to: the plain text, an error or a panic.
Opened(p) == [result |-> "plain", text |-> p]
Refused(r) == [result |-> r, text |-> <<>>]

---------------------------------------------------------------------------
\* AES-GCM and its parts, byte by byte.
CipherText(k, n, p) == [i \in 1..Len(p) |-> <<"cipher", k, n, p, i>>]
Tag(k, n, p)        == [i \in 1..TagLen |-> <<"tag", k, n, p, i>>]
NonceBytes(n)       == [i \in 1..NonceLen |-> <<"nonce", n, i>>]

Hmac(k, data) == [key |-> k, data |-> data]

\* The last n bytes of s, or what there is of them, and what precedes them:
\* JavaScript's s.slice(-n) and s.slice(0, -n).
LastBytes(s, n) == SubSeq(s, IF Len(s) > n THEN Len(s) - n + 1 ELSE 1, Len(s))
AllButLast(s, n) == SubSeq(s, 1, IF Len(s) > n THEN Len(s) - n ELSE 0)

\* Decryption of ct under a nonce given in bytes, with a tag that may be cut to
\* one of the lengths lens: the plain text they were made from, or an error.
Decrypt(k, iv, ct, tag, lens) ==
    LET made == {p \in Plains : \E n \in Nonces :
                    /\ iv = NonceBytes(n) /\ ct = CipherText(k, n, p)
                    /\ Len(tag) \in lens /\ tag = SubSeq(Tag(k, n, p), 1, Len(tag))}
    IN  IF made = {} THEN Refused("error") ELSE Opened(CHOOSE p \in made : TRUE)

---------------------------------------------------------------------------
\* The fields both programs fill in and read, and hmac_secret, which neither reads;
\* it stands for the names of the algorithms too.
Sealed(blob, k, sealed) ==
    [blob |-> blob, key |-> k, hmac |-> Hmac(k, sealed), secret |-> k]

\* aesgcm.Encrypt and protocol.EncodeTransactionData.
GoSeal(k, n, p) ==
    LET sealed == CipherText(k, n, p) \o Tag(k, n, p)
    IN  Sealed(sealed \o NonceBytes(n), k, sealed)

\* aes256gcmEncrypt.
Aes256gcmEncrypt(k, n, p) ==
    [cipherText |-> CipherText(k, n, p) \o Tag(k, n, p), nonce |-> NonceBytes(n)]

\* Mutant: the nonce goes before the cipher text, as other protocols have it.
TsSealNonceFirst(k, n, p) ==
    LET made == Aes256gcmEncrypt(k, n, p)
    IN  Sealed(made.nonce \o made.cipherText, k, made.cipherText)

\* sygnaTxToTrisa: p stands for the transaction data it fills in and serializes.
TsSeal(k, n, p) ==
    LET made == Aes256gcmEncrypt(k, n, p)
    IN  Sealed(made.cipherText \o made.nonce, k, made.cipherText)

\* Mutant: the HMAC is not compared.
GoOpenUnchecked(t) ==
    LET n == Len(t.blob) - NonceLen
    IN  IF Len(t.blob) < NonceLen + TagLen THEN Refused("error")
        ELSE Decrypt(t.key, SubSeq(t.blob, n + 1, Len(t.blob)), SubSeq(t.blob, 1, n - TagLen),
                     SubSeq(t.blob, n - TagLen + 1, n), {TagLen})

\* aesgcm.Decrypt, as DecodeTransaction calls it: an empty blob is an error, one
\* shorter than the nonce makes the slice expression panic, and Open wants the
\* tag behind the cipher text.
GoOpen(t) ==
    LET n     == Len(t.blob) - NonceLen
        data  == SubSeq(t.blob, 1, n)
        nonce == SubSeq(t.blob, n + 1, Len(t.blob))
    IN  IF Len(t.blob) \in 1..NonceLen - 1 THEN Refused("panic")
        ELSE IF t.blob = <<>> \/ n < TagLen \/ t.hmac # Hmac(t.key, data) THEN Refused("error")
        ELSE Decrypt(t.key, nonce, SubSeq(data, 1, n - TagLen),
                     SubSeq(data, n - TagLen + 1, n), {TagLen})

\* Mutant: the tag is looked for before the cipher text.
TsOpenTagFirst(t) ==
    LET data == AllButLast(t.blob, NonceLen)
    IN  IF t.hmac # Hmac(t.key, data) \/ Len(data) < TagLen THEN Refused("error")
        ELSE Decrypt(t.key, LastBytes(t.blob, NonceLen), SubSeq(data, TagLen + 1, Len(data)),
                     SubSeq(data, 1, TagLen), {TagLen})

\* Mutant: the plain text fills a buffer of the size of cipher text and tag.
DecryptPadded(k, blob) ==
    LET made == Decrypt(k, LastBytes(blob, NonceLen), AllButLast(blob, TagLen + NonceLen),
                        AllButLast(LastBytes(blob, TagLen + NonceLen), NonceLen), {TagLen})
    IN  IF made.result = "plain" THEN Opened(made.text \o [i \in 1..TagLen |-> 0]) ELSE made

\* aes256gcmDecrypt takes the three parts off the end of the blob; slices that
\* reach too far are only shorter, and setAuthTag is given no length to insist on.
Aes256gcmDecrypt(k, blob) ==
    Decrypt(k, LastBytes(blob, NonceLen), AllButLast(blob, TagLen + NonceLen),
            AllButLast(LastBytes(blob, TagLen + NonceLen), NonceLen), {TagLen} \cup ShortTags)

\* trisaTxToSygna up to where the transaction data are deserialized.
TsOpen(t) ==
    IF t.hmac # Hmac(t.key, AllButLast(t.blob, NonceLen)) THEN Refused("error")
    ELSE Aes256gcmDecrypt(t.key, t.blob)

---------------------------------------------------------------------------
None == [by |-> "nobody"]

Init ==
    /\ origin = None
    /\ wire = None
    /\ opened = [o \in Programs |-> Refused("not yet")]

\* One of the programs seals a transaction and sends it.
Seal == \E k \in Keys, n \in Nonces, p \in Plains, by \in Programs :
    /\ origin = None
    /\ wire' = IF by = "go" THEN GoSeal(k, n, p) ELSE TsSeal(k, n, p)
    /\ origin' = [by |-> by, plain |-> p, sent |-> wire']
    /\ UNCHANGED opened

\* A run of bytes is missing from the blob or there twice, or one byte is another.
Spliced(b, i, j) == SubSeq(b, 1, i) \o SubSeq(b, j, Len(b))

Garbled(b) ==
    {Spliced(b, i, j) : i \in 0..Len(b), j \in 1..Len(b) + 1}
    \cup {[b EXCEPT ![i] = b[j]] : i, j \in DOMAIN b}

\* The transaction with the HMAC of what it holds, under the key it carries.
Rehashed(t) == [t EXCEPT !.hmac = Hmac(t.key, AllButLast(t.blob, NonceLen))]

\* What else may arrive, from another implementation or changed on the way: the blob
\* garbled or a field another one, also with an HMAC that fits, or a transaction
\* sealed anew under the key the first one carries.
Damaged(t) ==
    LET changed == {[t EXCEPT !.blob = b] : b \in Garbled(t.blob)}
                   \cup {[t EXCEPT !.key = k] : k \in Keys}
                   \cup {[t EXCEPT !.secret = k] : k \in Keys}
    IN  changed \cup {Rehashed(u) : u \in changed}
                \cup {[t EXCEPT !.hmac.key = k] : k \in Keys}
                \cup {GoSeal(t.key, n, p) : n \in Nonces, p \in Plains}

Damage ==
    /\ origin # None
    /\ wire = origin.sent
    /\ opened["go"] = Refused("not yet")
    /\ wire' \in Damaged(wire) \ {wire}
    /\ UNCHANGED <<origin, opened>>

\* Both programs open what arrives.
Open ==
    /\ origin # None
    /\ opened["go"] = Refused("not yet")
    /\ opened' = [o \in Programs |-> IF o = "go" THEN GoOpen(wire) ELSE TsOpen(wire)]
    /\ UNCHANGED <<origin, wire>>

Next == Seal \/ Damage \/ Open

Spec == Init /\ [][Next]_vars

TypeOK ==
    /\ origin # None => origin.by \in Programs /\ origin.plain \in Plains
    /\ \A o \in Programs :
          \/ opened[o] \in {Refused(r) : r \in {"not yet", "error", "panic"}}
          \/ opened[o] \in {Opened(p) : p \in Plains}

\* Whichever program sealed a transaction, both open it to the same plain text, as
\* long as blob, key and HMAC are those it sent, whatever the other fields have
\* become (aesgcm.go:20-84, utils.ts:21-42, tx-transformer.ts:52-77).
RoundTrip ==
    (/\ opened["go"] # Refused("not yet")
     /\ wire.blob = origin.sent.blob /\ wire.key = origin.sent.key /\ wire.hmac = origin.sent.hmac)
        => \A o \in Programs : opened[o] = Opened(origin.plain)

\* The blob is too short for a nonce and a whole tag.
CutTag == Len(wire.blob) < TagLen + NonceLen

\* The two programs make the same of what arrives, although the Go program cuts from
\* the front by length and the TypeScript program from the end with clamped slices
\* (aesgcm.go:61-62, utils.ts:33-35), with two exceptions: a blob shorter than a nonce
\* makes the Go program panic where the TypeScript program has an error, and a cut tag
\* leaves no cipher text before it, and Node may open that to the empty text.
DecodersAgree ==
    \/ opened["go"] = opened["ts"]
    \/ /\ opened["go"] = Refused("panic") /\ Len(wire.blob) < NonceLen
       /\ opened["ts"] = Refused("error")
    \/ CutTag /\ opened["ts"] = Opened(<<>>)

\* Whatever arrives, what a program opens is cipher text, tag, nonce and HMAC that
\* were made of that plain text under the key beside them (aesgcm.go:64-81,
\* tx-transformer.ts:70-75), except for Node's empty text; by whom they were made it
\* does not say, as the key is there for everyone to use.
OpensOnlySealed == \A o \in Programs : opened[o].result = "plain" =>
    \/ \E n \in Nonces : LET made == GoSeal(wire.key, n, opened[o].text)
                         IN  wire.blob = made.blob /\ wire.hmac = made.hmac
    \/ o = "ts" /\ CutTag /\ opened[o].text = <<>>
=============================================================================
