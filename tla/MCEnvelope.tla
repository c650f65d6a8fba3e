----------------------------- MODULE MCEnvelope -----------------------------
(***************************************************************************)
(* An instance of Envelope for TLC: plain texts of zero to three bytes,    *)
(* a tag of three bytes and a nonce of two, so that every cut of a blob is *)
(* shorter or longer than each of them.                                    *)
(***************************************************************************)
EXTENDS Envelope

CONSTANTS k1, k2, n1, n2

MCPlains == {<<>>, <<1>>, <<2>>, <<1, 2>>, <<2, 1, 2>>}
=============================================================================
