----------------------------- MODULE MCInbound -----------------------------
(***************************************************************************)
(* Instances of Inbound for TLC: c4 repeats the callback of c1, the other  *)
(* calls are about transfers of their own.                                 *)
(***************************************************************************)
EXTENDS Inbound

CONSTANTS c1, c2, c3, c4

MCIdOf == [c \in Calls |-> IF c = c4 THEN c1 ELSE c]
===========================================================================
