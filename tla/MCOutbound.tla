---------------------------- MODULE MCOutbound ----------------------------
(***************************************************************************)
(* Instances of Outbound for TLC: two transfers of one TRISA VASP share a  *)
(* stream, a third one comes from another VASP.                            *)
(***************************************************************************)
EXTENDS Outbound

CONSTANTS t1, t2, t3, s1, s2

MCStreamOf == [t \in Transfers |-> IF t = t3 THEN s2 ELSE s1]
===========================================================================
