--------------------------- MODULE MCTrisaServer ---------------------------
(***************************************************************************)
(* Instances of TrisaServer for TLC.                                       *)
(***************************************************************************)
EXTENDS TrisaServer

CONSTANTS c1, c2, c3
===========================================================================
