----------------------------- MODULE MCInterop -----------------------------
(***************************************************************************)
(* Instances of Interop for TLC: two concurrent calls.                     *)
(***************************************************************************)
EXTENDS Interop

CONSTANTS c1, c2
===========================================================================
