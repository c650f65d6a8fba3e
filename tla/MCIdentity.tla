---------------------------- MODULE MCIdentity ----------------------------
(***************************************************************************)
(* An instance of Identity for TLC: a complete directory and one with a    *)
(* key the peer no longer uses; the peer's own directory is complete or    *)
(* lacks the originator; the endpoint may change between two starts.       *)
(***************************************************************************)
EXTENDS Identity

MCDirectories == {[peer |-> key, sygna |-> "sygna"] : key \in {"peer", "old"}}

MCPeerKeys == {"own", NoKey}
===========================================================================
