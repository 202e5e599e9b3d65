---------------------------- MODULE MCPairNodes ----------------------------
(* An instance of PairNodes for TLC. *)
EXTENDS PairNodes
=============================================================================
