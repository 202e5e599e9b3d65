--------------------------- MODULE MCCenterServer ---------------------------
(* An instance of CenterServer for TLC. *)
EXTENDS CenterServer
=============================================================================
