------------------------------ MODULE MCUsers ------------------------------
(* A small instance of Users. *)
EXTENDS Users
=============================================================================
