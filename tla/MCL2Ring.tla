------------------------------ MODULE MCL2Ring ------------------------------
(* L2Ring on a small ring, for TLC. *)
EXTENDS L2Ring
=============================================================================
