---------------------------- MODULE MCWindowLife ----------------------------
(* Instances of WindowLife for TLC. *)
EXTENDS WindowLife, TLC

Symmetry == Permutations(Windows)
=============================================================================
