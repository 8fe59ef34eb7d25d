--------------------------- MODULE MCTargetWrites ---------------------------
(* Finite instances of TargetWrites for TLC. *)
EXTENDS TargetWrites, TLC

Symmetry == Permutations(Intent)
===============================================================================
