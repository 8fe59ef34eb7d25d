--------------------------- MODULE MCManagedActions ---------------------------
(* Finite instances of ManagedActions for TLC. *)
EXTENDS ManagedActions, TLC

Symmetry == Permutations(Intent)
===============================================================================
