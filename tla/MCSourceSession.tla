--------------------------- MODULE MCSourceSession ---------------------------
(* Finite instances of SourceSession for TLC. *)
EXTENDS SourceSession, TLC

Symmetry == Permutations(Token) \cup Permutations(Worker)
===============================================================================
