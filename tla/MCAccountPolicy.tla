---------------------------- MODULE MCAccountPolicy ----------------------------
(* Finite instances of AccountPolicy for TLC. *)
EXTENDS AccountPolicy, TLC
===============================================================================
