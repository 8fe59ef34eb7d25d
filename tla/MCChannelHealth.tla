--------------------------- MODULE MCChannelHealth ---------------------------
(* Finite instances of ChannelHealth for TLC. *)
EXTENDS ChannelHealth, TLC

Symmetry == Permutations(Check) \cup Permutations(Prober)
===============================================================================
