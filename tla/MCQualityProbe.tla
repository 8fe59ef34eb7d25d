---------------------------- MODULE MCQualityProbe ----------------------------
(* A finite instance of QualityProbe for TLC. *)
EXTENDS QualityProbe
===============================================================================
