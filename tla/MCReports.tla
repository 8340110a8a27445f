------------------------------- MODULE MCReports -------------------------------
(* Small instances of Reports for TLC. *)
EXTENDS Reports, TLC

Symmetry == Permutations(Evaluations)
=============================================================================
