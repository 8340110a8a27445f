------------------------------ MODULE MCRejudging ------------------------------
(* Small instances of Rejudging for TLC. *)
EXTENDS Rejudging, TLC

Symmetry == Permutations(Subs) \cup Permutations(Names)
=============================================================================
