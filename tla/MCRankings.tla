----------------------------- MODULE MCRankings -----------------------------
(* Small instances of Rankings for TLC. *)
EXTENDS Rankings, TLC

Symmetry == Permutations(Keys) \cup Permutations(Daemons) \cup Permutations(Writers)
=============================================================================
