------------------------------- MODULE MCPrizes -------------------------------
(* Small instances of Prizes for TLC. *)
EXTENDS Prizes, TLC

Symmetry == Permutations(Requests)
=============================================================================
