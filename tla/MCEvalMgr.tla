----------------------------- MODULE MCEvalMgr -----------------------------
(* Model-checking instances of EvalMgr.                                     *)
EXTENDS EvalMgr, TLC

CONSTANTS j1, j2, w1, w2, c1, c2

OneTransfer == <<"handler", "sioworkers", "handler">>
\* Of both kinds, so that one run has both ways a transfer can fail.
TwoTransfers == <<"zeus", "sioworkers">>

Symmetry == Permutations(Workers) \cup Permutations(Callers)
=============================================================================
