---------------------------- MODULE MCUserResults ----------------------------
(* A small instance of UserResults for TLC.                                  *)
EXTENDS UserResults, TLC

\* Two submissions for a problem of one round, the third for one of another.
TwoProblems == 1 :> "p1" @@ 2 :> "p1" @@ 3 :> "p2"
TwoRounds == "p1" :> "r1" @@ "p2" :> "r2"

Symmetry == Permutations(Judgings) \cup Permutations(Requests)
=============================================================================
