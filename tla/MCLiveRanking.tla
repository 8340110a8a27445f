----------------------------- MODULE MCLiveRanking -----------------------------
(* Small instances of LiveRanking for TLC. *)
EXTENDS LiveRanking, TLC

CONSTANTS s1, s2, s3, s4

\* A wrong and a right submission of one team in the same second, and a wrong
\* and a frozen right one of another team, which was not judged at first.
MCTeamOf == s1 :> 1 @@ s2 :> 1 @@ s3 :> 2 @@ s4 :> 2
MCTaskOf == [s \in Submissions |-> 7]
MCSentAt == s1 :> 1 @@ s2 :> 1 @@ s3 :> 2 @@ s4 :> 3
MCOutcomes == {<<s1, "WA">>, <<s2, "OK">>, <<s3, "WA">>, <<s4, "OK">>, <<s4, "SE">>}
================================================================================
