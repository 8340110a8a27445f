----------------------------- MODULE UserResults -----------------------------
(***************************************************************************)
(* The results of one user in one contest: UserResultForProblem, ForRound  *)
(* and ForContest are aggregated, level by level, from the scores of the   *)
(* submissions (oioioi/contests/controllers.py, problems/controllers.py).  *)
(*                                                                         *)
(* Two kinds of processes do it at the same time.  A judging (the recipe   *)
(* of an evaluation job) saves the score and then updates each level in a  *)
(* transaction of its own.  A request that changes the kind of a           *)
(* submission does everything in one transaction and keeps its row locks   *)
(* until it commits.  Isolation is READ COMMITTED; Model.save() writes     *)
(* every column of the object that was loaded before.                      *)
(***************************************************************************)
EXTENDS Naturals, FiniteSets, Functions

CONSTANTS
    Submissions,   \* the user's submissions, numbered by their dates
    Problems,      \* problem instances of the contest
    Rounds,
    ProblemOf,     \* the problem instance of a submission
    RoundOf,       \* the round of a problem instance
    Trial,         \* the rounds with is_trial
    Scores,        \* values of scores
    Judgings,      \* evaluation jobs under way at the same time
    Requests,      \* requests changing kinds at the same time
    None           \* NULL

ASSUME NoneAssumption == None \notin Nat

ASSUME DataAssumption ==
    /\ Submissions \subseteq Nat /\ Submissions # {} /\ Scores \subseteq Nat
    /\ ProblemOf \in [Submissions -> Problems]
    /\ RoundOf \in [Problems -> Rounds]
    /\ Trial \subseteq Rounds

VARIABLES
    kind,      \* Submission.kind is 'NORMAL'
    score,     \* Submission.score
    problem,   \* UserResultForProblem.score, None also without a row
    round,     \* UserResultForRound.score
    contest,   \* UserResultForContest.score
    judging,   \* the local state of each judging
    request    \* the local state of each request, with its uncommitted writes

results == <<problem, round, contest>>
vars == <<kind, score, results, judging, request>>

Value == Nat \cup {None}

\* The states of the processes, with results in V; `value` is computed while
\* the row of the level is locked.
JudgingStates(V) ==
    [pc : {"idle", "score", "problem", "saveProblem", "round", "saveRound",
           "contest", "saveContest"},
     sub : Submissions, kind : BOOLEAN, value : V]
RequestStates(V) ==
    [pc : {"idle", "kind", "problem", "round", "contest", "commit"},
     sub : Submissions, kind : BOOLEAN, score : V, problem : V, round : V, contest : V]

SomeSubmission == CHOOSE s \in Submissions : TRUE
IdleJudging == [pc |-> "idle", sub |-> SomeSubmission, kind |-> FALSE, value |-> None]
IdleRequest == [pc |-> "idle", sub |-> SomeSubmission, kind |-> FALSE, score |-> None,
                problem |-> None, round |-> None, contest |-> None]

TypeOver(V) ==
    /\ kind \in [Submissions -> BOOLEAN]
    /\ score \in [Submissions -> V]
    /\ problem \in [Problems -> V]
    /\ round \in [Rounds -> V]
    /\ contest \in V
    /\ judging \in [Judgings -> JudgingStates(V)]
    /\ request \in [Requests -> RequestStates(V)]

Init ==
    /\ kind \in [Submissions -> BOOLEAN]
    /\ score = [s \in Submissions |-> None]
    /\ problem = [p \in Problems |-> None]
    /\ round = [r \in Rounds |-> None]
    /\ contest = None
    /\ judging = [j \in Judgings |-> IdleJudging]
    /\ request = [q \in Requests |-> IdleRequest]

(***************************************************************************)
(* Aggregation, from the columns a transaction sees                        *)
(***************************************************************************)
\* ContestController._sum_scores
SumScores(f) ==
    LET present == {x \in DOMAIN f : f[x] # None}
    IN  IF present = {} THEN None
        ELSE FoldFunctionOnSet(LAMBDA a, b : a + b, 0, f, present)

\* Submission's latest(), of those that have a score.
LatestScore(f) ==
    LET scored == {s \in DOMAIN f : f[s] # None}
    IN  IF scored = {} THEN None
        ELSE f[CHOOSE s \in scored : \A t \in scored : t <= s]

\* update_user_result_for_problem
ProblemScore(p, k, sc) ==
    LatestScore([s \in {t \in Submissions : ProblemOf[t] = p /\ k[t]} |-> sc[s]])

\* update_user_result_for_round, update_user_result_for_contest
RoundScore(r, ps) == SumScores([p \in {q \in Problems : RoundOf[q] = r} |-> ps[p]])
AllRoundsScore(rs) == SumScores(rs)   \* slip: trial rounds are not left out
ContestScore(rs) == SumScores([r \in Rounds \ Trial |-> rs[r]])

(***************************************************************************)
(* Row locks: select_for_update, or the row's uncommitted write.           *)
(***************************************************************************)
JProblem(j) == ProblemOf[judging[j].sub]
JRound(j) == RoundOf[JProblem(j)]
QProblem(q) == ProblemOf[request[q].sub]
QRound(q) == RoundOf[QProblem(q)]

SubmissionLocked(s) == \E q \in Requests :
    request[q].pc \in {"problem", "round", "contest", "commit"} /\ request[q].sub = s
NoLock(p) == FALSE   \* slip: no select_for_update
ProblemLocked(p) ==
    \/ \E j \in Judgings : judging[j].pc = "saveProblem" /\ JProblem(j) = p
    \/ \E q \in Requests : request[q].pc \in {"round", "contest", "commit"} /\ QProblem(q) = p
NoRoundLock(r) == FALSE   \* slip: no select_for_update
RoundLocked(r) ==
    \/ \E j \in Judgings : judging[j].pc = "saveRound" /\ JRound(j) = r
    \/ \E q \in Requests : request[q].pc \in {"contest", "commit"} /\ QRound(q) = r
ContestLocked ==
    \/ \E j \in Judgings : judging[j].pc = "saveContest"
    \/ \E q \in Requests : request[q].pc = "commit"

(***************************************************************************)
(* A judging                                                               *)
(***************************************************************************)
\* update_submission_score loads the submission ...
LoadSubmission(j, s) ==
    /\ judging[j].pc = "idle"
    /\ judging' = [judging EXCEPT ![j] = [@ EXCEPT !.pc = "score", !.sub = s,
                                                   !.kind = kind[s]]]
    /\ UNCHANGED <<kind, score, results, request>>

\* ... and saves it with the score of the active report (v).
SaveScore(j, v) ==
    /\ judging[j].pc = "score"
    /\ ~SubmissionLocked(judging[j].sub)
    /\ score' = [score EXCEPT ![judging[j].sub] = v]
    /\ kind' = [kind EXCEPT ![judging[j].sub] = judging[j].kind]
    /\ judging' = [judging EXCEPT ![j] = [@ EXCEPT !.pc = "problem", !.kind = FALSE]]
    /\ UNCHANGED <<results, request>>

\* ProblemController.update_user_results: lock the row and aggregate ...
ReadProblem(j) ==
    /\ judging[j].pc = "problem"
    /\ ~ProblemLocked(JProblem(j))
    /\ judging' = [judging EXCEPT ![j] = [@ EXCEPT !.pc = "saveProblem",
                       !.value = ProblemScore(JProblem(j), kind, score)]]
    /\ UNCHANGED <<kind, score, results, request>>

\* ... and save.
SaveProblem(j) ==
    /\ judging[j].pc = "saveProblem"
    /\ problem' = [problem EXCEPT ![JProblem(j)] = judging[j].value]
    /\ judging' = [judging EXCEPT ![j] = [@ EXCEPT !.pc = "round", !.value = None]]
    /\ UNCHANGED <<kind, score, round, contest, request>>

ReadRound(j) ==
    /\ judging[j].pc = "round"
    /\ ~RoundLocked(JRound(j))
    /\ judging' = [judging EXCEPT ![j] = [@ EXCEPT !.pc = "saveRound",
                       !.value = RoundScore(JRound(j), problem)]]
    /\ UNCHANGED <<kind, score, results, request>>

SaveRound(j) ==
    /\ judging[j].pc = "saveRound"
    /\ round' = [round EXCEPT ![JRound(j)] = judging[j].value]
    /\ judging' = [judging EXCEPT ![j] = [@ EXCEPT !.pc = "contest", !.value = None]]
    /\ UNCHANGED <<kind, score, problem, contest, request>>

ReadContest(j) ==
    /\ judging[j].pc = "contest"
    /\ ~ContestLocked
    /\ judging' = [judging EXCEPT ![j] = [@ EXCEPT !.pc = "saveContest",
                       !.value = ContestScore(round)]]
    /\ UNCHANGED <<kind, score, results, request>>

SaveContest(j) ==
    /\ judging[j].pc = "saveContest"
    /\ contest' = judging[j].value
    /\ judging' = [judging EXCEPT ![j] = IdleJudging]
    /\ UNCHANGED <<kind, score, problem, round, request>>

(***************************************************************************)
(* change_submission_kind_view.  The request sees its own writes.          *)
(***************************************************************************)
MyKind(q) == [kind EXCEPT ![request[q].sub] = request[q].kind]
MyScore(q) == [score EXCEPT ![request[q].sub] = request[q].score]
MyProblem(q) == [problem EXCEPT ![QProblem(q)] = request[q].problem]
MyRound(q) == [round EXCEPT ![QRound(q)] = request[q].round]

\* Load the submission; k: whether the kind asked for is NORMAL.
OpenRequest(q, s, k) ==
    /\ request[q].pc = "idle"
    /\ request' = [request EXCEPT ![q] = [@ EXCEPT !.pc = "kind", !.sub = s,
                                            !.kind = k, !.score = score[s]]]
    /\ UNCHANGED <<kind, score, results, judging>>

ChangeKind(q) ==
    /\ request[q].pc = "kind"
    /\ ~SubmissionLocked(request[q].sub)
    /\ request' = [request EXCEPT ![q].pc = "problem"]
    /\ UNCHANGED <<kind, score, results, judging>>

RequestProblem(q) ==
    /\ request[q].pc = "problem"
    /\ ~ProblemLocked(QProblem(q))
    /\ request' = [request EXCEPT ![q] = [@ EXCEPT !.pc = "round",
                       !.problem = ProblemScore(QProblem(q), MyKind(q), MyScore(q))]]
    /\ UNCHANGED <<kind, score, results, judging>>

RequestRound(q) ==
    /\ request[q].pc = "round"
    /\ ~RoundLocked(QRound(q))
    /\ request' = [request EXCEPT ![q] = [@ EXCEPT !.pc = "contest",
                       !.round = RoundScore(QRound(q), MyProblem(q))]]
    /\ UNCHANGED <<kind, score, results, judging>>

RequestContest(q) ==
    /\ request[q].pc = "contest"
    /\ ~ContestLocked
    /\ request' = [request EXCEPT ![q] = [@ EXCEPT !.pc = "commit",
                       !.contest = ContestScore(MyRound(q))]]
    /\ UNCHANGED <<kind, score, results, judging>>

Commit(q) ==
    /\ request[q].pc = "commit"
    /\ kind' = MyKind(q)
    /\ score' = MyScore(q)
    /\ problem' = MyProblem(q)
    /\ round' = MyRound(q)
    /\ contest' = request[q].contest
    /\ request' = [request EXCEPT ![q] = IdleRequest]
    /\ UNCHANGED judging

\* Any exception rolls the whole request back.
Rollback(q) ==
    /\ request[q].pc # "idle"
    /\ request' = [request EXCEPT ![q] = IdleRequest]
    /\ UNCHANGED <<kind, score, results, judging>>

Next ==
    \/ \E j \in Judgings :
        \/ \E s \in Submissions : LoadSubmission(j, s)
        \/ \E v \in Scores \cup {None} : SaveScore(j, v)
        \/ ReadProblem(j)
        \/ SaveProblem(j)
        \/ ReadRound(j)
        \/ SaveRound(j)
        \/ ReadContest(j)
        \/ SaveContest(j)
    \/ \E q \in Requests :
        \/ \E s \in Submissions, k \in BOOLEAN : OpenRequest(q, s, k)
        \/ ChangeKind(q)
        \/ RequestProblem(q)
        \/ RequestRound(q)
        \/ RequestContest(q)
        \/ Commit(q)
        \/ Rollback(q)

Spec == Init /\ [][Next]_vars

-----------------------------------------------------------------------------
(* Properties *)

Updating(j, pcs) == judging[j].pc \in pcs

\* The result for a problem is the score of the latest scored normal
\* submission, as soon as no judging of the problem has its update to come:
\* concurrent judgings and changes of kinds never leave an older one behind.
ProblemsSettle ==
    \A p \in Problems :
        (\A j \in Judgings : Updating(j, {"problem", "saveProblem"}) => JProblem(j) # p)
        => problem[p] = ProblemScore(p, kind, score)

\* The result for a round is the sum over its problems once the updates of
\* its problems have come to an end.
RoundsSettle ==
    \A r \in Rounds :
        (\A j \in Judgings : Updating(j, {"round", "saveRound"}) => JRound(j) # r)
        => round[r] = RoundScore(r, problem)

\* The result for the contest is the sum over its rounds that are not trial
\* ones, once the updates of the rounds have come to an end.
ContestSettles ==
    (\A j \in Judgings : ~Updating(j, {"contest", "saveContest"}))
    => contest = SumScores([r \in Rounds \ Trial |-> round[r]])
=============================================================================
