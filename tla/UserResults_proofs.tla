------------------------- MODULE UserResults_proofs -------------------------
(***************************************************************************)
(* Proofs that the three levels of a user's results settle, for any sets   *)
(* of submissions, problems, rounds, judgings and requests.                *)
(*                                                                         *)
(* One argument serves all levels.  Say that a judging is ahead of a row   *)
(* when it has yet to lock it.  Unless some judging is ahead, whoever      *)
(* holds the lock of a row has computed the right value for it, and a row  *)
(* that nobody holds has the right value.                                  *)
(***************************************************************************)
EXTENDS UserResults, TLAPS

(***************************************************************************)
(* What the proofs need of the types: the variables are functions and the  *)
(* states of the processes are records, whatever results they hold.        *)
(***************************************************************************)
Shape == \E V : None \in V /\ Scores \subseteq V /\ TypeOver(V)

LEMMA SomeSubmissionExists == SomeSubmission \in Submissions
BY DataAssumption DEF SomeSubmission

LEMMA InitShape == Init => Shape
<1> SUFFICES ASSUME Init PROVE TypeOver(Scores \cup {None})
  BY DEF Shape
<1> QED
  BY SomeSubmissionExists DEF Init, TypeOver, JudgingStates, RequestStates, IdleJudging,
     IdleRequest

\* A step that yields a new result x keeps the shape.
LEMMA Widen ==
  ASSUME NEW V, NEW x, None \in V, TypeOver(V)
  PROVE  TypeOver(V \cup {x})
<1>1. judging \in [Judgings -> JudgingStates(V \cup {x})]
  BY DEF TypeOver, JudgingStates
<1>2. request \in [Requests -> RequestStates(V \cup {x})]
  BY DEF TypeOver, RequestStates
<1>3. QED
  BY <1>1, <1>2 DEF TypeOver

LEMMA JudgingStep ==
  ASSUME NEW V, NEW j \in Judgings, NEW st \in JudgingStates(V), TypeOver(V),
         judging' = [judging EXCEPT ![j] = st], UNCHANGED <<kind, score, results, request>>
  PROVE  TypeOver(V)'
BY DEF TypeOver, results

LEMMA RequestStep ==
  ASSUME NEW V, NEW q \in Requests, NEW st \in RequestStates(V), TypeOver(V),
         request' = [request EXCEPT ![q] = st], UNCHANGED <<kind, score, results, judging>>
  PROVE  TypeOver(V)'
BY DEF TypeOver, results

LEMMA NextShape == Shape /\ [Next]_vars => Shape'
<1> SUFFICES ASSUME NEW V, None \in V, Scores \subseteq V, TypeOver(V), [Next]_vars
             PROVE  \E W : None \in W /\ Scores \subseteq W /\ TypeOver(W)'
  BY DEF Shape
<1> USE SomeSubmissionExists
<1> DEFINE Goal == \E W : None \in W /\ Scores \subseteq W /\ TypeOver(W)'
<1> SUFFICES Goal
  OBVIOUS
<1>0. TypeOver(V)' => Goal
  OBVIOUS
<1>00. \A x : TypeOver(V \cup {x})' => Goal
  OBVIOUS
<1>01. \A x : TypeOver(V \cup {x})
  BY Widen
<1> HIDE DEF Goal
<1>1. CASE UNCHANGED vars
  BY <1>0, <1>1 DEF vars, TypeOver, JudgingStates, RequestStates, results
<1>2. ASSUME NEW j \in Judgings, NEW s \in Submissions, LoadSubmission(j, s) PROVE Goal
  <2> DEFINE st == [judging[j] EXCEPT !.pc = "score", !.sub = s, !.kind = kind[s]]
  <2>1. st \in JudgingStates(V)
    BY DEF TypeOver, JudgingStates
  <2>2. judging' = [judging EXCEPT ![j] = st] /\ UNCHANGED <<kind, score, results, request>>
    BY <1>2 DEF LoadSubmission
  <2> HIDE DEF st
  <2>3. QED
    BY <1>0, <2>1, <2>2, JudgingStep
<1>3. ASSUME NEW j \in Judgings, NEW v \in Scores \cup {None}, SaveScore(j, v) PROVE Goal
  <2>1. [judging[j] EXCEPT !.pc = "problem", !.kind = FALSE] \in JudgingStates(V)
    BY DEF TypeOver, JudgingStates
  <2>2. judging' \in [Judgings -> JudgingStates(V)]
    BY <1>3, <2>1 DEF SaveScore, TypeOver
  <2>3. kind' \in [Submissions -> BOOLEAN] /\ score' \in [Submissions -> V]
    BY <1>3 DEF SaveScore, TypeOver, JudgingStates
  <2>4. QED
    BY <1>0, <1>3, <2>2, <2>3 DEF SaveScore, TypeOver, results
<1>4. ASSUME NEW j \in Judgings, ReadProblem(j) PROVE Goal
  <2>0. PICK x : x = ProblemScore(JProblem(j), kind, score)
    OBVIOUS
  <2> DEFINE st == [judging[j] EXCEPT !.pc = "saveProblem", !.value = x]
  <2>1. judging' = [judging EXCEPT ![j] = st] /\ UNCHANGED <<kind, score, results, request>>
    BY <1>4, <2>0 DEF ReadProblem
  <2>2. st \in JudgingStates(V \cup {x})
    BY <1>01 DEF TypeOver, JudgingStates
  <2> HIDE DEF st
  <2>3. TypeOver(V \cup {x})'
    BY <1>01, <2>1, <2>2, JudgingStep
  <2>4. QED
    BY <1>00, <2>3
<1>5. ASSUME NEW j \in Judgings, ReadRound(j) PROVE Goal
  <2>0. PICK x : x = RoundScore(JRound(j), problem)
    OBVIOUS
  <2> DEFINE st == [judging[j] EXCEPT !.pc = "saveRound", !.value = x]
  <2>1. judging' = [judging EXCEPT ![j] = st] /\ UNCHANGED <<kind, score, results, request>>
    BY <1>5, <2>0 DEF ReadRound
  <2>2. st \in JudgingStates(V \cup {x})
    BY <1>01 DEF TypeOver, JudgingStates
  <2> HIDE DEF st
  <2>3. TypeOver(V \cup {x})'
    BY <1>01, <2>1, <2>2, JudgingStep
  <2>4. QED
    BY <1>00, <2>3
<1>6. ASSUME NEW j \in Judgings, ReadContest(j) PROVE Goal
  <2>0. PICK x : x = ContestScore(round)
    OBVIOUS
  <2> DEFINE st == [judging[j] EXCEPT !.pc = "saveContest", !.value = x]
  <2>1. judging' = [judging EXCEPT ![j] = st] /\ UNCHANGED <<kind, score, results, request>>
    BY <1>6, <2>0 DEF ReadContest
  <2>2. st \in JudgingStates(V \cup {x})
    BY <1>01 DEF TypeOver, JudgingStates
  <2> HIDE DEF st
  <2>3. TypeOver(V \cup {x})'
    BY <1>01, <2>1, <2>2, JudgingStep
  <2>4. QED
    BY <1>00, <2>3
<1>7. ASSUME NEW j \in Judgings, SaveProblem(j) PROVE Goal
  <2>1. [judging[j] EXCEPT !.pc = "round", !.value = None] \in JudgingStates(V)
    BY DEF TypeOver, JudgingStates
  <2>2. judging' \in [Judgings -> JudgingStates(V)]
    BY <1>7, <2>1 DEF SaveProblem, TypeOver
  <2>3. problem' \in [Problems -> V]
    BY <1>7 DEF SaveProblem, TypeOver, JudgingStates
  <2>4. QED
    BY <1>0, <1>7, <2>2, <2>3 DEF SaveProblem, TypeOver
<1>8. ASSUME NEW j \in Judgings, SaveRound(j) PROVE Goal
  <2>1. [judging[j] EXCEPT !.pc = "contest", !.value = None] \in JudgingStates(V)
    BY DEF TypeOver, JudgingStates
  <2>2. judging' \in [Judgings -> JudgingStates(V)]
    BY <1>8, <2>1 DEF SaveRound, TypeOver
  <2>3. round' \in [Rounds -> V]
    BY <1>8 DEF SaveRound, TypeOver, JudgingStates
  <2>4. QED
    BY <1>0, <1>8, <2>2, <2>3 DEF SaveRound, TypeOver
<1>9. ASSUME NEW j \in Judgings, SaveContest(j) PROVE Goal
  <2>1. IdleJudging \in JudgingStates(V)
    BY DEF JudgingStates, IdleJudging
  <2>2. judging' \in [Judgings -> JudgingStates(V)]
    BY <1>9, <2>1 DEF SaveContest, TypeOver
  <2>3. contest' \in V
    BY <1>9 DEF SaveContest, TypeOver, JudgingStates
  <2>4. QED
    BY <1>0, <1>9, <2>2, <2>3 DEF SaveContest, TypeOver
<1>10. ASSUME NEW q \in Requests, NEW s \in Submissions, NEW k \in BOOLEAN, OpenRequest(q, s, k)
      PROVE  Goal
  <2> DEFINE st == [request[q] EXCEPT !.pc = "kind", !.sub = s, !.kind = k, !.score = score[s]]
  <2>1. st \in RequestStates(V)
    BY DEF TypeOver, RequestStates
  <2>2. request' = [request EXCEPT ![q] = st] /\ UNCHANGED <<kind, score, results, judging>>
    BY <1>10 DEF OpenRequest
  <2> HIDE DEF st
  <2>3. QED
    BY <1>0, <2>1, <2>2, RequestStep
<1>11. ASSUME NEW q \in Requests, ChangeKind(q) PROVE Goal
  <2> DEFINE st == [request[q] EXCEPT !.pc = "problem"]
  <2>1. st \in RequestStates(V)
    BY DEF TypeOver, RequestStates
  <2>2. request' = [request EXCEPT ![q] = st] /\ UNCHANGED <<kind, score, results, judging>>
    BY <1>11 DEF ChangeKind
  <2> HIDE DEF st
  <2>3. QED
    BY <1>0, <2>1, <2>2, RequestStep
<1>12. ASSUME NEW q \in Requests, RequestProblem(q) PROVE Goal
  <2>0. PICK x : x = ProblemScore(QProblem(q), MyKind(q), MyScore(q))
    OBVIOUS
  <2> DEFINE st == [request[q] EXCEPT !.pc = "round", !.problem = x]
  <2>1. request' = [request EXCEPT ![q] = st] /\ UNCHANGED <<kind, score, results, judging>>
    BY <1>12, <2>0 DEF RequestProblem
  <2>2. st \in RequestStates(V \cup {x})
    BY <1>01 DEF TypeOver, RequestStates
  <2> HIDE DEF st
  <2>3. TypeOver(V \cup {x})'
    BY <1>01, <2>1, <2>2, RequestStep
  <2>4. QED
    BY <1>00, <2>3
<1>13. ASSUME NEW q \in Requests, RequestRound(q) PROVE Goal
  <2>0. PICK x : x = RoundScore(QRound(q), MyProblem(q))
    OBVIOUS
  <2> DEFINE st == [request[q] EXCEPT !.pc = "contest", !.round = x]
  <2>1. request' = [request EXCEPT ![q] = st] /\ UNCHANGED <<kind, score, results, judging>>
    BY <1>13, <2>0 DEF RequestRound
  <2>2. st \in RequestStates(V \cup {x})
    BY <1>01 DEF TypeOver, RequestStates
  <2> HIDE DEF st
  <2>3. TypeOver(V \cup {x})'
    BY <1>01, <2>1, <2>2, RequestStep
  <2>4. QED
    BY <1>00, <2>3
<1>14. ASSUME NEW q \in Requests, RequestContest(q) PROVE Goal
  <2>0. PICK x : x = ContestScore(MyRound(q))
    OBVIOUS
  <2> DEFINE st == [request[q] EXCEPT !.pc = "commit", !.contest = x]
  <2>1. request' = [request EXCEPT ![q] = st] /\ UNCHANGED <<kind, score, results, judging>>
    BY <1>14, <2>0 DEF RequestContest
  <2>2. st \in RequestStates(V \cup {x})
    BY <1>01 DEF TypeOver, RequestStates
  <2> HIDE DEF st
  <2>3. TypeOver(V \cup {x})'
    BY <1>01, <2>1, <2>2, RequestStep
  <2>4. QED
    BY <1>00, <2>3
<1>15. ASSUME NEW q \in Requests, Commit(q) PROVE Goal
  <2>1. request' \in [Requests -> RequestStates(V)]
    BY <1>15 DEF Commit, TypeOver, RequestStates, IdleRequest
  <2>2. request[q] \in RequestStates(V)
    BY DEF TypeOver
  <2>3. kind' \in [Submissions -> BOOLEAN] /\ score' \in [Submissions -> V]
    BY <1>15, <2>2 DEF Commit, TypeOver, RequestStates, MyKind, MyScore
  <2>4. problem' \in [Problems -> V] /\ round' \in [Rounds -> V] /\ contest' \in V
    BY <1>15, <2>2 DEF Commit, TypeOver, RequestStates, MyProblem, MyRound
  <2>5. QED
    BY <1>0, <1>15, <2>1, <2>3, <2>4 DEF Commit, TypeOver
<1>16. ASSUME NEW q \in Requests, Rollback(q) PROVE Goal
  <2>1. IdleRequest \in RequestStates(V)
    BY DEF RequestStates, IdleRequest
  <2>2. QED
    BY <1>0, <1>16, <2>1, RequestStep DEF Rollback
<1>17. QED
  BY <1>1, <1>2, <1>3, <1>4, <1>5, <1>6, <1>7, <1>8, <1>9, <1>10, <1>11, <1>12, <1>13, <1>14, <1>15, <1>16 DEF Next

(***************************************************************************)
(* Results for problems                                                    *)
(***************************************************************************)
AheadOfProblem(p) == \E j \in Judgings : judging[j].pc = "problem" /\ JProblem(j) = p
HoldsProblem(j) == judging[j].pc = "saveProblem"
KeepsProblem(q) == request[q].pc \in {"round", "contest", "commit"}

ProblemLocks ==
    /\ \A i, j \in Judgings : HoldsProblem(i) /\ HoldsProblem(j) /\ JProblem(i) = JProblem(j) => i = j
    /\ \A j \in Judgings, q \in Requests :
            HoldsProblem(j) /\ KeepsProblem(q) => JProblem(j) # QProblem(q)
    /\ \A q, t \in Requests : KeepsProblem(q) /\ KeepsProblem(t) /\ QProblem(q) = QProblem(t) => q = t

ProblemsComputed ==
    /\ \A j \in Judgings : HoldsProblem(j) =>
            \/ AheadOfProblem(JProblem(j))
            \/ judging[j].value = ProblemScore(JProblem(j), kind, score)
    /\ \A q \in Requests : KeepsProblem(q) =>
            \/ AheadOfProblem(QProblem(q))
            \/ request[q].problem = ProblemScore(QProblem(q), MyKind(q), MyScore(q))

ProblemInv == Shape /\ ProblemLocks /\ ProblemsComputed /\ ProblemsSettle

\* The result for a problem depends on the problem's submissions only.
LEMMA ProblemScoreFrame ==
  ASSUME NEW p, NEW k1, NEW s1, NEW k2, NEW s2,
         \A s \in Submissions : ProblemOf[s] = p => k1[s] = k2[s] /\ s1[s] = s2[s]
  PROVE  ProblemScore(p, k1, s1) = ProblemScore(p, k2, s2)
<1> DEFINE d1 == {t \in Submissions : ProblemOf[t] = p /\ k1[t]}
           d2 == {t \in Submissions : ProblemOf[t] = p /\ k2[t]}
<1>1. d1 = d2
  OBVIOUS
<1>2. [s \in d1 |-> s1[s]] = [s \in d2 |-> s2[s]]
  BY <1>1
<1>3. QED
  BY <1>2 DEF ProblemScore

\* A step that changes neither the columns nor who is ahead of, holds or keeps a
\* problem's row preserves the invariant.
QuietForProblems ==
    /\ UNCHANGED <<kind, score, problem>>
    /\ \A j \in Judgings :
          \/ judging'[j] = judging[j]
          \/ {judging[j].pc, judging'[j].pc} \cap {"problem", "saveProblem"} = {}
    /\ \A q \in Requests : KeepsProblem(q)' =>
          /\ KeepsProblem(q)
          /\ request'[q].sub = request[q].sub /\ request'[q].kind = request[q].kind
          /\ request'[q].score = request[q].score /\ request'[q].problem = request[q].problem

LEMMA QuietProblems ==
  ASSUME ProblemLocks, ProblemsComputed, ProblemsSettle, QuietForProblems
  PROVE  ProblemLocks' /\ ProblemsComputed' /\ ProblemsSettle'
<1> USE DEF QuietForProblems, HoldsProblem, JProblem, QProblem
<1>1. \A p : AheadOfProblem(p)' <=> AheadOfProblem(p)
  BY DEF AheadOfProblem
<1>2. \A j \in Judgings : HoldsProblem(j)' =>
         HoldsProblem(j) /\ judging'[j] = judging[j] /\ JProblem(j)' = JProblem(j)
  OBVIOUS
<1>3. \A q \in Requests : KeepsProblem(q)' =>
         MyKind(q)' = MyKind(q) /\ MyScore(q)' = MyScore(q) /\ QProblem(q)' = QProblem(q)
  BY DEF MyKind, MyScore
<1>4. ProblemLocks'
  <2>1. \A q \in Requests : KeepsProblem(q)' => KeepsProblem(q) /\ QProblem(q)' = QProblem(q)
    BY <1>3
  <2>2. \A j \in Judgings : HoldsProblem(j)' => HoldsProblem(j) /\ JProblem(j)' = JProblem(j)
    BY <1>2
  <2> HIDE DEF HoldsProblem, JProblem, QProblem
  <2>3. QED
    BY <2>1, <2>2 DEF ProblemLocks
<1>5. ProblemsComputed'
  BY <1>1, <1>2, <1>3 DEF ProblemsComputed
<1>6. ProblemsSettle'
  BY DEF ProblemsSettle, Updating
<1>7. QED
  BY <1>4, <1>5, <1>6

LEMMA NextProblem == ProblemInv /\ [Next]_vars => ProblemInv'
<1> SUFFICES ASSUME ProblemInv, [Next]_vars
             PROVE  ProblemLocks' /\ ProblemsComputed' /\ ProblemsSettle'
  BY NextShape DEF ProblemInv
<1>0. PICK V : TypeOver(V)
  BY DEF ProblemInv, Shape
<1> DEFINE Rest == ProblemLocks /\ ProblemsComputed /\ ProblemsSettle
<1> SUFFICES Rest'
  OBVIOUS
<1>00. Rest
  BY DEF ProblemInv
<1>01. QuietForProblems => Rest'
  BY <1>00, QuietProblems
<1>02. judging \in [Judgings -> JudgingStates(V)] /\ request \in [Requests -> RequestStates(V)]
  BY <1>0 DEF TypeOver
<1> HIDE DEF Rest
<1>1. CASE UNCHANGED vars
  BY <1>1, <1>01 DEF vars, results, QuietForProblems, KeepsProblem
<1>2. ASSUME NEW j \in Judgings, NEW s \in Submissions, LoadSubmission(j, s) PROVE Rest'
  BY <1>2, <1>01, <1>02 DEF LoadSubmission, QuietForProblems, KeepsProblem, JudgingStates, results
<1>3. ASSUME NEW j \in Judgings, ReadRound(j) PROVE Rest'
  BY <1>3, <1>01, <1>02 DEF ReadRound, QuietForProblems, KeepsProblem, JudgingStates, results
<1>4. ASSUME NEW j \in Judgings, SaveRound(j) PROVE Rest'
  BY <1>4, <1>01, <1>02 DEF SaveRound, QuietForProblems, KeepsProblem, JudgingStates, results
<1>5. ASSUME NEW j \in Judgings, ReadContest(j) PROVE Rest'
  BY <1>5, <1>01, <1>02 DEF ReadContest, QuietForProblems, KeepsProblem, JudgingStates, results
<1>6. ASSUME NEW j \in Judgings, SaveContest(j) PROVE Rest'
  BY <1>6, <1>01, <1>02 DEF SaveContest, QuietForProblems, KeepsProblem, JudgingStates, results, IdleJudging
<1>7. ASSUME NEW q \in Requests, NEW s \in Submissions, NEW k \in BOOLEAN, OpenRequest(q, s, k) PROVE Rest'
  BY <1>7, <1>01, <1>02 DEF OpenRequest, QuietForProblems, KeepsProblem, RequestStates, results
<1>8. ASSUME NEW q \in Requests, ChangeKind(q) PROVE Rest'
  BY <1>8, <1>01, <1>02 DEF ChangeKind, QuietForProblems, KeepsProblem, RequestStates, results
<1>9. ASSUME NEW q \in Requests, RequestRound(q) PROVE Rest'
  BY <1>9, <1>01, <1>02 DEF RequestRound, QuietForProblems, KeepsProblem, RequestStates, results
<1>10. ASSUME NEW q \in Requests, RequestContest(q) PROVE Rest'
  BY <1>10, <1>01, <1>02 DEF RequestContest, QuietForProblems, KeepsProblem, RequestStates, results
<1>11. ASSUME NEW q \in Requests, Rollback(q) PROVE Rest'
  BY <1>11, <1>01, <1>02 DEF Rollback, QuietForProblems, KeepsProblem, RequestStates, results, IdleRequest
<1>12. ASSUME NEW j \in Judgings, NEW v \in Scores \cup {None}, SaveScore(j, v) PROVE Rest'
  <2>1. /\ judging[j].pc = "score" /\ ~SubmissionLocked(judging[j].sub)
        /\ judging' = [judging EXCEPT ![j] = [judging[j] EXCEPT !.pc = "problem", !.kind = FALSE]]
        /\ UNCHANGED <<problem, request>>
    BY <1>12 DEF SaveScore, results
  <2>2. /\ judging'[j].pc = "problem" /\ judging'[j].sub = judging[j].sub
        /\ \A i \in Judgings \ {j} : judging'[i] = judging[i]
    BY <1>02, <2>1 DEF JudgingStates
  <2>3. PICK p : p = JProblem(j)
    OBVIOUS
  <2>4. AheadOfProblem(p)' /\ \A r : AheadOfProblem(r) => AheadOfProblem(r)'
    BY <2>1, <2>2, <2>3 DEF AheadOfProblem, JProblem
  <2>5. \A s \in Submissions : ProblemOf[s] # p => kind'[s] = kind[s] /\ score'[s] = score[s]
    BY <1>0, <1>12, <2>3 DEF SaveScore, JProblem, TypeOver
  <2>6. \A r : r # p => ProblemScore(r, kind', score') = ProblemScore(r, kind, score)
    BY <2>5, ProblemScoreFrame
  <2>7. ASSUME NEW q \in Requests, QProblem(q) # p
        PROVE  ProblemScore(QProblem(q), MyKind(q)', MyScore(q)') = ProblemScore(QProblem(q), MyKind(q), MyScore(q))
    <3>1. \A s \in Submissions : ProblemOf[s] = QProblem(q) =>
             MyKind(q)'[s] = MyKind(q)[s] /\ MyScore(q)'[s] = MyScore(q)[s]
      <4>1. request'[q] = request[q]
        BY <2>1
      <4>2. DOMAIN kind' = Submissions /\ DOMAIN score' = Submissions /\ DOMAIN kind = Submissions /\ DOMAIN score = Submissions
        BY <1>0, <1>12 DEF SaveScore, TypeOver
      <4>3. QED
        BY <2>5, <2>7, <4>1, <4>2 DEF MyKind, MyScore
    <3>2. QED
      BY <3>1, ProblemScoreFrame
  <2>8. ProblemLocks'
    BY <1>00, <2>1, <2>2 DEF Rest, ProblemLocks, HoldsProblem, KeepsProblem, JProblem, QProblem
  <2>9. ProblemsComputed'
    <3>1. ASSUME NEW i \in Judgings, HoldsProblem(i)'
          PROVE  AheadOfProblem(JProblem(i))' \/ (judging[i].value = ProblemScore(JProblem(i), kind, score))'
      <4>1. i # j /\ judging'[i] = judging[i] /\ HoldsProblem(i)
        BY <2>2, <3>1 DEF HoldsProblem
      <4>2. JProblem(i)' = JProblem(i)
        BY <4>1 DEF JProblem
      <4>3. QED
        BY <1>00, <2>4, <2>6, <4>1, <4>2 DEF Rest, ProblemsComputed
    <3>2. ASSUME NEW q \in Requests, KeepsProblem(q)'
          PROVE  \/ AheadOfProblem(QProblem(q))'
                 \/ (request[q].problem = ProblemScore(QProblem(q), MyKind(q), MyScore(q)))'
      <4>1. QProblem(q)' = QProblem(q) /\ request' = request /\ KeepsProblem(q)
        BY <2>1, <3>2 DEF QProblem, KeepsProblem
      <4>2. QED
        BY <1>00, <2>4, <2>7, <4>1 DEF Rest, ProblemsComputed
    <3>3. QED
      BY <3>1, <3>2 DEF ProblemsComputed
  <2>10. ProblemsSettle'
    BY <1>00, <2>1, <2>2, <2>3, <2>6 DEF Rest, ProblemsSettle, Updating, JProblem
  <2>11. QED
    BY <2>8, <2>9, <2>10 DEF Rest
<1>13. ASSUME NEW j \in Judgings, ReadProblem(j) PROVE Rest'
  <2>1. PICK x : x = ProblemScore(JProblem(j), kind, score)
    OBVIOUS
  <2>2. /\ judging[j].pc = "problem" /\ ~ProblemLocked(JProblem(j))
        /\ judging' = [judging EXCEPT ![j] = [judging[j] EXCEPT !.pc = "saveProblem", !.value = x]]
        /\ UNCHANGED <<kind, score, problem, request>>
    BY <1>13, <2>1 DEF ReadProblem, results
  <2>3. /\ judging'[j].pc = "saveProblem" /\ judging'[j].sub = judging[j].sub /\ judging'[j].value = x
        /\ \A i \in Judgings \ {j} : judging'[i] = judging[i]
    BY <1>02, <2>2 DEF JudgingStates
  <2>4. \A i \in Judgings : JProblem(i)' = JProblem(i)
    BY <2>3 DEF JProblem
  <2>5. \A q \in Requests : QProblem(q)' = QProblem(q) /\ MyKind(q)' = MyKind(q) /\ MyScore(q)' = MyScore(q)
    BY <2>2 DEF QProblem, MyKind, MyScore
  <2>6. \A p : p # JProblem(j) /\ AheadOfProblem(p) => AheadOfProblem(p)'
    BY <2>3, <2>4 DEF AheadOfProblem
  <2>7. ProblemLocks'
    BY <1>00, <2>2, <2>3, <2>4, <2>5 DEF Rest, ProblemLocks, HoldsProblem, KeepsProblem, ProblemLocked
  <2>8. ProblemsComputed'
    BY <1>00, <2>1, <2>2, <2>3, <2>4, <2>5, <2>6 DEF Rest, ProblemsComputed, HoldsProblem, KeepsProblem, ProblemLocked
  <2>9. ProblemsSettle'
    BY <1>00, <2>2, <2>3, <2>4 DEF Rest, ProblemsSettle, Updating
  <2>10. QED
    BY <2>7, <2>8, <2>9 DEF Rest
<1>14. ASSUME NEW j \in Judgings, SaveProblem(j) PROVE Rest'
  <2>1. /\ judging[j].pc = "saveProblem"
        /\ problem' = [problem EXCEPT ![JProblem(j)] = judging[j].value]
        /\ judging' = [judging EXCEPT ![j] = [judging[j] EXCEPT !.pc = "round", !.value = None]]
        /\ UNCHANGED <<kind, score, request>>
    BY <1>14 DEF SaveProblem
  <2>2. /\ judging'[j].pc = "round" /\ judging'[j].sub = judging[j].sub
        /\ \A i \in Judgings \ {j} : judging'[i] = judging[i]
    BY <1>02, <2>1 DEF JudgingStates
  <2>3. \A i \in Judgings : JProblem(i)' = JProblem(i)
    BY <2>2 DEF JProblem
  <2>4. \A q \in Requests : QProblem(q)' = QProblem(q) /\ MyKind(q)' = MyKind(q) /\ MyScore(q)' = MyScore(q)
    BY <2>1 DEF QProblem, MyKind, MyScore
  <2>5. \A p : AheadOfProblem(p) <=> AheadOfProblem(p)'
    BY <2>1, <2>2, <2>3 DEF AheadOfProblem
  <2>6. ProblemLocks'
    BY <1>00, <2>1, <2>2, <2>3, <2>4 DEF Rest, ProblemLocks, HoldsProblem, KeepsProblem
  <2>7. ProblemsComputed'
    BY <1>00, <2>1, <2>2, <2>3, <2>4, <2>5 DEF Rest, ProblemsComputed, HoldsProblem, KeepsProblem
  <2>8. ASSUME NEW p \in Problems,
               \A i \in Judgings : Updating(i, {"problem", "saveProblem"})' => JProblem(i)' # p
        PROVE  problem'[p] = ProblemScore(p, kind, score)
    <3>1. DOMAIN problem = Problems
      BY <1>0 DEF TypeOver
    <3>2. CASE p = JProblem(j)
      <4>1. ~AheadOfProblem(p)
        BY <2>5, <2>8 DEF AheadOfProblem, Updating
      <4>2. QED
        BY <1>00, <2>1, <3>1, <3>2, <4>1 DEF Rest, ProblemsComputed, HoldsProblem
    <3>3. CASE p # JProblem(j)
      BY <1>00, <2>1, <2>2, <2>3, <2>8, <3>3 DEF Rest, ProblemsSettle, Updating
    <3>4. QED
      BY <3>2, <3>3
  <2>9. ProblemsSettle'
    BY <2>1, <2>8 DEF ProblemsSettle
  <2>10. QED
    BY <2>6, <2>7, <2>9 DEF Rest
<1>15. ASSUME NEW q \in Requests, RequestProblem(q) PROVE Rest'
  <2>1. PICK x : x = ProblemScore(QProblem(q), MyKind(q), MyScore(q))
    OBVIOUS
  <2>2. /\ request[q].pc = "problem" /\ ~ProblemLocked(QProblem(q))
        /\ request' = [request EXCEPT ![q] = [request[q] EXCEPT !.pc = "round", !.problem = x]]
        /\ UNCHANGED <<kind, score, problem, judging>>
    BY <1>15, <2>1 DEF RequestProblem, results
  <2>3. /\ request'[q].pc = "round" /\ request'[q].problem = x
        /\ request'[q].sub = request[q].sub /\ request'[q].kind = request[q].kind
        /\ request'[q].score = request[q].score
        /\ \A t \in Requests \ {q} : request'[t] = request[t]
    BY <1>02, <2>2 DEF RequestStates
  <2>4. \A t \in Requests : QProblem(t)' = QProblem(t) /\ MyKind(t)' = MyKind(t) /\ MyScore(t)' = MyScore(t)
    BY <2>2, <2>3 DEF QProblem, MyKind, MyScore
  <2>5. \A i \in Judgings : JProblem(i)' = JProblem(i)
    BY <2>2 DEF JProblem
  <2>6. \A p : AheadOfProblem(p) <=> AheadOfProblem(p)'
    BY <2>2 DEF AheadOfProblem, JProblem
  <2>7. ProblemLocks'
    BY <1>00, <2>2, <2>3, <2>4, <2>5 DEF Rest, ProblemLocks, HoldsProblem, KeepsProblem, ProblemLocked
  <2>8. ProblemsComputed'
    BY <1>00, <2>1, <2>2, <2>3, <2>4, <2>5, <2>6 DEF Rest, ProblemsComputed, HoldsProblem, KeepsProblem
  <2>9. ProblemsSettle'
    BY <1>00, <2>2 DEF Rest, ProblemsSettle, Updating, JProblem
  <2>10. QED
    BY <2>7, <2>8, <2>9 DEF Rest
<1>16. ASSUME NEW q \in Requests, Commit(q) PROVE Rest'
  <2>1. /\ request[q].pc = "commit" /\ request' = [request EXCEPT ![q] = IdleRequest] /\ judging' = judging
        /\ kind' = MyKind(q) /\ score' = MyScore(q)
        /\ problem' = [problem EXCEPT ![QProblem(q)] = request[q].problem]
    BY <1>16 DEF Commit, MyProblem
  <2>2. request'[q].pc = "idle" /\ \A t \in Requests \ {q} : request'[t] = request[t]
    BY <1>02, <2>1 DEF IdleRequest
  <2>3. PICK p : p = QProblem(q)
    OBVIOUS
  <2>4. /\ DOMAIN kind' = Submissions /\ DOMAIN score' = Submissions
        /\ DOMAIN kind = Submissions /\ DOMAIN score = Submissions /\ DOMAIN problem = Problems
    BY <1>0, <2>1 DEF TypeOver, MyKind, MyScore
  <2>5. \A s \in Submissions : ProblemOf[s] # p => kind'[s] = kind[s] /\ score'[s] = score[s]
    BY <2>1, <2>3, <2>4 DEF MyKind, MyScore, QProblem
  <2>6. \A r : r # p => ProblemScore(r, kind', score') = ProblemScore(r, kind, score)
    BY <2>5, ProblemScoreFrame
  <2>7. \A i \in Judgings : JProblem(i)' = JProblem(i)
    BY <2>1 DEF JProblem
  <2>8. \A r : AheadOfProblem(r) <=> AheadOfProblem(r)'
    BY <2>1 DEF AheadOfProblem, JProblem
  <2>9. ASSUME NEW t \in Requests, KeepsProblem(t)'
        PROVE  /\ t # q /\ KeepsProblem(t) /\ request'[t] = request[t] /\ QProblem(t)' = QProblem(t)
               /\ QProblem(t) # p
    BY <1>00, <2>1, <2>2, <2>3, <2>9 DEF Rest, ProblemLocks, KeepsProblem, QProblem
  <2>10. ASSUME NEW t \in Requests, KeepsProblem(t)'
        PROVE  ProblemScore(QProblem(t), MyKind(t)', MyScore(t)') = ProblemScore(QProblem(t), MyKind(t), MyScore(t))
    <3>1. \A s \in Submissions : ProblemOf[s] = QProblem(t) =>
             MyKind(t)'[s] = MyKind(t)[s] /\ MyScore(t)'[s] = MyScore(t)[s]
      BY <2>4, <2>5, <2>9, <2>10 DEF MyKind, MyScore
    <3>2. QED
      BY <3>1, ProblemScoreFrame
  <2>11. ASSUME NEW i \in Judgings, HoldsProblem(i)'
        PROVE  HoldsProblem(i) /\ JProblem(i) # p /\ judging'[i] = judging[i]
    BY <1>00, <2>1, <2>3, <2>11 DEF Rest, ProblemLocks, HoldsProblem, KeepsProblem
  <2>12. ProblemLocks'
    BY <1>00, <2>1, <2>2, <2>7, <2>9 DEF Rest, ProblemLocks, HoldsProblem
  <2>13. ProblemsComputed'
    BY <1>00, <2>6, <2>7, <2>8, <2>9, <2>10, <2>11 DEF Rest, ProblemsComputed
  <2>14. ASSUME NEW r \in Problems,
                \A i \in Judgings : Updating(i, {"problem", "saveProblem"})' => JProblem(i)' # r
         PROVE  problem'[r] = ProblemScore(r, kind', score')
    <3>1. CASE r = p
      <4>1. ~AheadOfProblem(p)
        BY <2>8, <2>14, <3>1 DEF AheadOfProblem, Updating
      <4>2. QED
        BY <1>00, <2>1, <2>3, <2>4, <3>1, <4>1 DEF Rest, ProblemsComputed, KeepsProblem
    <3>2. CASE r # p
      BY <1>00, <2>1, <2>3, <2>6, <2>7, <2>14, <3>2 DEF Rest, ProblemsSettle, Updating
    <3>3. QED
      BY <3>1, <3>2
  <2>15. ProblemsSettle'
    BY <2>14 DEF ProblemsSettle
  <2>16. QED
    BY <2>12, <2>13, <2>15 DEF Rest
<1>17. QED
  BY <1>1, <1>2, <1>3, <1>4, <1>5, <1>6, <1>7, <1>8, <1>9, <1>10, <1>11, <1>12, <1>13, <1>14, <1>15, <1>16 DEF Next

LEMMA InitProblem == Init => ProblemInv
<1> SUFFICES ASSUME Init PROVE ProblemLocks /\ ProblemsComputed /\ ProblemsSettle
  BY InitShape DEF ProblemInv
<1>1. /\ \A j \in Judgings : judging[j].pc = "idle"
      /\ \A q \in Requests : request[q].pc = "idle"
  BY DEF Init, IdleJudging, IdleRequest
<1>2. ProblemLocks /\ ProblemsComputed
  BY <1>1 DEF ProblemLocks, ProblemsComputed, HoldsProblem, KeepsProblem
<1>3. ASSUME NEW p \in Problems PROVE problem[p] = ProblemScore(p, kind, score)
  <2> DEFINE f == [s \in {t \in Submissions : ProblemOf[t] = p /\ kind[t]} |-> score[s]]
  <2>1. {s \in DOMAIN f : f[s] # None} = {}
    BY DEF Init
  <2>2. ProblemScore(p, kind, score) = LatestScore(f)
    BY DEF ProblemScore
  <2> HIDE DEF f
  <2>3. LatestScore(f) = None
    BY <2>1 DEF LatestScore
  <2>4. QED
    BY <2>2, <2>3 DEF Init
<1>4. QED
  BY <1>2, <1>3 DEF ProblemsSettle

\* The result for a problem is that of its latest scored normal submission
\* once the judgings of the problem have passed its update.
THEOREM ProblemsCorrect == Spec => []ProblemsSettle
<1>1. ProblemInv => ProblemsSettle
  BY DEF ProblemInv
<1>2. QED
  BY InitProblem, NextProblem, <1>1, PTL DEF Spec

(***************************************************************************)
(* Results for rounds                                                      *)
(***************************************************************************)
AheadOfRound(r) == \E j \in Judgings : judging[j].pc = "round" /\ JRound(j) = r
HoldsRound(j) == judging[j].pc = "saveRound"
KeepsRound(q) == request[q].pc \in {"contest", "commit"}

RoundLocks ==
    /\ \A i, j \in Judgings : HoldsRound(i) /\ HoldsRound(j) /\ JRound(i) = JRound(j) => i = j
    /\ \A j \in Judgings, q \in Requests : HoldsRound(j) /\ KeepsRound(q) => JRound(j) # QRound(q)
    /\ \A q, t \in Requests : KeepsRound(q) /\ KeepsRound(t) /\ QRound(q) = QRound(t) => q = t

RoundsComputed ==
    /\ \A j \in Judgings : HoldsRound(j) =>
            \/ AheadOfRound(JRound(j))
            \/ judging[j].value = RoundScore(JRound(j), problem)
    /\ \A q \in Requests : KeepsRound(q) =>
            \/ AheadOfRound(QRound(q))
            \/ request[q].round = RoundScore(QRound(q), MyProblem(q))

RoundInv == Shape /\ RoundLocks /\ RoundsComputed /\ RoundsSettle

\* The result for a round depends on the round's problems only.
LEMMA RoundScoreFrame ==
  ASSUME NEW r, NEW f, NEW g, \A p \in Problems : RoundOf[p] = r => f[p] = g[p]
  PROVE  RoundScore(r, f) = RoundScore(r, g)
<1> DEFINE d == {p \in Problems : RoundOf[p] = r}
<1>1. [p \in d |-> f[p]] = [p \in d |-> g[p]]
  OBVIOUS
<1>2. QED
  BY <1>1 DEF RoundScore

\* A step that changes neither the columns nor who is ahead of, holds or keeps a
\* round's row preserves the invariant.
QuietForRounds ==
    /\ UNCHANGED <<problem, round>>
    /\ \A j \in Judgings :
          \/ judging'[j] = judging[j]
          \/ {judging[j].pc, judging'[j].pc} \cap {"round", "saveRound"} = {}
    /\ \A q \in Requests : KeepsRound(q)' =>
          /\ KeepsRound(q)
          /\ request'[q].sub = request[q].sub
          /\ request'[q].problem = request[q].problem /\ request'[q].round = request[q].round

LEMMA QuietRounds ==
  ASSUME RoundLocks, RoundsComputed, RoundsSettle, QuietForRounds
  PROVE  RoundLocks' /\ RoundsComputed' /\ RoundsSettle'
<1> USE DEF QuietForRounds, HoldsRound, JRound, QRound, JProblem, QProblem
<1>1. \A r : AheadOfRound(r)' <=> AheadOfRound(r)
  BY DEF AheadOfRound
<1>2. \A j \in Judgings : HoldsRound(j)' =>
         HoldsRound(j) /\ judging'[j] = judging[j] /\ JRound(j)' = JRound(j)
  OBVIOUS
<1>3. \A q \in Requests : KeepsRound(q)' => MyProblem(q)' = MyProblem(q) /\ QRound(q)' = QRound(q)
  BY DEF MyProblem
<1>4. RoundLocks'
  <2>1. \A q \in Requests : KeepsRound(q)' => KeepsRound(q) /\ QRound(q)' = QRound(q)
    BY <1>3
  <2>2. \A j \in Judgings : HoldsRound(j)' => HoldsRound(j) /\ JRound(j)' = JRound(j)
    BY <1>2
  <2> HIDE DEF HoldsRound, JRound, QRound
  <2>3. QED
    BY <2>1, <2>2 DEF RoundLocks
<1>5. RoundsComputed'
  BY <1>1, <1>2, <1>3 DEF RoundsComputed
<1>6. RoundsSettle'
  BY DEF RoundsSettle, Updating
<1>7. QED
  BY <1>4, <1>5, <1>6

LEMMA NextRound == RoundInv /\ [Next]_vars => RoundInv'
<1> SUFFICES ASSUME RoundInv, [Next]_vars
             PROVE  RoundLocks' /\ RoundsComputed' /\ RoundsSettle'
  BY NextShape DEF RoundInv
<1>0. PICK V : TypeOver(V)
  BY DEF RoundInv, Shape
<1> DEFINE Rest == RoundLocks /\ RoundsComputed /\ RoundsSettle
<1> SUFFICES Rest'
  OBVIOUS
<1>00. Rest
  BY DEF RoundInv
<1>01. QuietForRounds => Rest'
  BY <1>00, QuietRounds
<1>02. judging \in [Judgings -> JudgingStates(V)] /\ request \in [Requests -> RequestStates(V)]
  BY <1>0 DEF TypeOver
<1> HIDE DEF Rest
<1>1. CASE UNCHANGED vars
  BY <1>1, <1>01 DEF vars, results, QuietForRounds, KeepsRound
<1>2. ASSUME NEW j \in Judgings, NEW s \in Submissions, LoadSubmission(j, s) PROVE Rest'
  BY <1>2, <1>01, <1>02 DEF LoadSubmission, QuietForRounds, KeepsRound, JudgingStates, results
<1>3. ASSUME NEW j \in Judgings, NEW v \in Scores \cup {None}, SaveScore(j, v) PROVE Rest'
  BY <1>3, <1>01, <1>02 DEF SaveScore, QuietForRounds, KeepsRound, JudgingStates, results
<1>4. ASSUME NEW j \in Judgings, ReadProblem(j) PROVE Rest'
  BY <1>4, <1>01, <1>02 DEF ReadProblem, QuietForRounds, KeepsRound, JudgingStates, results
<1>5. ASSUME NEW j \in Judgings, ReadContest(j) PROVE Rest'
  BY <1>5, <1>01, <1>02 DEF ReadContest, QuietForRounds, KeepsRound, JudgingStates, results
<1>6. ASSUME NEW j \in Judgings, SaveContest(j) PROVE Rest'
  BY <1>6, <1>01, <1>02 DEF SaveContest, QuietForRounds, KeepsRound, JudgingStates, results, IdleJudging
<1>7. ASSUME NEW q \in Requests, NEW s \in Submissions, NEW k \in BOOLEAN, OpenRequest(q, s, k) PROVE Rest'
  BY <1>7, <1>01, <1>02 DEF OpenRequest, QuietForRounds, KeepsRound, RequestStates, results
<1>8. ASSUME NEW q \in Requests, ChangeKind(q) PROVE Rest'
  BY <1>8, <1>01, <1>02 DEF ChangeKind, QuietForRounds, KeepsRound, RequestStates, results
<1>9. ASSUME NEW q \in Requests, RequestProblem(q) PROVE Rest'
  BY <1>9, <1>01, <1>02 DEF RequestProblem, QuietForRounds, KeepsRound, RequestStates, results
<1>10. ASSUME NEW q \in Requests, RequestContest(q) PROVE Rest'
  BY <1>10, <1>01, <1>02 DEF RequestContest, QuietForRounds, KeepsRound, RequestStates, results
<1>11. ASSUME NEW q \in Requests, Rollback(q) PROVE Rest'
  BY <1>11, <1>01, <1>02 DEF Rollback, QuietForRounds, KeepsRound, RequestStates, results, IdleRequest
<1>12. ASSUME NEW j \in Judgings, SaveProblem(j) PROVE Rest'
  <2>1. /\ judging[j].pc = "saveProblem"
        /\ problem' = [problem EXCEPT ![JProblem(j)] = judging[j].value]
        /\ judging' = [judging EXCEPT ![j] = [judging[j] EXCEPT !.pc = "round", !.value = None]]
        /\ UNCHANGED <<round, request>>
    BY <1>12 DEF SaveProblem
  <2>2. /\ judging'[j].pc = "round" /\ judging'[j].sub = judging[j].sub
        /\ \A i \in Judgings \ {j} : judging'[i] = judging[i]
    BY <1>02, <2>1 DEF JudgingStates
  <2>3. PICK r : r = JRound(j)
    OBVIOUS
  <2>4. \A i \in Judgings : JRound(i)' = JRound(i)
    BY <2>2 DEF JRound, JProblem
  <2>5. AheadOfRound(r)' /\ \A x : AheadOfRound(x) => AheadOfRound(x)'
    BY <2>1, <2>2, <2>3, <2>4 DEF AheadOfRound
  <2>6. \A p \in Problems : RoundOf[p] # r => problem'[p] = problem[p]
    BY <1>0, <2>1, <2>3 DEF JRound, TypeOver
  <2>7. \A x : x # r => RoundScore(x, problem') = RoundScore(x, problem)
    BY <2>6, RoundScoreFrame
  <2>8. ASSUME NEW q \in Requests, QRound(q) # r
        PROVE  RoundScore(QRound(q), MyProblem(q)') = RoundScore(QRound(q), MyProblem(q))
    <3>1. request'[q] = request[q] /\ DOMAIN problem' = Problems /\ DOMAIN problem = Problems
      BY <1>0, <2>1 DEF TypeOver
    <3>2. \A p \in Problems : RoundOf[p] = QRound(q) => MyProblem(q)'[p] = MyProblem(q)[p]
      BY <2>6, <2>8, <3>1 DEF MyProblem, QProblem
    <3>3. QED
      BY <3>2, RoundScoreFrame
  <2>9. \A q \in Requests : QRound(q)' = QRound(q) /\ (KeepsRound(q)' <=> KeepsRound(q))
    BY <2>1 DEF QRound, QProblem, KeepsRound
  <2>10. RoundLocks'
    BY <1>00, <2>2, <2>4, <2>9 DEF Rest, RoundLocks, HoldsRound
  <2>11. ASSUME NEW i \in Judgings, HoldsRound(i)'
         PROVE  AheadOfRound(JRound(i))' \/ (judging[i].value = RoundScore(JRound(i), problem))'
    <3>1. judging'[i] = judging[i] /\ HoldsRound(i)
      BY <2>2, <2>11 DEF HoldsRound
    <3>2. QED
      BY <1>00, <2>4, <2>5, <2>7, <3>1 DEF Rest, RoundsComputed
  <2>12. ASSUME NEW q \in Requests, KeepsRound(q)'
         PROVE  \/ AheadOfRound(QRound(q))'
                \/ (request[q].round = RoundScore(QRound(q), MyProblem(q)))'
    BY <1>00, <2>1, <2>5, <2>8, <2>9, <2>12 DEF Rest, RoundsComputed
  <2>13. RoundsComputed'
    BY <2>11, <2>12 DEF RoundsComputed
  <2>14. RoundsSettle'
    BY <1>00, <2>1, <2>2, <2>3, <2>4, <2>7 DEF Rest, RoundsSettle, Updating
  <2>15. QED
    BY <2>10, <2>13, <2>14 DEF Rest
<1>13. ASSUME NEW j \in Judgings, ReadRound(j) PROVE Rest'
  <2>1. PICK x : x = RoundScore(JRound(j), problem)
    OBVIOUS
  <2>2. /\ judging[j].pc = "round" /\ ~RoundLocked(JRound(j))
        /\ judging' = [judging EXCEPT ![j] = [judging[j] EXCEPT !.pc = "saveRound", !.value = x]]
        /\ UNCHANGED <<problem, round, request>>
    BY <1>13, <2>1 DEF ReadRound, results
  <2>3. /\ judging'[j].pc = "saveRound" /\ judging'[j].sub = judging[j].sub /\ judging'[j].value = x
        /\ \A i \in Judgings \ {j} : judging'[i] = judging[i]
    BY <1>02, <2>2 DEF JudgingStates
  <2>4. \A i \in Judgings : JRound(i)' = JRound(i)
    BY <2>3 DEF JRound, JProblem
  <2>5. \A q \in Requests : QRound(q)' = QRound(q) /\ MyProblem(q)' = MyProblem(q)
    BY <2>2 DEF QRound, QProblem, MyProblem
  <2>6. \A r : r # JRound(j) /\ AheadOfRound(r) => AheadOfRound(r)'
    BY <2>3, <2>4 DEF AheadOfRound
  <2>7. RoundLocks'
    BY <1>00, <2>2, <2>3, <2>4, <2>5 DEF Rest, RoundLocks, HoldsRound, KeepsRound, RoundLocked
  <2>8. RoundsComputed'
    BY <1>00, <2>1, <2>2, <2>3, <2>4, <2>5, <2>6 DEF Rest, RoundsComputed, HoldsRound, KeepsRound, RoundLocked
  <2>9. RoundsSettle'
    BY <1>00, <2>2, <2>3, <2>4 DEF Rest, RoundsSettle, Updating
  <2>10. QED
    BY <2>7, <2>8, <2>9 DEF Rest
<1>14. ASSUME NEW j \in Judgings, SaveRound(j) PROVE Rest'
  <2>1. /\ judging[j].pc = "saveRound"
        /\ round' = [round EXCEPT ![JRound(j)] = judging[j].value]
        /\ judging' = [judging EXCEPT ![j] = [judging[j] EXCEPT !.pc = "contest", !.value = None]]
        /\ UNCHANGED <<problem, request>>
    BY <1>14 DEF SaveRound
  <2>2. /\ judging'[j].pc = "contest" /\ judging'[j].sub = judging[j].sub
        /\ \A i \in Judgings \ {j} : judging'[i] = judging[i]
    BY <1>02, <2>1 DEF JudgingStates
  <2>3. \A i \in Judgings : JRound(i)' = JRound(i)
    BY <2>2 DEF JRound, JProblem
  <2>4. \A q \in Requests : QRound(q)' = QRound(q) /\ MyProblem(q)' = MyProblem(q)
    BY <2>1 DEF QRound, QProblem, MyProblem
  <2>5. \A r : AheadOfRound(r) <=> AheadOfRound(r)'
    BY <2>1, <2>2, <2>3 DEF AheadOfRound
  <2>6. RoundLocks'
    BY <1>00, <2>1, <2>2, <2>3, <2>4 DEF Rest, RoundLocks, HoldsRound, KeepsRound
  <2>7. RoundsComputed'
    BY <1>00, <2>1, <2>2, <2>3, <2>4, <2>5 DEF Rest, RoundsComputed, HoldsRound, KeepsRound
  <2>8. ASSUME NEW r \in Rounds,
               \A i \in Judgings : Updating(i, {"round", "saveRound"})' => JRound(i)' # r
        PROVE  round'[r] = RoundScore(r, problem)
    <3>1. DOMAIN round = Rounds
      BY <1>0 DEF TypeOver
    <3>2. CASE r = JRound(j)
      <4>1. ~AheadOfRound(r)
        BY <2>5, <2>8 DEF AheadOfRound, Updating
      <4>2. QED
        BY <1>00, <2>1, <3>1, <3>2, <4>1 DEF Rest, RoundsComputed, HoldsRound
    <3>3. CASE r # JRound(j)
      BY <1>00, <2>1, <2>2, <2>3, <2>8, <3>3 DEF Rest, RoundsSettle, Updating
    <3>4. QED
      BY <3>2, <3>3
  <2>9. RoundsSettle'
    BY <2>1, <2>8 DEF RoundsSettle
  <2>10. QED
    BY <2>6, <2>7, <2>9 DEF Rest
<1>15. ASSUME NEW q \in Requests, RequestRound(q) PROVE Rest'
  <2>1. PICK x : x = RoundScore(QRound(q), MyProblem(q))
    OBVIOUS
  <2>2. /\ request[q].pc = "round" /\ ~RoundLocked(QRound(q))
        /\ request' = [request EXCEPT ![q] = [request[q] EXCEPT !.pc = "contest", !.round = x]]
        /\ UNCHANGED <<problem, round, judging>>
    BY <1>15, <2>1 DEF RequestRound, results
  <2>3. /\ request'[q].pc = "contest" /\ request'[q].round = x
        /\ request'[q].sub = request[q].sub /\ request'[q].problem = request[q].problem
        /\ \A t \in Requests \ {q} : request'[t] = request[t]
    BY <1>02, <2>2 DEF RequestStates
  <2>4. \A t \in Requests : QRound(t)' = QRound(t) /\ MyProblem(t)' = MyProblem(t)
    BY <2>2, <2>3 DEF QRound, QProblem, MyProblem
  <2>5. \A i \in Judgings : JRound(i)' = JRound(i)
    BY <2>2 DEF JRound, JProblem
  <2>6. \A r : AheadOfRound(r) <=> AheadOfRound(r)'
    BY <2>2, <2>5 DEF AheadOfRound
  <2>7. RoundLocks'
    BY <1>00, <2>2, <2>3, <2>4, <2>5 DEF Rest, RoundLocks, HoldsRound, KeepsRound, RoundLocked
  <2>8. RoundsComputed'
    BY <1>00, <2>1, <2>2, <2>3, <2>4, <2>5, <2>6 DEF Rest, RoundsComputed, HoldsRound, KeepsRound
  <2>9. RoundsSettle'
    BY <1>00, <2>2, <2>5 DEF Rest, RoundsSettle, Updating
  <2>10. QED
    BY <2>7, <2>8, <2>9 DEF Rest
<1>16. ASSUME NEW q \in Requests, Commit(q) PROVE Rest'
  <2>1. /\ request[q].pc = "commit" /\ request' = [request EXCEPT ![q] = IdleRequest] /\ judging' = judging
        /\ problem' = MyProblem(q)
        /\ round' = [round EXCEPT ![QRound(q)] = request[q].round]
    BY <1>16 DEF Commit, MyRound
  <2>2. request'[q].pc = "idle" /\ \A t \in Requests \ {q} : request'[t] = request[t]
    BY <1>02, <2>1 DEF IdleRequest
  <2>3. PICK r : r = QRound(q)
    OBVIOUS
  <2>4. DOMAIN problem' = Problems /\ DOMAIN problem = Problems /\ DOMAIN round = Rounds
    BY <1>0, <2>1 DEF TypeOver, MyProblem
  <2>5. \A p \in Problems : RoundOf[p] # r => problem'[p] = problem[p]
    BY <2>1, <2>3, <2>4 DEF MyProblem, QRound
  <2>6. \A x : x # r => RoundScore(x, problem') = RoundScore(x, problem)
    BY <2>5, RoundScoreFrame
  <2>7. \A i \in Judgings : JRound(i)' = JRound(i)
    BY <2>1 DEF JRound, JProblem
  <2>8. \A x : AheadOfRound(x) <=> AheadOfRound(x)'
    BY <2>1, <2>7 DEF AheadOfRound
  <2>9. ASSUME NEW t \in Requests, KeepsRound(t)'
        PROVE  /\ t # q /\ KeepsRound(t) /\ request'[t] = request[t] /\ QRound(t)' = QRound(t)
               /\ QRound(t) # r
    BY <1>00, <2>1, <2>2, <2>3, <2>9 DEF Rest, RoundLocks, KeepsRound, QRound, QProblem
  <2>10. ASSUME NEW t \in Requests, KeepsRound(t)'
         PROVE  RoundScore(QRound(t), MyProblem(t)') = RoundScore(QRound(t), MyProblem(t))
    <3>1. \A p \in Problems : RoundOf[p] = QRound(t) => MyProblem(t)'[p] = MyProblem(t)[p]
      BY <2>4, <2>5, <2>9, <2>10 DEF MyProblem, QProblem
    <3>2. QED
      BY <3>1, RoundScoreFrame
  <2>11. ASSUME NEW i \in Judgings, HoldsRound(i)'
         PROVE  HoldsRound(i) /\ JRound(i) # r /\ judging'[i] = judging[i]
    BY <1>00, <2>1, <2>3, <2>11 DEF Rest, RoundLocks, HoldsRound, KeepsRound
  <2>12. RoundLocks'
    BY <1>00, <2>1, <2>2, <2>7, <2>9 DEF Rest, RoundLocks, HoldsRound
  <2>13. RoundsComputed'
    BY <1>00, <2>6, <2>7, <2>8, <2>9, <2>10, <2>11 DEF Rest, RoundsComputed
  <2>14. ASSUME NEW x \in Rounds,
                \A i \in Judgings : Updating(i, {"round", "saveRound"})' => JRound(i)' # x
         PROVE  round'[x] = RoundScore(x, problem')
    <3>1. CASE x = r
      <4>1. ~AheadOfRound(r)
        BY <2>8, <2>14, <3>1 DEF AheadOfRound, Updating
      <4>2. QED
        BY <1>00, <2>1, <2>3, <2>4, <3>1, <4>1 DEF Rest, RoundsComputed, KeepsRound
    <3>2. CASE x # r
      BY <1>00, <2>1, <2>3, <2>6, <2>7, <2>14, <3>2 DEF Rest, RoundsSettle, Updating
    <3>3. QED
      BY <3>1, <3>2
  <2>15. RoundsSettle'
    BY <2>14 DEF RoundsSettle
  <2>16. QED
    BY <2>12, <2>13, <2>15 DEF Rest
<1>17. QED
  BY <1>1, <1>2, <1>3, <1>4, <1>5, <1>6, <1>7, <1>8, <1>9, <1>10, <1>11, <1>12, <1>13, <1>14, <1>15, <1>16 DEF Next

\* A sum of nothing but missing scores is missing.
LEMMA SumOfNone ==
  ASSUME NEW f, \A x \in DOMAIN f : f[x] = None
  PROVE  SumScores(f) = None
<1>1. {x \in DOMAIN f : f[x] # None} = {}
  OBVIOUS
<1>2. QED
  BY <1>1 DEF SumScores

LEMMA InitRound == Init => RoundInv
<1> SUFFICES ASSUME Init PROVE RoundLocks /\ RoundsComputed /\ RoundsSettle
  BY InitShape DEF RoundInv
<1>1. /\ \A j \in Judgings : judging[j].pc = "idle"
      /\ \A q \in Requests : request[q].pc = "idle"
  BY DEF Init, IdleJudging, IdleRequest
<1>2. RoundLocks /\ RoundsComputed
  BY <1>1 DEF RoundLocks, RoundsComputed, HoldsRound, KeepsRound
<1>3. ASSUME NEW r \in Rounds PROVE round[r] = RoundScore(r, problem)
  <2> DEFINE f == [p \in {q \in Problems : RoundOf[q] = r} |-> problem[p]]
  <2>1. \A p \in DOMAIN f : f[p] = None
    BY DEF Init
  <2>2. RoundScore(r, problem) = SumScores(f)
    BY DEF RoundScore
  <2> HIDE DEF f
  <2>3. SumScores(f) = None
    BY <2>1, SumOfNone
  <2>4. QED
    BY <2>2, <2>3 DEF Init
<1>4. QED
  BY <1>2, <1>3 DEF RoundsSettle

\* The result for a round is the sum over its problems once the judgings of the
\* round have passed its update.
THEOREM RoundsCorrect == Spec => []RoundsSettle
<1>1. RoundInv => RoundsSettle
  BY DEF RoundInv
<1>2. QED
  BY InitRound, NextRound, <1>1, PTL DEF Spec

(***************************************************************************)
(* Results for the contest: a single row.                                  *)
(***************************************************************************)
AheadOfContest == \E j \in Judgings : judging[j].pc = "contest"
HoldsContest(j) == judging[j].pc = "saveContest"
KeepsContest(q) == request[q].pc = "commit"

ContestLocks ==
    /\ \A i, j \in Judgings : HoldsContest(i) /\ HoldsContest(j) => i = j
    /\ \A j \in Judgings, q \in Requests : ~(HoldsContest(j) /\ KeepsContest(q))
    /\ \A q, t \in Requests : KeepsContest(q) /\ KeepsContest(t) => q = t

ContestComputed ==
    /\ \A j \in Judgings : HoldsContest(j) =>
            AheadOfContest \/ judging[j].value = ContestScore(round)
    /\ \A q \in Requests : KeepsContest(q) =>
            AheadOfContest \/ request[q].contest = ContestScore(MyRound(q))

ContestInv == Shape /\ ContestLocks /\ ContestComputed /\ ContestSettles

\* A step that changes neither the columns nor who is ahead of, holds or keeps the
\* contest's row preserves the invariant.
QuietForContest ==
    /\ UNCHANGED <<round, contest>>
    /\ \A j \in Judgings :
          \/ judging'[j] = judging[j]
          \/ {judging[j].pc, judging'[j].pc} \cap {"contest", "saveContest"} = {}
    /\ \A q \in Requests : KeepsContest(q)' => request'[q] = request[q]

LEMMA QuietContest ==
  ASSUME ContestLocks, ContestComputed, ContestSettles, QuietForContest
  PROVE  ContestLocks' /\ ContestComputed' /\ ContestSettles'
<1> USE DEF QuietForContest, HoldsContest
<1>1. AheadOfContest' <=> AheadOfContest
  BY DEF AheadOfContest
<1>2. \A j \in Judgings : HoldsContest(j)' => HoldsContest(j) /\ judging'[j] = judging[j]
  OBVIOUS
<1>3. \A q \in Requests : KeepsContest(q)' =>
         KeepsContest(q) /\ request'[q] = request[q] /\ MyRound(q)' = MyRound(q)
  BY DEF KeepsContest, MyRound, QRound, QProblem
<1>4. ContestLocks'
  BY <1>2, <1>3 DEF ContestLocks
<1>5. ContestComputed'
  BY <1>1, <1>2, <1>3 DEF ContestComputed
<1>6. ContestSettles'
  BY DEF ContestSettles, Updating
<1>7. QED
  BY <1>4, <1>5, <1>6

LEMMA NextContest == ContestInv /\ [Next]_vars => ContestInv'
<1> SUFFICES ASSUME ContestInv, [Next]_vars
             PROVE  ContestLocks' /\ ContestComputed' /\ ContestSettles'
  BY NextShape DEF ContestInv
<1>0. PICK V : TypeOver(V)
  BY DEF ContestInv, Shape
<1> DEFINE Rest == ContestLocks /\ ContestComputed /\ ContestSettles
<1> SUFFICES Rest'
  OBVIOUS
<1>00. Rest
  BY DEF ContestInv
<1>01. QuietForContest => Rest'
  BY <1>00, QuietContest
<1>02. judging \in [Judgings -> JudgingStates(V)] /\ request \in [Requests -> RequestStates(V)]
  BY <1>0 DEF TypeOver
<1> HIDE DEF Rest
<1>1. CASE UNCHANGED vars
  BY <1>1, <1>01 DEF vars, results, QuietForContest, KeepsContest
<1>2. ASSUME NEW j \in Judgings, NEW s \in Submissions, LoadSubmission(j, s) PROVE Rest'
  BY <1>2, <1>01, <1>02 DEF LoadSubmission, QuietForContest, KeepsContest, JudgingStates, results
<1>3. ASSUME NEW j \in Judgings, NEW v \in Scores \cup {None}, SaveScore(j, v) PROVE Rest'
  BY <1>3, <1>01, <1>02 DEF SaveScore, QuietForContest, KeepsContest, JudgingStates, results
<1>4. ASSUME NEW j \in Judgings, ReadProblem(j) PROVE Rest'
  BY <1>4, <1>01, <1>02 DEF ReadProblem, QuietForContest, KeepsContest, JudgingStates, results
<1>5. ASSUME NEW j \in Judgings, SaveProblem(j) PROVE Rest'
  BY <1>5, <1>01, <1>02 DEF SaveProblem, QuietForContest, KeepsContest, JudgingStates, results
<1>6. ASSUME NEW j \in Judgings, ReadRound(j) PROVE Rest'
  BY <1>6, <1>01, <1>02 DEF ReadRound, QuietForContest, KeepsContest, JudgingStates, results
<1>7. ASSUME NEW q \in Requests, NEW s \in Submissions, NEW k \in BOOLEAN, OpenRequest(q, s, k) PROVE Rest'
  BY <1>7, <1>01, <1>02 DEF OpenRequest, QuietForContest, KeepsContest, RequestStates, results
<1>8. ASSUME NEW q \in Requests, ChangeKind(q) PROVE Rest'
  BY <1>8, <1>01, <1>02 DEF ChangeKind, QuietForContest, KeepsContest, RequestStates, results
<1>9. ASSUME NEW q \in Requests, RequestProblem(q) PROVE Rest'
  BY <1>9, <1>01, <1>02 DEF RequestProblem, QuietForContest, KeepsContest, RequestStates, results
<1>10. ASSUME NEW q \in Requests, RequestRound(q) PROVE Rest'
  BY <1>10, <1>01, <1>02 DEF RequestRound, QuietForContest, KeepsContest, RequestStates, results
<1>11. ASSUME NEW q \in Requests, Rollback(q) PROVE Rest'
  BY <1>11, <1>01, <1>02 DEF Rollback, QuietForContest, KeepsContest, RequestStates, results, IdleRequest
<1>12. ASSUME NEW j \in Judgings, SaveRound(j) PROVE Rest'
  <2>1. /\ judging[j].pc = "saveRound"
        /\ judging' = [judging EXCEPT ![j] = [judging[j] EXCEPT !.pc = "contest", !.value = None]]
        /\ UNCHANGED <<contest, request>>
    BY <1>12 DEF SaveRound
  <2>2. /\ judging'[j].pc = "contest"
        /\ \A i \in Judgings \ {j} : judging'[i] = judging[i]
    BY <1>02, <2>1 DEF JudgingStates
  <2>3. AheadOfContest'
    BY <2>2 DEF AheadOfContest
  <2>4. ContestLocks'
    BY <1>00, <2>1, <2>2 DEF Rest, ContestLocks, HoldsContest, KeepsContest
  <2>5. ContestComputed'
    BY <2>3 DEF ContestComputed
  <2>6. ContestSettles'
    BY <2>2 DEF ContestSettles, Updating
  <2>7. QED
    BY <2>4, <2>5, <2>6 DEF Rest
<1>13. ASSUME NEW j \in Judgings, ReadContest(j) PROVE Rest'
  <2>1. PICK x : x = ContestScore(round)
    OBVIOUS
  <2>2. /\ judging[j].pc = "contest" /\ ~ContestLocked
        /\ judging' = [judging EXCEPT ![j] = [judging[j] EXCEPT !.pc = "saveContest", !.value = x]]
        /\ UNCHANGED <<round, contest, request>>
    BY <1>13, <2>1 DEF ReadContest, results
  <2>3. /\ judging'[j].pc = "saveContest" /\ judging'[j].value = x
        /\ \A i \in Judgings \ {j} : judging'[i] = judging[i]
    BY <1>02, <2>2 DEF JudgingStates
  <2>4. ContestLocks'
    BY <1>00, <2>2, <2>3 DEF Rest, ContestLocks, HoldsContest, KeepsContest, ContestLocked
  <2>5. ContestComputed'
    BY <2>1, <2>2, <2>3 DEF ContestComputed, HoldsContest, KeepsContest, ContestLocked
  <2>6. ContestSettles'
    BY <2>3 DEF ContestSettles, Updating
  <2>7. QED
    BY <2>4, <2>5, <2>6 DEF Rest
<1>14. ASSUME NEW j \in Judgings, SaveContest(j) PROVE Rest'
  <2>1. /\ judging[j].pc = "saveContest" /\ contest' = judging[j].value
        /\ judging' = [judging EXCEPT ![j] = IdleJudging]
        /\ UNCHANGED <<round, request>>
    BY <1>14 DEF SaveContest
  <2>2. /\ judging'[j].pc = "idle"
        /\ \A i \in Judgings \ {j} : judging'[i] = judging[i]
    BY <1>02, <2>1 DEF IdleJudging
  <2>3. \A q \in Requests : MyRound(q)' = MyRound(q)
    BY <2>1 DEF MyRound, QRound, QProblem
  <2>4. AheadOfContest <=> AheadOfContest'
    BY <2>1, <2>2 DEF AheadOfContest
  <2>5. ContestLocks'
    BY <1>00, <2>1, <2>2 DEF Rest, ContestLocks, HoldsContest, KeepsContest
  <2>6. ContestComputed'
    BY <1>00, <2>1, <2>2, <2>3, <2>4 DEF Rest, ContestComputed, HoldsContest, KeepsContest
  <2>7. ContestSettles'
    <3>1. SUFFICES ASSUME ~AheadOfContest PROVE contest' = ContestScore(round')
      BY <2>4 DEF ContestSettles, Updating, ContestScore, AheadOfContest
    <3>2. QED
      BY <1>00, <2>1, <3>1 DEF Rest, ContestComputed, HoldsContest
  <2>8. QED
    BY <2>5, <2>6, <2>7 DEF Rest
<1>15. ASSUME NEW q \in Requests, RequestContest(q) PROVE Rest'
  <2>1. PICK x : x = ContestScore(MyRound(q))
    OBVIOUS
  <2>2. /\ request[q].pc = "contest" /\ ~ContestLocked
        /\ request' = [request EXCEPT ![q] = [request[q] EXCEPT !.pc = "commit", !.contest = x]]
        /\ UNCHANGED <<round, contest, judging>>
    BY <1>15, <2>1 DEF RequestContest, results
  <2>3. /\ request'[q].contest = x
        /\ request'[q].sub = request[q].sub /\ request'[q].round = request[q].round
        /\ \A t \in Requests \ {q} : request'[t] = request[t]
    BY <1>02, <2>2 DEF RequestStates
  <2>4. MyRound(q)' = MyRound(q)
    BY <2>2, <2>3 DEF MyRound, QRound, QProblem
  <2>5. \A t \in Requests : KeepsContest(t)' => t = q
    BY <2>2, <2>3 DEF KeepsContest, ContestLocked
  <2>6. ContestLocks'
    BY <1>00, <2>2, <2>5 DEF Rest, ContestLocks, HoldsContest, ContestLocked
  <2>7. ContestComputed'
    BY <1>00, <2>1, <2>2, <2>3, <2>4, <2>5 DEF Rest, ContestComputed, HoldsContest, AheadOfContest
  <2>8. ContestSettles'
    BY <1>00, <2>2 DEF Rest, ContestSettles, Updating
  <2>9. QED
    BY <2>6, <2>7, <2>8 DEF Rest
<1>16. ASSUME NEW q \in Requests, Commit(q) PROVE Rest'
  <2>1. /\ request[q].pc = "commit" /\ request' = [request EXCEPT ![q] = IdleRequest] /\ judging' = judging
        /\ round' = MyRound(q) /\ contest' = request[q].contest
    BY <1>16 DEF Commit
  <2>2. request'[q].pc = "idle" /\ \A t \in Requests \ {q} : request'[t] = request[t]
    BY <1>02, <2>1 DEF IdleRequest
  <2>3. \A t \in Requests : ~KeepsContest(t)'
    BY <1>00, <2>1, <2>2 DEF Rest, ContestLocks, KeepsContest
  <2>4. \A i \in Judgings : ~HoldsContest(i)'
    BY <1>00, <2>1 DEF Rest, ContestLocks, HoldsContest, KeepsContest
  <2>5. ContestLocks' /\ ContestComputed'
    BY <2>3, <2>4 DEF ContestLocks, ContestComputed
  <2>6. ContestSettles'
    <3>1. SUFFICES ASSUME ~AheadOfContest PROVE contest' = ContestScore(round')
      BY <2>1 DEF ContestSettles, Updating, ContestScore, AheadOfContest
    <3>2. QED
      BY <1>00, <2>1, <3>1 DEF Rest, ContestComputed, KeepsContest
  <2>7. QED
    BY <2>5, <2>6 DEF Rest
<1>17. QED
  BY <1>1, <1>2, <1>3, <1>4, <1>5, <1>6, <1>7, <1>8, <1>9, <1>10, <1>11, <1>12, <1>13, <1>14, <1>15, <1>16 DEF Next

LEMMA InitContest == Init => ContestInv
<1> SUFFICES ASSUME Init PROVE ContestLocks /\ ContestComputed /\ ContestSettles
  BY InitShape DEF ContestInv
<1>1. /\ \A j \in Judgings : judging[j].pc = "idle"
      /\ \A q \in Requests : request[q].pc = "idle"
  BY DEF Init, IdleJudging, IdleRequest
<1>2. ContestLocks /\ ContestComputed
  BY <1>1 DEF ContestLocks, ContestComputed, HoldsContest, KeepsContest
<1>3. ContestSettles
  <2> DEFINE f == [r \in Rounds \ Trial |-> round[r]]
  <2>1. \A r \in DOMAIN f : f[r] = None
    BY DEF Init
  <2> HIDE DEF f
  <2>2. SumScores(f) = None
    BY <2>1, SumOfNone
  <2>3. QED
    BY <2>2 DEF f, ContestSettles, Init
<1>4. QED
  BY <1>2, <1>3

\* The result for the contest is the sum over its rounds that are not trial ones
\* once the judgings have passed its update.
THEOREM ContestCorrect == Spec => []ContestSettles
<1>1. ContestInv => ContestSettles
  BY DEF ContestInv
<1>2. QED
  BY InitContest, NextContest, <1>1, PTL DEF Spec

=============================================================================
