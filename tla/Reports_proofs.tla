--------------------------- MODULE Reports_proofs ---------------------------
(***************************************************************************)
(* Proofs about the reports of a submission, for any number of overlapping *)
(* evaluations, failures and kinds of reports.                             *)
(***************************************************************************)
EXTENDS Reports, FiniteSetTheorems, TLAPS

(***************************************************************************)
(* Helpers                                                                 *)
(***************************************************************************)
LEMMA Kinds ==
    /\ GroupKinds["final"] = {"NORMAL", "FAILURE"}
    /\ GroupKinds["initial"] = {"INITIAL"}
    /\ \A s \in Stages : KindOf[s] \in {"INITIAL", "NORMAL", "FAILURE"}
BY DEF GroupKinds, KindOf, Stages

\* A report is in at most one of the groups.
LEMMA OneGroup ==
    /\ Of("final") = {r \in Ids : report[r].kind \in {"NORMAL", "FAILURE"}}
    /\ Of("initial") = {r \in Ids : report[r].kind = "INITIAL"}
    /\ Of("final") \cap Of("initial") = {}
BY Kinds DEF Of

\* A nonempty set of reports has a newest one.
LEMMA NewestOne ==
    ASSUME NEW n \in Nat, NEW R \in SUBSET (1 .. n), R # {}
    PROVE  \E r \in R : \A s \in R : s <= r
<1> DEFINE above(r) == {s \in R : s > r}
           T == {above(r) : r \in R}
<1>1. IsFiniteSet(1 .. n)
  BY FS_Interval
<1>2. IsFiniteSet(R)
  BY <1>1, FS_Subset
<1>3. T \subseteq FiniteSubsetsOf(R)
  <2>1. FiniteSubsetsOf(R) = SUBSET R
    BY <1>2, FS_FiniteSubsetsOfFinite
  <2> QED
    BY <2>1
<1>4. T # {}
  OBVIOUS
<1>5. PICK x \in T : \A y \in T : ~(<<y, x>> \in StrictSubsetOrdering(R))
  <2>1. IsWellFoundedOn(StrictSubsetOrdering(R), FiniteSubsetsOf(R))
    BY FS_StrictSubsetOrderingWellFounded
  <2> HIDE DEF T
  <2> QED
    BY <2>1, <1>3, <1>4, WFMin
<1>6. PICK r \in R : x = above(r)
  OBVIOUS
<1>7. ASSUME NEW s \in R, s > r PROVE FALSE
  <2>3. \A t \in R : t \in Nat
    OBVIOUS
  <2>4. s \in above(r) /\ s \notin above(s)
    BY <1>7, <2>3
  <2>5. \A t \in R : t > s => t > r
    BY <1>7, <2>3
  <2>1. above(s) \subseteq above(r) /\ above(s) # above(r)
    BY <2>4, <2>5
  <2>2. <<above(s), above(r)>> \in StrictSubsetOrdering(R)
    BY <2>1 DEF StrictSubsetOrdering
  <2> QED
    BY <2>2, <1>5, <1>6
<1> QED
  BY <1>7

(***************************************************************************)
(* Types                                                                   *)
(***************************************************************************)
LEMMA BeginType ==
    ASSUME NEW ev \in [Evaluations -> EvalStates], NEW e \in Evaluations, NEW kinds
    PROVE  /\ Begin(ev, e, kinds) \in [Evaluations -> EvalStates]
           /\ \A f \in Evaluations \ {e} : Begin(ev, e, kinds)[f] = [ev[f] EXCEPT !.alone = FALSE]
           /\ Begin(ev, e, kinds)[e].pc = "report" /\ Begin(ev, e, kinds)[e].group = "final"
           /\ Begin(ev, e, kinds)[e].on = {} /\ Begin(ev, e, kinds)[e].off = {}
           /\ Begin(ev, e, kinds)[e].todo = {} /\ Begin(ev, e, kinds)[e].final \in BOOLEAN
<1>1. ASSUME NEW f \in Evaluations, f # e
      PROVE  [ev[f] EXCEPT !.alone = FALSE] \in EvalStates
  <2>1. ev[f] \in EvalStates
    OBVIOUS
  <2> QED
    BY <2>1 DEF EvalStates
<1> PICK final \in BOOLEAN : final = (kinds = {"initial", "final"})
  OBVIOUS
<1> PICK alone \in BOOLEAN : alone = (\A x \in Evaluations \ {e} : ~UnderWay(x))
  OBVIOUS
<1> DEFINE st == [IdleEval EXCEPT !.pc = "report",
                      !.stage = IF "initial" \in kinds THEN "initial" ELSE "final",
                      !.final = final,
                      !.alone = alone]
<1>2. st \in EvalStates /\ st.pc = "report" /\ st.group = "final" /\ st.on = {} /\ st.off = {}
      /\ st.todo = {} /\ st.final \in BOOLEAN
  BY DEF IdleEval, EvalStates, Stages, Groups
<1> HIDE DEF st
<1>3. Begin(ev, e, kinds) = [f \in Evaluations |-> IF f = e THEN st ELSE [ev[f] EXCEPT !.alone = FALSE]]
  BY DEF Begin, st
<1> QED
  BY <1>1, <1>2, <1>3

LEMMA InitTypes == Init => TypeOK
BY DEF Init, TypeOK, IdleEval, EvalStates, Stages, Groups

LEMMA NextGroupType ==
    ASSUME NEW st \in EvalStates
    PROVE  NextGroup(st) \in EvalStates
BY DEF NextGroup, EvalStates, Groups

LEMMA RowType ==
    ASSUME report \in Seq(ReportStates), NEW k, NEW status \in {"INACTIVE", "undone"}
    PROVE  [report EXCEPT ![k].status = status] \in Seq(ReportStates)
<1>1. report \in [1 .. Len(report) -> ReportStates] /\ Len(report) \in Nat
  OBVIOUS
<1>2. \A row \in ReportStates : [row EXCEPT !.status = status] \in ReportStates
  BY DEF ReportStates, Rated
<1>3. [report EXCEPT ![k].status = status] \in [1 .. Len(report) -> ReportStates]
  BY <1>1, <1>2
<1> QED
  BY <1>1, <1>3

LEMMA BrokenType ==
    ASSUME NEW e \in Evaluations, eval[e] \in EvalStates, NEW pc \in {"report", "abandoned"}
    PROVE  /\ Broken(e, pc) \in EvalStates
           /\ Broken(e, pc).pc = pc /\ Broken(e, pc).stage = "failed"
           /\ Broken(e, pc).group = "final" /\ Broken(e, pc).todo = {}
           /\ Broken(e, pc).off = {} /\ Broken(e, pc).on = {}
           /\ Broken(e, pc).alone = eval[e].alone
<1>1. PICK alone \in BOOLEAN : alone = eval[e].alone
  BY DEF EvalStates
<1>2. IdleEval \in EvalStates /\ IdleEval.group = "final" /\ IdleEval.todo = {}
      /\ IdleEval.off = {} /\ IdleEval.on = {}
  BY DEF IdleEval, EvalStates, Stages, Groups
<1> DEFINE st == [IdleEval EXCEPT !.pc = pc, !.stage = "failed", !.alone = alone]
<1>3. /\ st \in EvalStates /\ st.pc = pc /\ st.stage = "failed" /\ st.group = "final"
      /\ st.todo = {} /\ st.off = {} /\ st.on = {} /\ st.alone = alone
  BY <1>2 DEF EvalStates, Stages
<1> HIDE DEF st
<1>4. Broken(e, pc) = st
  BY <1>1 DEF Broken, st
<1> QED
  BY <1>1, <1>3, <1>4

LEMMA NextTypes == TypeOK /\ [Next]_vars => TypeOK'
<1> SUFFICES ASSUME TypeOK, [Next]_vars PROVE TypeOK'
  OBVIOUS
<1>0. /\ report \in Seq(ReportStates) /\ Len(report) \in Nat
      /\ \A r \in Ids : report[r] \in ReportStates
      /\ eval \in [Evaluations -> EvalStates]
  BY DEF TypeOK, Ids
<1>1. CASE UNCHANGED vars
  BY <1>1 DEF vars, TypeOK
<1>2. ASSUME NEW e \in Evaluations, NEW st \in EvalStates, eval' = [eval EXCEPT ![e] = st]
      PROVE  eval' \in [Evaluations -> EvalStates]
  BY <1>2, <1>0
<1>3. ASSUME NEW e \in Evaluations,
             \/ \E kinds \in ReportKinds : Judge(e, kinds)
             \/ MakeReport(e) \/ CommitReport(e) \/ LoadForRejudge(e)
             \/ \E new \in Evaluations \ {e}, kinds \in ReportKinds : SaveRejudge(e, new, kinds)
             \/ ChooseLatest(e) \/ LockLatest(e) \/ SnapshotActive(e)
             \/ \E r \in Ids : Supersede(e, r)
             \/ Activate(e) \/ CommitStatuses(e)
             \/ ReadStatus(e) \/ ReadScore(e) \/ SaveScore(e)
             \/ Raises(e) \/ FindsSeveral(e) \/ WorkerDies(e)
      PROVE  TypeOK'
  <2>0. eval[e] \in EvalStates
    BY <1>0
  <2>1. CASE \E kinds \in ReportKinds : Judge(e, kinds)
    <3>1. eval' \in [Evaluations -> EvalStates]
      BY <1>0, <2>1, BeginType DEF Judge
    <3> QED
      BY <2>1, <3>1 DEF Judge, TypeOK
  <2>2. CASE MakeReport(e)
    <3>1. [kind |-> KindOf[eval[e].stage], status |-> "uncommitted"] \in ReportStates
      BY <2>0, Kinds DEF EvalStates, ReportStates
    <3>4. Len(report) + 1 \in Nat
      BY <1>0
    <3>2. [eval[e] EXCEPT !.pc = "commitReport", !.latest = Len(report) + 1] \in EvalStates
      BY <2>0, <3>4 DEF EvalStates
    <3>3. report' \in Seq(ReportStates) /\ eval' \in [Evaluations -> EvalStates]
      BY <2>2, <1>0, <1>2, <3>1, <3>2 DEF MakeReport
    <3> QED
      BY <2>2, <3>3 DEF MakeReport, TypeOK
  <2>3. CASE CommitReport(e)
    <3>1. report' \in Seq(ReportStates)
      BY <2>3, <1>0, RowType DEF CommitReport, Rated
    <3>2. \A pc \in {"rejudge", "latest"} :
             [eval[e] EXCEPT !.latest = 0, !.pc = pc] \in EvalStates
      BY <2>0 DEF EvalStates
    <3>3. eval' \in [Evaluations -> EvalStates]
      BY <2>3, <1>0, <3>2 DEF CommitReport
    <3> QED
      BY <2>3, <3>1, <3>3 DEF CommitReport, TypeOK
  <2>4. CASE LoadForRejudge(e)
    <3>1. \A pc \in {"saveRejudge", "latest"} :
             [eval[e] EXCEPT !.found = score, !.pc = pc] \in EvalStates
      BY <2>0 DEF EvalStates, TypeOK
    <3>2. eval' \in [Evaluations -> EvalStates]
      BY <2>4, <1>0, <3>1 DEF LoadForRejudge
    <3> QED
      BY <2>4, <3>2 DEF LoadForRejudge, TypeOK
  <2>5. CASE \E new \in Evaluations \ {e}, kinds \in ReportKinds : SaveRejudge(e, new, kinds)
    <3>1. PICK new \in Evaluations \ {e}, kinds \in ReportKinds : SaveRejudge(e, new, kinds)
      BY <2>5
    <3>2. Begin(eval, new, kinds) \in [Evaluations -> EvalStates]
      BY <1>0, BeginType
    <3>3. PICK b \in [Evaluations -> EvalStates] : b = Begin(eval, new, kinds)
      BY <3>2
    <3>4. eval' = [b EXCEPT ![e] = [@ EXCEPT !.pc = "latest", !.found = 0]]
      BY <3>1, <3>3 DEF SaveRejudge
    <3>5. b[e] \in EvalStates
      BY <3>3
    <3>6. [b[e] EXCEPT !.pc = "latest", !.found = 0] \in EvalStates
      BY <3>5 DEF EvalStates
    <3>7. eval' \in [Evaluations -> EvalStates]
      BY <3>4, <3>6
    <3>8. score' \in Nat
      BY <2>0, <3>1 DEF SaveRejudge, EvalStates
    <3> QED
      BY <3>1, <3>7, <3>8 DEF SaveRejudge, TypeOK
  <2>6. CASE ChooseLatest(e)
    <3>1. NextGroup(eval[e]) \in EvalStates
      BY <2>0, NextGroupType
    <3> DEFINE rated == {r \in Of(eval[e].group) : Committed(r)}
               r0 == CHOOSE r \in rated : \A s \in rated : s <= r
    <3>2. rated # {} => r0 \in rated
      <4>1. rated \subseteq 1 .. Len(report)
        BY DEF Of, Ids
      <4>2. rated # {} => \E r \in rated : \A s \in rated : s <= r
        BY <4>1, <1>0, NewestOne
      <4> QED
        BY <4>2
    <3>3. rated # {} => r0 \in Nat
      BY <3>2, <1>0 DEF Of, Ids
    <3>4. rated # {} => [eval[e] EXCEPT !.pc = "lock", !.latest = r0] \in EvalStates
      BY <2>0, <3>3 DEF EvalStates
    <3>5. eval' = [eval EXCEPT ![e] = IF rated = {} THEN NextGroup(eval[e])
                                      ELSE [eval[e] EXCEPT !.pc = "lock", !.latest = r0]]
      BY <2>6, <1>0 DEF ChooseLatest
    <3> HIDE DEF rated, r0
    <3>6. eval' \in [Evaluations -> EvalStates]
      BY <1>0, <3>1, <3>4, <3>5
    <3> QED
      BY <2>6, <3>6 DEF ChooseLatest, TypeOK
  <2>7. CASE LockLatest(e)
    <3>1. [eval[e] EXCEPT !.pc = "snapshot"] \in EvalStates
      BY <2>0 DEF EvalStates
    <3> QED
      BY <2>7, <1>0, <3>1 DEF LockLatest, TypeOK
  <2>8. CASE SnapshotActive(e)
    <3>1. ActiveFor(e, eval[e].group) \subseteq Nat
      BY <2>0, <1>0 DEF ActiveFor, Active, Of, Ids, EvalStates
    <3>2. [eval[e] EXCEPT !.pc = "supersede", !.todo = ActiveFor(e, eval[e].group)] \in EvalStates
      BY <2>0, <3>1 DEF EvalStates
    <3>3. eval' \in [Evaluations -> EvalStates]
      BY <2>8, <1>0, <3>2 DEF SnapshotActive
    <3> QED
      BY <2>8, <3>3 DEF SnapshotActive, TypeOK
  <2>9. CASE \E r \in Ids : Supersede(e, r)
    <3>1. PICK r \in Ids : Supersede(e, r)
      BY <2>9
    <3>2. r \in Nat /\ eval[e].todo \ {r} \in SUBSET Nat
          /\ eval[e].off \cup {r} \in SUBSET Nat /\ eval[e].off \in SUBSET Nat
      BY <2>0, <1>0 DEF EvalStates, Ids
    <3>4. \A off \in SUBSET Nat :
             [eval[e] EXCEPT !.todo = @ \ {r}, !.off = off] \in EvalStates
      BY <2>0, <3>2 DEF EvalStates
    <3>5. \E off \in SUBSET Nat :
             eval' = [eval EXCEPT ![e] = [eval[e] EXCEPT !.todo = @ \ {r}, !.off = off]]
      <4> DEFINE off == IF r \in ActiveFor(e, eval[e].group) THEN eval[e].off \cup {r}
                        ELSE eval[e].off
      <4>1. off \in SUBSET Nat
        BY <3>2
      <4>2. eval' = [eval EXCEPT ![e] = [eval[e] EXCEPT !.todo = @ \ {r}, !.off = off]]
        BY <3>1, <1>0 DEF Supersede
      <4> QED
        BY <4>1, <4>2
    <3>3. eval' \in [Evaluations -> EvalStates]
      BY <1>0, <3>4, <3>5
    <3> QED
      BY <3>1, <3>3 DEF Supersede, TypeOK
  <2>10. CASE Activate(e)
    <3> DEFINE st == [eval[e] EXCEPT !.off = @ \ {eval[e].latest}, !.on = @ \cup {eval[e].latest}]
    <3>1. st \in EvalStates
      BY <2>0 DEF EvalStates
    <3>2. NextGroup(st) \in EvalStates
      BY <3>1, NextGroupType
    <3>3. eval' = [eval EXCEPT ![e] = NextGroup(st)]
      BY <2>10 DEF Activate
    <3> HIDE DEF st
    <3>4. eval' \in [Evaluations -> EvalStates]
      BY <3>2, <3>3, <1>0
    <3> QED
      BY <2>10, <3>4 DEF Activate, TypeOK
  <2>11. CASE CommitStatuses(e)
    <3>1. [eval[e] EXCEPT !.pc = "status", !.on = {}, !.off = {}] \in EvalStates
      BY <2>0 DEF EvalStates
    <3>2. eval' \in [Evaluations -> EvalStates]
      BY <2>11, <1>0, <3>1 DEF CommitStatuses
    <3>3. report' \in [1 .. Len(report) -> ReportStates]
      BY <2>11, <1>0 DEF CommitStatuses, ReportStates, Rated, Ids
    <3> QED
      BY <2>11, <1>0, <3>2, <3>3 DEF CommitStatuses, TypeOK
  <2>12. CASE ReadStatus(e)
    <3>1. [eval[e] EXCEPT !.pc = "score"] \in EvalStates
      BY <2>0 DEF EvalStates
    <3> QED
      BY <2>12, <1>0, <3>1 DEF ReadStatus, TypeOK
  <2>13. CASE ReadScore(e)
    <3>1. ScoreOf(ActiveNormal) \in Nat
      BY <1>0 DEF ScoreOf, ActiveNormal, Active, Of, Ids
    <3>2. [eval[e] EXCEPT !.pc = "save", !.found = ScoreOf(ActiveNormal)] \in EvalStates
      BY <2>0, <3>1 DEF EvalStates
    <3>3. eval' \in [Evaluations -> EvalStates]
      BY <2>13, <1>0, <3>2 DEF ReadScore
    <3> QED
      BY <2>13, <3>3 DEF ReadScore, TypeOK
  <2>14. CASE SaveScore(e)
    <3>1. /\ [eval[e] EXCEPT !.pc = "report", !.stage = "final", !.final = FALSE, !.found = 0]
                \in EvalStates
          /\ [eval[e] EXCEPT !.pc = "ended", !.found = 0] \in EvalStates
          /\ eval[e].found \in Nat
      BY <2>0 DEF EvalStates, Stages
    <3>2. eval' \in [Evaluations -> EvalStates]
      BY <2>14, <1>0, <3>1 DEF SaveScore
    <3> QED
      BY <2>14, <3>1, <3>2 DEF SaveScore, TypeOK
  <2>15. CASE Raises(e) \/ FindsSeveral(e) \/ WorkerDies(e)
    <3>1. \A pc \in {"report", "abandoned"} : Broken(e, pc) \in EvalStates
      BY <2>0, BrokenType
    <3>2. eval' \in [Evaluations -> EvalStates]
      BY <2>15, <1>0, <3>1 DEF Raises, FindsSeveral, WorkerDies, HandleErrors
    <3>3. report' \in Seq(ReportStates)
      <4>1. Undo(e) \in Seq(ReportStates)
        BY <1>0, RowType DEF Undo
      <4> QED
        BY <2>15, <4>1, <1>0 DEF Raises, FindsSeveral, WorkerDies
    <3> QED
      BY <2>15, <3>2, <3>3 DEF Raises, FindsSeveral, WorkerDies, TypeOK
  <2> QED
    BY <1>3, <2>1, <2>2, <2>3, <2>4, <2>5, <2>6, <2>7, <2>8, <2>9, <2>10, <2>11, <2>12, <2>13,
       <2>14, <2>15
<1> QED
  BY <1>1, <1>3 DEF Next

\* Type correctness: evaluations may overlap and fail in any way.
THEOREM TypeCorrect == Spec => []TypeOK
BY InitTypes, NextTypes, PTL DEF Spec

(***************************************************************************)
(* What each step does to the evaluations                                  *)
(***************************************************************************)
Step(e) ==
    \/ \E kinds \in ReportKinds : Judge(e, kinds)
    \/ MakeReport(e) \/ CommitReport(e) \/ LoadForRejudge(e)
    \/ \E new \in Evaluations \ {e}, kinds \in ReportKinds : SaveRejudge(e, new, kinds)
    \/ ChooseLatest(e) \/ LockLatest(e) \/ SnapshotActive(e)
    \/ \E r \in Ids : Supersede(e, r)
    \/ Activate(e) \/ CommitStatuses(e)
    \/ ReadStatus(e) \/ ReadScore(e) \/ SaveScore(e)
    \/ Raises(e) \/ FindsSeveral(e) \/ WorkerDies(e)

Frame(e) ==
    /\ \A f \in Evaluations \ {e} : eval'[f] = eval[f]
    /\ eval'[e].alone = eval[e].alone
Keeps(e) ==
    /\ eval'[e].group = eval[e].group
    /\ eval'[e].on = eval[e].on
    /\ eval'[e].off = eval[e].off
Moves(e, pc) == eval'[e].pc = pc

\* Evaluation new begins and the others are not alone any more.
Begins(new) ==
    /\ eval[new].pc = "idle"
    /\ Moves(new, "report") /\ eval'[new].group = "final"
    /\ eval'[new].on = {} /\ eval'[new].off = {} /\ eval'[new].todo = {}
    /\ (eval'[new].alone = TRUE) => \A f \in Evaluations \ {new} : ~UnderWay(f)
    /\ \A f \in Evaluations \ {new} :
          /\ eval'[f].group = eval[f].group /\ eval'[f].latest = eval[f].latest
          /\ eval'[f].todo = eval[f].todo
          /\ eval'[f].on = eval[f].on /\ eval'[f].off = eval[f].off
          /\ eval'[f].alone = FALSE

\* The evaluation goes on with the next group or with its commit.
GoesOn(e, on, off) ==
    /\ IF eval[e].group = "final"
       THEN Moves(e, "latest") /\ eval'[e].group = "initial"
       ELSE Moves(e, "commit") /\ eval'[e].group = "final"
    /\ eval'[e].on = on /\ eval'[e].off = off

RatedRows == {r \in Ids : report[r].status \in Rated}

LEMMA CommittedRated ==
    ASSUME TypeOK
    PROVE  \A r \in Ids : Committed(r) <=> r \in RatedRows
<1>1. \A r \in Ids : report[r] \in ReportStates
  BY DEF TypeOK, Ids
<1>2. \A row \in ReportStates : row.status \in Rated \cup {"uncommitted", "undone"}
  BY DEF ReportStates
<1> QED
  BY <1>1, <1>2 DEF Committed, RatedRows, Rated

LEMMA BeginEffect ==
    ASSUME TypeOK, NEW e \in Evaluations, NEW kinds, Judge(e, kinds)
    PROVE  Begins(e) /\ UNCHANGED report /\ \A f \in Evaluations \ {e} : eval'[f].pc = eval[f].pc
<1>1. eval \in [Evaluations -> EvalStates]
  BY DEF TypeOK
<1>2. /\ \A f \in Evaluations \ {e} : eval'[f] = [eval[f] EXCEPT !.alone = FALSE]
      /\ eval'[e].pc = "report" /\ eval'[e].group = "final"
      /\ eval'[e].on = {} /\ eval'[e].off = {} /\ eval'[e].todo = {}
  BY <1>1, BeginType DEF Judge
<1>3. \A st \in EvalStates :
        LET new == [st EXCEPT !.alone = FALSE]
        IN  /\ new.pc = st.pc /\ new.group = st.group /\ new.latest = st.latest
            /\ new.todo = st.todo /\ new.on = st.on /\ new.off = st.off /\ new.alone = FALSE
  BY DEF EvalStates
<1>4. eval'[e].alone = (\A f \in Evaluations \ {e} : ~UnderWay(f))
  BY DEF Judge, Begin, IdleEval
<1>5. UNCHANGED report /\ eval[e].pc = "idle"
  BY DEF Judge, MayBegin
<1>6. ASSUME NEW f \in Evaluations \ {e}
      PROVE  /\ eval'[f].pc = eval[f].pc
             /\ eval'[f].group = eval[f].group /\ eval'[f].latest = eval[f].latest
             /\ eval'[f].todo = eval[f].todo
             /\ eval'[f].on = eval[f].on /\ eval'[f].off = eval[f].off
             /\ eval'[f].alone = FALSE
  <2>1. eval[f] \in EvalStates /\ eval'[f] = [eval[f] EXCEPT !.alone = FALSE]
    BY <1>1, <1>2
  <2> QED
    BY <2>1, <1>3
<1>7. (eval'[e].alone = TRUE) => \A f \in Evaluations \ {e} : ~UnderWay(f)
  BY <1>4, Zenon
<1> QED
  BY <1>2, <1>5, <1>6, <1>7, Zenon DEF Begins, Moves

LEMMA RejudgeEffect ==
    ASSUME TypeOK, NEW e \in Evaluations, NEW new \in Evaluations \ {e}, NEW kinds,
           SaveRejudge(e, new, kinds)
    PROVE  /\ Begins(new) /\ UNCHANGED report
           /\ eval[e].pc = "saveRejudge" /\ Moves(e, "latest")
           /\ \A f \in Evaluations \ {e, new} : eval'[f].pc = eval[f].pc
           /\ eval'[new].alone = FALSE
<1>1. eval \in [Evaluations -> EvalStates]
  BY DEF TypeOK
<1>2. PICK b \in [Evaluations -> EvalStates] : b = Begin(eval, new, kinds)
  BY <1>1, BeginType
<1>10. /\ \A f \in Evaluations \ {new} :
              Begin(eval, new, kinds)[f] = [eval[f] EXCEPT !.alone = FALSE]
       /\ Begin(eval, new, kinds)[new].pc = "report" /\ Begin(eval, new, kinds)[new].group = "final"
       /\ Begin(eval, new, kinds)[new].on = {} /\ Begin(eval, new, kinds)[new].off = {}
       /\ Begin(eval, new, kinds)[new].todo = {}
  <2>1. PICK ev \in [Evaluations -> EvalStates] : ev = eval
    BY <1>1
  <2> QED
    BY <2>1, BeginType
<1>3. /\ \A f \in Evaluations \ {new} : b[f] = [eval[f] EXCEPT !.alone = FALSE]
      /\ b[new].pc = "report" /\ b[new].group = "final"
      /\ b[new].on = {} /\ b[new].off = {} /\ b[new].todo = {}
  BY <1>2, <1>10
<1>4. \A st \in EvalStates :
        LET st2 == [st EXCEPT !.alone = FALSE]
        IN  /\ st2.pc = st.pc /\ st2.group = st.group /\ st2.latest = st.latest
            /\ st2.todo = st.todo /\ st2.on = st.on /\ st2.off = st.off /\ st2.alone = FALSE
  BY DEF EvalStates
<1>5. \A st \in EvalStates :
        LET st2 == [st EXCEPT !.pc = "latest", !.found = 0]
        IN  /\ st2.pc = "latest" /\ st2.group = st.group /\ st2.latest = st.latest
            /\ st2.todo = st.todo /\ st2.on = st.on /\ st2.off = st.off /\ st2.alone = st.alone
  BY DEF EvalStates
<1>6. eval' = [b EXCEPT ![e] = [@ EXCEPT !.pc = "latest", !.found = 0]]
  BY <1>2 DEF SaveRejudge
<1>7. eval'[e] = [b[e] EXCEPT !.pc = "latest", !.found = 0] /\ b[e] \in EvalStates
      /\ \A f \in Evaluations \ {e} : eval'[f] = b[f]
  BY <1>2, <1>6
<1>8. UNCHANGED report /\ eval[e].pc = "saveRejudge" /\ eval[new].pc = "idle"
  BY DEF SaveRejudge, MayBegin
<1>9. eval'[new].alone = FALSE
  <2>1. b[new].alone = (\A f \in Evaluations \ {new} : ~UnderWay(f))
    BY <1>2 DEF Begin, IdleEval
  <2>2. UnderWay(e)
    BY <1>8 DEF UnderWay
  <2> QED
    BY <1>7, <2>1, <2>2
<1>11. ASSUME NEW f \in Evaluations \ {e, new}
       PROVE  /\ eval'[f].pc = eval[f].pc
              /\ eval'[f].group = eval[f].group /\ eval'[f].latest = eval[f].latest
              /\ eval'[f].todo = eval[f].todo
              /\ eval'[f].on = eval[f].on /\ eval'[f].off = eval[f].off
              /\ eval'[f].alone = FALSE
  <2>1. eval[f] \in EvalStates /\ eval'[f] = [eval[f] EXCEPT !.alone = FALSE]
    BY <1>1, <1>3, <1>7
  <2> QED
    BY <2>1, <1>4
<1>12. /\ eval'[e].pc = "latest"
       /\ eval'[e].group = eval[e].group /\ eval'[e].latest = eval[e].latest
       /\ eval'[e].todo = eval[e].todo
       /\ eval'[e].on = eval[e].on /\ eval'[e].off = eval[e].off
       /\ eval'[e].alone = FALSE
  <2>1. eval[e] \in EvalStates /\ b[e] = [eval[e] EXCEPT !.alone = FALSE]
    BY <1>1, <1>3
  <2> QED
    BY <2>1, <1>4, <1>5, <1>7
<1>13. /\ eval'[new].pc = "report" /\ eval'[new].group = "final"
       /\ eval'[new].on = {} /\ eval'[new].off = {} /\ eval'[new].todo = {}
  BY <1>3, <1>7
<1>14. \A f \in Evaluations \ {new} :
          /\ eval'[f].group = eval[f].group /\ eval'[f].latest = eval[f].latest
          /\ eval'[f].todo = eval[f].todo
          /\ eval'[f].on = eval[f].on /\ eval'[f].off = eval[f].off
          /\ eval'[f].alone = FALSE
  BY <1>11, <1>12
<1>15. Begins(new)
  BY <1>8, <1>9, <1>13, <1>14 DEF Begins, Moves
<1> QED
  BY <1>8, <1>9, <1>11, <1>12, <1>15 DEF Moves

LEMMA QuietEffects ==
    ASSUME TypeOK, NEW e \in Evaluations
    PROVE  /\ LoadForRejudge(e) => /\ Frame(e) /\ Keeps(e)
                                   /\ eval[e].pc = "rejudge"
                                   /\ (Moves(e, "saveRejudge") \/ Moves(e, "latest"))
           /\ LockLatest(e) => /\ Frame(e) /\ Keeps(e) /\ eval'[e].latest = eval[e].latest
                               /\ eval[e].pc = "lock" /\ Moves(e, "snapshot")
           /\ SnapshotActive(e) => /\ Frame(e) /\ Keeps(e) /\ eval'[e].latest = eval[e].latest
                                   /\ eval'[e].todo = ActiveFor(e, eval[e].group)
                                   /\ eval[e].pc = "snapshot" /\ Moves(e, "supersede")
           /\ ReadStatus(e) => Frame(e) /\ Keeps(e) /\ eval[e].pc = "status" /\ Moves(e, "score")
           /\ ReadScore(e) => /\ Frame(e) /\ Keeps(e) /\ eval[e].pc = "score" /\ Moves(e, "save")
                              /\ eval'[e].found = ScoreOf(ActiveNormal)
           /\ SaveScore(e) => /\ Frame(e) /\ Keeps(e)
                              /\ eval[e].pc = "save" /\ (Moves(e, "report") \/ Moves(e, "ended"))
<1>1. eval \in [Evaluations -> EvalStates] /\ eval[e] \in EvalStates
  BY DEF TypeOK
<1>2. LoadForRejudge(e) => /\ Frame(e) /\ Keeps(e)
                           /\ eval[e].pc = "rejudge"
                           /\ (Moves(e, "saveRejudge") \/ Moves(e, "latest"))
  BY <1>1 DEF LoadForRejudge, Frame, Keeps, Moves, EvalStates
<1>3. LockLatest(e) => /\ Frame(e) /\ Keeps(e) /\ eval'[e].latest = eval[e].latest
                       /\ eval[e].pc = "lock" /\ Moves(e, "snapshot")
  BY <1>1 DEF LockLatest, Frame, Keeps, Moves, EvalStates
<1>4. SnapshotActive(e) => /\ Frame(e) /\ Keeps(e) /\ eval'[e].latest = eval[e].latest
                           /\ eval'[e].todo = ActiveFor(e, eval[e].group)
                           /\ eval[e].pc = "snapshot" /\ Moves(e, "supersede")
  BY <1>1 DEF SnapshotActive, Frame, Keeps, Moves, EvalStates
<1>5. ReadStatus(e) => Frame(e) /\ Keeps(e) /\ eval[e].pc = "status" /\ Moves(e, "score")
  BY <1>1 DEF ReadStatus, Frame, Keeps, Moves, EvalStates
<1>6. ReadScore(e) => /\ Frame(e) /\ Keeps(e) /\ eval[e].pc = "score" /\ Moves(e, "save")
                      /\ eval'[e].found = ScoreOf(ActiveNormal)
  BY <1>1 DEF ReadScore, Frame, Keeps, Moves, EvalStates
<1>7. SaveScore(e) => /\ Frame(e) /\ Keeps(e)
                      /\ eval[e].pc = "save" /\ (Moves(e, "report") \/ Moves(e, "ended"))
  BY <1>1 DEF SaveScore, Frame, Keeps, Moves, EvalStates
<1> QED
  BY <1>2, <1>3, <1>4, <1>5, <1>6, <1>7

LEMMA UpdateEffects ==
    ASSUME TypeOK, NEW e \in Evaluations
    PROVE  /\ ChooseLatest(e) =>
                /\ Frame(e) /\ eval[e].pc = "latest"
                /\ \/ /\ \A r \in Of(eval[e].group) : r \notin RatedRows
                      /\ GoesOn(e, eval[e].on, eval[e].off)
                   \/ /\ Moves(e, "lock") /\ Keeps(e)
                      /\ eval'[e].latest \in Of(eval[e].group) \cap RatedRows
                      /\ \A s \in Of(eval[e].group) \cap RatedRows : s <= eval'[e].latest
           /\ \A r \in Ids : Supersede(e, r) =>
                /\ Frame(e) /\ eval[e].pc = "supersede" /\ Moves(e, "supersede")
                /\ eval'[e].latest = eval[e].latest /\ eval'[e].group = eval[e].group
                /\ eval'[e].on = eval[e].on /\ r \in eval[e].todo
                /\ eval'[e].todo = eval[e].todo \ {r}
                /\ eval'[e].off = IF r \in ActiveFor(e, eval[e].group) THEN eval[e].off \cup {r}
                                  ELSE eval[e].off
           /\ Activate(e) =>
                /\ Frame(e) /\ eval[e].pc = "supersede" /\ eval[e].todo = {}
                /\ GoesOn(e, eval[e].on \cup {eval[e].latest}, eval[e].off \ {eval[e].latest})
<1>1. eval \in [Evaluations -> EvalStates] /\ eval[e] \in EvalStates
  BY DEF TypeOK
<1>2. ASSUME NEW st \in EvalStates, NEW next, next = NextGroup(st)
      PROVE  /\ next \in EvalStates /\ next.alone = st.alone
             /\ next.on = st.on /\ next.off = st.off
             /\ IF st.group = "final" THEN next.pc = "latest" /\ next.group = "initial"
                ELSE next.pc = "commit" /\ next.group = "final"
  BY <1>2 DEF NextGroup, EvalStates, Groups
<1>3. ASSUME ChooseLatest(e)
      PROVE  /\ Frame(e) /\ eval[e].pc = "latest"
             /\ \/ /\ \A r \in Of(eval[e].group) : r \notin RatedRows
                   /\ GoesOn(e, eval[e].on, eval[e].off)
                \/ /\ Moves(e, "lock") /\ Keeps(e)
                   /\ eval'[e].latest \in Of(eval[e].group) \cap RatedRows
                   /\ \A s \in Of(eval[e].group) \cap RatedRows : s <= eval'[e].latest
  <2> DEFINE rated == {r \in Of(eval[e].group) : Committed(r)}
             r0 == CHOOSE r \in rated : \A s \in rated : s <= r
  <2>1. rated = Of(eval[e].group) \cap RatedRows
    BY CommittedRated DEF Of
  <2>2. rated # {} => r0 \in rated /\ \A s \in rated : s <= r0
    <3>1. rated \subseteq 1 .. Len(report) /\ Len(report) \in Nat
      BY DEF Of, Ids, TypeOK
    <3>2. rated # {} => \E r \in rated : \A s \in rated : s <= r
      BY <3>1, NewestOne
    <3> QED
      BY <3>2
  <2>3. eval' = [eval EXCEPT ![e] = IF rated = {} THEN NextGroup(eval[e])
                                    ELSE [eval[e] EXCEPT !.pc = "lock", !.latest = r0]]
    BY <1>1, <1>3 DEF ChooseLatest
  <2>4. eval[e].pc = "latest" /\ \A f \in Evaluations \ {e} : eval'[f] = eval[f]
    BY <1>1, <1>3, <2>3 DEF ChooseLatest
  <2> HIDE DEF rated, r0
  <2>5. CASE rated = {}
    <3>1. eval'[e] = NextGroup(eval[e])
      BY <1>1, <2>3, <2>5
    <3> QED
      BY <1>1, <1>2, <2>1, <2>4, <2>5, <3>1 DEF Frame, GoesOn, Moves
  <2>6. CASE rated # {}
    <3>1. eval'[e] = [eval[e] EXCEPT !.pc = "lock", !.latest = r0]
      BY <1>1, <2>3, <2>6
    <3>2. Moves(e, "lock") /\ Keeps(e) /\ eval'[e].latest = r0 /\ Frame(e)
      BY <1>1, <2>4, <3>1 DEF Moves, Keeps, Frame, EvalStates
    <3> QED
      BY <2>1, <2>2, <2>4, <2>6, <3>2
  <2> QED
    BY <2>5, <2>6
<1>4. ASSUME NEW r \in Ids, Supersede(e, r)
      PROVE  /\ Frame(e) /\ eval[e].pc = "supersede" /\ Moves(e, "supersede")
             /\ eval'[e].latest = eval[e].latest /\ eval'[e].group = eval[e].group
             /\ eval'[e].on = eval[e].on /\ r \in eval[e].todo
             /\ eval'[e].todo = eval[e].todo \ {r}
             /\ eval'[e].off = IF r \in ActiveFor(e, eval[e].group) THEN eval[e].off \cup {r}
                               ELSE eval[e].off
  <2> DEFINE off == IF r \in ActiveFor(e, eval[e].group) THEN eval[e].off \cup {r}
                    ELSE eval[e].off
  <2>1. eval'[e] = [eval[e] EXCEPT !.todo = @ \ {r}, !.off = off]
    BY <1>1, <1>4 DEF Supersede
  <2>2. /\ \A f \in Evaluations \ {e} : eval'[f] = eval[f]
        /\ eval[e].pc = "supersede" /\ r \in eval[e].todo
    BY <1>1, <1>4 DEF Supersede
  <2> HIDE DEF off
  <2>3. /\ eval'[e].alone = eval[e].alone /\ eval'[e].pc = eval[e].pc
        /\ eval'[e].latest = eval[e].latest /\ eval'[e].group = eval[e].group
        /\ eval'[e].on = eval[e].on
        /\ eval'[e].todo = eval[e].todo \ {r}
        /\ eval'[e].off = off
    BY <1>1, <2>1 DEF EvalStates
  <2> QED
    BY <2>2, <2>3 DEF Frame, Moves, off
<1>5. ASSUME Activate(e)
      PROVE  /\ Frame(e) /\ eval[e].pc = "supersede" /\ eval[e].todo = {}
             /\ GoesOn(e, eval[e].on \cup {eval[e].latest}, eval[e].off \ {eval[e].latest})
  <2> DEFINE st == [eval[e] EXCEPT !.off = @ \ {eval[e].latest}, !.on = @ \cup {eval[e].latest}]
  <2>1. /\ st \in EvalStates /\ st.group = eval[e].group /\ st.alone = eval[e].alone
        /\ st.on = eval[e].on \cup {eval[e].latest}
        /\ st.off = eval[e].off \ {eval[e].latest}
    BY <1>1 DEF EvalStates
  <2>2. eval' = [eval EXCEPT ![e] = NextGroup(st)]
    BY <1>5 DEF Activate
  <2>3. eval[e].pc = "supersede" /\ eval[e].todo = {}
    BY <1>5 DEF Activate
  <2> HIDE DEF st
  <2>4. eval'[e] = NextGroup(st) /\ \A f \in Evaluations \ {e} : eval'[f] = eval[f]
    BY <1>1, <2>2
  <2> QED
    BY <1>2, <2>1, <2>3, <2>4 DEF Frame, GoesOn, Moves
<1> QED
  BY <1>3, <1>4, <1>5

LEMMA ReportEffects ==
    ASSUME TypeOK, NEW e \in Evaluations
    PROVE  /\ MakeReport(e) =>
                /\ Frame(e) /\ Keeps(e) /\ eval[e].pc = "report" /\ Moves(e, "commitReport")
                /\ eval'[e].latest = Len(report) + 1
                /\ Len(report') = Len(report) + 1
                /\ \A r \in Ids : report'[r] = report[r]
                /\ report'[Len(report) + 1].status = "uncommitted"
           /\ CommitReport(e) =>
                /\ Frame(e) /\ Keeps(e) /\ eval[e].pc = "commitReport"
                /\ (Moves(e, "rejudge") \/ Moves(e, "latest"))
                /\ Len(report') = Len(report)
                /\ \A r \in Ids : report'[r].kind = report[r].kind
                /\ \A r \in Ids : report'[r].status =
                        IF r = eval[e].latest THEN "INACTIVE" ELSE report[r].status
           /\ CommitStatuses(e) =>
                /\ Frame(e) /\ eval'[e].group = eval[e].group
                /\ eval'[e].on = {} /\ eval'[e].off = {}
                /\ eval[e].pc = "commit" /\ Moves(e, "status")
                /\ Len(report') = Len(report)
                /\ \A r \in Ids : report'[r].kind = report[r].kind
                /\ \A r \in Ids : report'[r].status =
                        IF r \in eval[e].on THEN "ACTIVE"
                        ELSE IF r \in eval[e].off THEN "SUPERSEDED" ELSE report[r].status
           /\ Raises(e) \/ FindsSeveral(e) \/ WorkerDies(e) =>
                /\ Frame(e) /\ eval'[e].group = "final" /\ eval'[e].todo = {}
                /\ eval'[e].on = {} /\ eval'[e].off = {}
                /\ UnderWay(e) /\ (Moves(e, "report") \/ Moves(e, "abandoned"))
                /\ Len(report') = Len(report)
                /\ \A r \in Ids : report'[r].kind = report[r].kind
                /\ \A r \in Ids : report'[r].status =
                        IF eval[e].pc = "commitReport" /\ r = eval[e].latest THEN "undone"
                        ELSE report[r].status
<1>1. /\ eval \in [Evaluations -> EvalStates] /\ eval[e] \in EvalStates
      /\ report \in Seq(ReportStates) /\ Len(report) \in Nat
      /\ report \in [1 .. Len(report) -> ReportStates]
  BY DEF TypeOK
<1> DEFINE With(k, status) == [report EXCEPT ![k].status = status]
<1>0. ASSUME NEW k, NEW status, NEW new, new = With(k, status)
      PROVE  /\ Len(new) = Len(report)
             /\ \A r \in Ids : new[r].kind = report[r].kind
             /\ \A r \in Ids : new[r].status = IF r = k THEN status ELSE report[r].status
  <2>1. Len(new) = Len(report)
    BY <1>0, <1>1
  <2>2. \A r \in Ids : new[r] = IF r = k THEN [report[r] EXCEPT !.status = status] ELSE report[r]
    BY <1>0, <1>1 DEF Ids
  <2>3. \A row \in ReportStates : /\ [row EXCEPT !.status = status].kind = row.kind
                                  /\ [row EXCEPT !.status = status].status = status
    BY DEF ReportStates
  <2>4. \A r \in Ids : report[r] \in ReportStates
    BY <1>1 DEF Ids
  <2>5. ASSUME NEW r \in Ids
        PROVE  /\ new[r].kind = report[r].kind
               /\ new[r].status = IF r = k THEN status ELSE report[r].status
    BY <2>2, <2>3, <2>4
  <2> QED
    BY <2>1, <2>5
<1> HIDE DEF With
<1>2. ASSUME MakeReport(e)
      PROVE  /\ Frame(e) /\ Keeps(e) /\ eval[e].pc = "report" /\ Moves(e, "commitReport")
             /\ eval'[e].latest = Len(report) + 1
             /\ Len(report') = Len(report) + 1
             /\ \A r \in Ids : report'[r] = report[r]
             /\ report'[Len(report) + 1].status = "uncommitted"
  <2> DEFINE row == [kind |-> KindOf[eval[e].stage], status |-> "uncommitted"]
  <2>1. row \in ReportStates /\ row.status = "uncommitted"
    BY <1>1, Kinds DEF EvalStates, ReportStates
  <2>2. report' = Append(report, row)
    BY <1>2 DEF MakeReport
  <2> HIDE DEF row
  <2>3. /\ Len(report') = Len(report) + 1
        /\ \A r \in Ids : report'[r] = report[r]
        /\ report'[Len(report) + 1] = row
    BY <1>1, <2>1, <2>2 DEF Ids
  <2>4. Frame(e) /\ Keeps(e) /\ eval[e].pc = "report" /\ Moves(e, "commitReport")
        /\ eval'[e].latest = Len(report) + 1
    BY <1>1, <1>2 DEF MakeReport, Frame, Keeps, Moves, EvalStates
  <2> QED
    BY <2>1, <2>3, <2>4
<1>3. ASSUME CommitReport(e)
      PROVE  /\ Frame(e) /\ Keeps(e) /\ eval[e].pc = "commitReport"
             /\ (Moves(e, "rejudge") \/ Moves(e, "latest"))
             /\ Len(report') = Len(report)
             /\ \A r \in Ids : report'[r].kind = report[r].kind
             /\ \A r \in Ids : report'[r].status =
                     IF r = eval[e].latest THEN "INACTIVE" ELSE report[r].status
  <2>1. Frame(e) /\ Keeps(e) /\ eval[e].pc = "commitReport"
        /\ (Moves(e, "rejudge") \/ Moves(e, "latest"))
    BY <1>1, <1>3 DEF CommitReport, Frame, Keeps, Moves, EvalStates
  <2>2. PICK k : k = eval[e].latest
    OBVIOUS
  <2>3. PICK new : new = report'
    OBVIOUS
  <2>4. new = With(k, "INACTIVE")
    BY <1>3, <2>2, <2>3 DEF CommitReport, With
  <2>5. /\ Len(new) = Len(report)
        /\ \A r \in Ids : new[r].kind = report[r].kind
        /\ \A r \in Ids : new[r].status = IF r = k THEN "INACTIVE" ELSE report[r].status
    BY <1>0, <2>4
  <2> QED
    BY <2>1, <2>2, <2>3, <2>5
<1>4. ASSUME CommitStatuses(e)
      PROVE  /\ Frame(e) /\ eval'[e].group = eval[e].group
             /\ eval'[e].on = {} /\ eval'[e].off = {}
             /\ eval[e].pc = "commit" /\ Moves(e, "status")
             /\ Len(report') = Len(report)
             /\ \A r \in Ids : report'[r].kind = report[r].kind
             /\ \A r \in Ids : report'[r].status =
                     IF r \in eval[e].on THEN "ACTIVE"
                     ELSE IF r \in eval[e].off THEN "SUPERSEDED" ELSE report[r].status
  <2>1. /\ Frame(e) /\ eval'[e].group = eval[e].group
        /\ eval'[e].on = {} /\ eval'[e].off = {}
        /\ eval[e].pc = "commit" /\ Moves(e, "status")
    BY <1>1, <1>4 DEF CommitStatuses, Frame, Moves, EvalStates
  <2>2. Len(report') = Len(report)
    BY <1>1, <1>4 DEF CommitStatuses, Ids
  <2>3. \A r \in Ids : report'[r] =
           IF r \in eval[e].on THEN [report[r] EXCEPT !.status = "ACTIVE"]
           ELSE IF r \in eval[e].off THEN [report[r] EXCEPT !.status = "SUPERSEDED"]
           ELSE report[r]
    BY <1>4 DEF CommitStatuses
  <2>4. \A row \in ReportStates : \A status \in {"ACTIVE", "SUPERSEDED"} :
           /\ [row EXCEPT !.status = status].kind = row.kind
           /\ [row EXCEPT !.status = status].status = status
    BY DEF ReportStates
  <2>5. \A r \in Ids : report[r] \in ReportStates
    BY <1>1 DEF Ids
  <2>6. ASSUME NEW r \in Ids
        PROVE  /\ report'[r].kind = report[r].kind
               /\ report'[r].status = IF r \in eval[e].on THEN "ACTIVE"
                                      ELSE IF r \in eval[e].off THEN "SUPERSEDED"
                                      ELSE report[r].status
    BY <2>3, <2>4, <2>5
  <2> QED
    BY <2>1, <2>2, <2>6
<1>5. ASSUME Raises(e) \/ FindsSeveral(e) \/ WorkerDies(e)
      PROVE  /\ Frame(e) /\ eval'[e].group = "final" /\ eval'[e].todo = {}
             /\ eval'[e].on = {} /\ eval'[e].off = {}
             /\ UnderWay(e) /\ (Moves(e, "report") \/ Moves(e, "abandoned"))
             /\ Len(report') = Len(report)
             /\ \A r \in Ids : report'[r].kind = report[r].kind
             /\ \A r \in Ids : report'[r].status =
                     IF eval[e].pc = "commitReport" /\ r = eval[e].latest THEN "undone"
                     ELSE report[r].status
  <2>1. PICK pc \in {"report", "abandoned"} : eval' = [eval EXCEPT ![e] = Broken(e, pc)]
    BY <1>5 DEF Raises, FindsSeveral, WorkerDies, HandleErrors
  <2>2. eval'[e] = Broken(e, pc) /\ \A f \in Evaluations \ {e} : eval'[f] = eval[f]
    BY <1>1, <2>1
  <2>3. /\ Frame(e) /\ eval'[e].group = "final" /\ eval'[e].todo = {}
        /\ eval'[e].on = {} /\ eval'[e].off = {}
        /\ (Moves(e, "report") \/ Moves(e, "abandoned"))
    BY <1>1, <2>2, BrokenType DEF Frame, Moves
  <2>4. UnderWay(e)
    BY <1>5 DEF Raises, FindsSeveral, WorkerDies, UnderWay
  <2>5. report' = Undo(e)
    BY <1>5 DEF Raises, FindsSeveral, WorkerDies, Undo
  <2>6. CASE eval[e].pc = "commitReport"
    <3>1. PICK k : k = eval[e].latest
      OBVIOUS
    <3>2. PICK new : new = report'
      OBVIOUS
    <3>3. new = With(k, "undone")
      BY <2>5, <2>6, <3>1, <3>2 DEF Undo, With
    <3>4. /\ Len(new) = Len(report)
          /\ \A r \in Ids : new[r].kind = report[r].kind
          /\ \A r \in Ids : new[r].status = IF r = k THEN "undone" ELSE report[r].status
      BY <1>0, <3>3
    <3> QED
      BY <2>3, <2>4, <2>6, <3>1, <3>2, <3>4
  <2>7. CASE eval[e].pc # "commitReport"
    BY <2>3, <2>4, <2>5, <2>7 DEF Undo
  <2> QED
    BY <2>6, <2>7
<1> QED
  BY <1>2, <1>3, <1>4, <1>5
(***************************************************************************)
(* What an evaluation holds is about reports that are there                *)
(***************************************************************************)
Choosing == {"lock", "snapshot", "supersede"}

Sound(e) ==
    /\ eval[e].off \subseteq RatedRows
    /\ eval[e].on \subseteq RatedRows
    /\ eval[e].pc = "commitReport" =>
          eval[e].latest \in Ids /\ report[eval[e].latest].status = "uncommitted"
    /\ eval[e].pc \in Choosing =>
          eval[e].latest \in Of(eval[e].group) /\ eval[e].latest \in RatedRows
    /\ eval[e].pc = "supersede" => eval[e].todo \subseteq Of(eval[e].group)
    /\ eval[e].pc \notin {"latest"} \cup Choosing => eval[e].group = "final"
    /\ eval[e].pc \notin {"latest", "commit"} \cup Choosing =>
          eval[e].on = {} /\ eval[e].off = {}

\* A group that loses its ACTIVE report in a transaction gets another there.
Replaced(e) == \A g \in Groups : eval[e].off \cap Of(g) # {} =>
    \/ eval[e].on \cap Of(g) # {}
    \/ eval[e].pc = "supersede" /\ eval[e].group = g

\* Two transactions do not insert the same report.
Distinct == \A e, f \in Evaluations :
    e # f /\ eval[e].pc = "commitReport" /\ eval[f].pc = "commitReport" =>
        eval[e].latest # eval[f].latest

AllSound == (\A e \in Evaluations : Sound(e) /\ Replaced(e)) /\ Distinct

\* Reports stay, and of the same kind; a committed one stays committed.
Stays ==
    /\ Len(report) <= Len(report')
    /\ \A r \in Ids : report'[r].kind = report[r].kind
    /\ \A r \in RatedRows : report'[r].status \in Rated

LEMMA StaysThere ==
    ASSUME TypeOK, Stays
    PROVE  /\ Ids \subseteq Ids' /\ RatedRows \subseteq RatedRows'
           /\ \A r \in Ids, g \in Groups : (r \in Of(g)) <=> (r \in Of(g)')
           /\ \A g \in Groups : Of(g) \subseteq Of(g)'
<1>0. \E n : n = Len(report) /\ n \in Nat
  BY DEF TypeOK
<1>1. Ids \subseteq Ids'
  BY <1>0 DEF Stays, Ids
<1>2. RatedRows \subseteq RatedRows'
  BY <1>1 DEF Stays, RatedRows
<1>3. ASSUME NEW r \in Ids, NEW g \in Groups
      PROVE  (r \in Of(g)) <=> (r \in Of(g)')
  BY <1>1, <1>3 DEF Of, Stays
<1>4. \A g \in Groups : Of(g) \subseteq Of(g)'
  BY <1>3 DEF Of
<1> QED
  BY <1>1, <1>2, <1>3, <1>4

\* An evaluation that another one's step leaves alone.
Untouched(f) ==
    /\ eval'[f].pc = eval[f].pc /\ eval'[f].group = eval[f].group
    /\ eval'[f].latest = eval[f].latest /\ eval'[f].todo = eval[f].todo
    /\ eval'[f].on = eval[f].on /\ eval'[f].off = eval[f].off

LEMMA UntouchedSound ==
    ASSUME TypeOK, NEW f \in Evaluations, Sound(f), Replaced(f), Stays, Untouched(f),
           eval[f].pc = "commitReport" => report'[eval[f].latest].status = "uncommitted"
    PROVE  Sound(f)' /\ Replaced(f)'
<1>1. eval[f] \in EvalStates
  BY DEF TypeOK
<1>2. eval[f].group \in Groups
  BY <1>1 DEF EvalStates
<1>3. PICK st : st = eval[f]
  OBVIOUS
<1>4. Sound(f)'
  <2>1. Ids \subseteq Ids' /\ RatedRows \subseteq RatedRows'
        /\ \A g \in Groups : Of(g) \subseteq Of(g)'
    BY StaysThere
  <2>2. Of(eval[f].group) \subseteq Of(st.group)'
    BY <1>2, <1>3, <2>1
  <2>3. eval'[f].group = st.group
    BY <1>3 DEF Untouched
  <2>4. Of(eval[f].group) \subseteq Of(eval[f].group)'
    BY <2>2, <2>3
  <2> QED
    BY <2>1, <2>4 DEF Sound, Untouched
<1>5. Replaced(f)'
  <2>1. RatedRows \subseteq Ids
    BY DEF RatedRows
  <2>2. ASSUME NEW g \in Groups, eval'[f].off \cap Of(g)' # {}
        PROVE  \/ eval'[f].on \cap Of(g)' # {}
               \/ eval'[f].pc = "supersede" /\ eval'[f].group = g
    <3>1. eval[f].off \cap Of(g) # {}
      BY <2>1, <2>2, StaysThere DEF Sound, Untouched
    <3> QED
      BY <2>1, <3>1, StaysThere DEF Replaced, Sound, Untouched
  <2> QED
    BY <2>2 DEF Replaced
<1> QED
  BY <1>4, <1>5

LEMMA SameRows ==
    ASSUME TypeOK, UNCHANGED report
    PROVE  /\ Ids' = Ids /\ RatedRows' = RatedRows /\ Stays
           /\ \A g : Of(g)' = Of(g)
           /\ \A g : Active(g)' = Active(g)
<1>1. Ids' = Ids
  BY DEF Ids
<1>2. RatedRows' = RatedRows
  BY <1>1 DEF RatedRows
<1>3. Stays
  <2>1. \A r \in RatedRows : report'[r].status \in Rated
    BY DEF RatedRows
  <2>2. \A r \in Ids : report'[r].kind = report[r].kind
    OBVIOUS
  <2>3. Len(report) <= Len(report')
    <3>1. PICK n \in Nat : n = Len(report)
      BY DEF TypeOK
    <3> QED
      BY <3>1
  <2> QED
    BY <2>1, <2>2, <2>3 DEF Stays
<1>4. \A g : Of(g)' = Of(g)
  BY <1>1 DEF Of
<1> QED
  BY <1>1, <1>2, <1>3, <1>4 DEF Active

LEMMA RowsStep ==
    ASSUME TypeOK, AllSound, NEW e \in Evaluations, Step(e)
    PROVE  /\ Stays
           /\ \A f \in Evaluations \ {e} : eval[f].pc = "commitReport" =>
                 eval[f].latest \in Ids /\ report'[eval[f].latest].status = "uncommitted"
<1>1. \A f \in Evaluations : eval[f].pc = "commitReport" =>
         eval[f].latest \in Ids /\ report[eval[f].latest].status = "uncommitted"
  BY DEF AllSound, Sound
<1>2. RatedRows \subseteq Ids /\ "uncommitted" \notin Rated /\ "undone" \notin Rated
      /\ Rated = {"INACTIVE", "ACTIVE", "SUPERSEDED"}
      /\ \A r \in RatedRows : report[r].status \in Rated
  BY DEF RatedRows, Rated
<1>3. PICK n \in Nat : n = Len(report)
  BY DEF TypeOK
<1>4. CASE UNCHANGED report
  BY <1>1, <1>4, SameRows
<1>5. CASE MakeReport(e)
  BY <1>1, <1>2, <1>3, <1>5, ReportEffects DEF Stays
<1>6. CASE CommitReport(e)
  <2>1. \A f \in Evaluations \ {e} : eval[f].pc = "commitReport" => eval[f].latest # eval[e].latest
    BY <1>6, ReportEffects DEF AllSound, Distinct
  <2>2. Stays
    BY <1>2, <1>3, <1>6, ReportEffects DEF Stays
  <2> QED
    BY <1>1, <1>6, <2>1, <2>2, ReportEffects
<1>7. CASE CommitStatuses(e)
  <2>1. /\ \A r \in eval[e].on : r \in RatedRows
        /\ \A r \in eval[e].off : r \in RatedRows
    BY DEF AllSound, Sound
  <2>2. Stays
    BY <1>2, <1>3, <1>7, ReportEffects DEF Stays
  <2>3. \A r \in Ids : report[r].status = "uncommitted" => r \notin RatedRows
    BY <1>2
  <2> QED
    BY <1>1, <1>7, <2>1, <2>2, <2>3, ReportEffects
<1>8. CASE Raises(e) \/ FindsSeveral(e) \/ WorkerDies(e)
  <2>1. \A f \in Evaluations \ {e} :
           eval[f].pc = "commitReport" /\ eval[e].pc = "commitReport" =>
               eval[f].latest # eval[e].latest
    BY DEF AllSound, Distinct
  <2>2. eval[e].pc = "commitReport" => eval[e].latest \notin RatedRows
    BY <1>1, <1>2
  <2>3. Stays
    BY <1>2, <1>3, <1>8, <2>2, ReportEffects DEF Stays
  <2> QED
    BY <1>1, <1>8, <2>1, <2>3, ReportEffects
<1>9. \/ UNCHANGED report
      \/ MakeReport(e) \/ CommitReport(e) \/ CommitStatuses(e)
      \/ Raises(e) \/ FindsSeveral(e) \/ WorkerDies(e)
  BY DEF Step, Judge, LoadForRejudge, SaveRejudge, ChooseLatest, LockLatest, SnapshotActive,
         Supersede, Activate, ReadStatus, ReadScore, SaveScore
<1> QED
  BY <1>4, <1>5, <1>6, <1>7, <1>8, <1>9

LEMMA EmptySound ==
    ASSUME NEW e \in Evaluations,
           eval'[e].group = "final", eval'[e].on = {}, eval'[e].off = {},
           eval'[e].pc \notin {"commitReport"} \cup Choosing
    PROVE  Sound(e)' /\ Replaced(e)'
BY DEF Sound, Replaced, Choosing

LEMMA KeepsSound ==
    ASSUME NEW e \in Evaluations, Sound(e), Keeps(e),
           eval[e].pc \notin {"latest", "commit"} \cup Choosing,
           eval'[e].pc \notin {"commitReport"} \cup Choosing
    PROVE  Sound(e)' /\ Replaced(e)'
<1>1. eval'[e].group = "final" /\ eval'[e].on = {} /\ eval'[e].off = {}
  BY DEF Sound, Keeps
<1> QED
  BY <1>1, EmptySound

LEMMA OwnSound ==
    ASSUME TypeOK, AllSound, NEW e \in Evaluations, Step(e)
    PROVE  Sound(e)' /\ Replaced(e)'
<1>1. /\ eval[e] \in EvalStates /\ eval[e].group \in Groups
      /\ Sound(e) /\ Replaced(e)
  BY DEF TypeOK, EvalStates, AllSound
<1>2. CASE \E kinds \in ReportKinds : Judge(e, kinds)
  <2>1. Begins(e)
    BY <1>2, BeginEffect
  <2> QED
    BY <2>1, EmptySound DEF Begins, Moves, Choosing
<1>3. CASE \E new \in Evaluations \ {e}, kinds \in ReportKinds : SaveRejudge(e, new, kinds)
  <2>1. PICK new \in Evaluations \ {e} : Begins(new) /\ eval[e].pc = "saveRejudge" /\ Moves(e, "latest")
    BY <1>3, RejudgeEffect
  <2>2. Keeps(e)
    BY <2>1 DEF Begins, Keeps
  <2> QED
    BY <1>1, <2>1, <2>2, KeepsSound DEF Moves, Choosing
<1>4. CASE MakeReport(e)
  <2>1. /\ Keeps(e) /\ eval[e].pc = "report" /\ eval'[e].pc = "commitReport"
        /\ eval'[e].latest = Len(report) + 1 /\ Len(report') = Len(report) + 1
        /\ report'[Len(report) + 1].status = "uncommitted"
    BY <1>4, ReportEffects DEF Moves
  <2>2. eval'[e].group = "final" /\ eval'[e].on = {} /\ eval'[e].off = {}
    BY <1>1, <2>1 DEF Sound, Keeps, Choosing
  <2>3. eval'[e].latest \in Ids'
    <3>1. PICK n \in Nat : n = Len(report)
      BY DEF TypeOK
    <3> QED
      BY <2>1, <3>1 DEF Ids
  <2> QED
    BY <2>1, <2>2, <2>3 DEF Sound, Replaced, Choosing
<1>5. CASE CommitReport(e) \/ LoadForRejudge(e) \/ ReadStatus(e) \/ ReadScore(e) \/ SaveScore(e)
  BY <1>1, <1>5, QuietEffects, ReportEffects, KeepsSound DEF Moves, Choosing
<1>6. CASE Raises(e) \/ FindsSeveral(e) \/ WorkerDies(e)
  BY <1>6, ReportEffects, EmptySound DEF Moves, Choosing
<1>7. CASE CommitStatuses(e)
  <2>1. eval[e].group = "final"
    BY <1>1, <1>7, ReportEffects DEF Sound, Choosing
  <2> QED
    BY <1>7, <2>1, ReportEffects, EmptySound DEF Moves, Choosing
<1>8. CASE LockLatest(e) \/ SnapshotActive(e)
  <2>1. UNCHANGED report
    BY <1>8 DEF LockLatest, SnapshotActive
  <2>2. ActiveFor(e, eval[e].group) \subseteq Of(eval[e].group)
    BY DEF ActiveFor, Active
  <2>3. /\ Keeps(e) /\ eval'[e].latest = eval[e].latest
        /\ eval[e].pc \in {"lock", "snapshot"} /\ eval'[e].pc \in {"snapshot", "supersede"}
        /\ eval'[e].pc = "supersede" => eval'[e].todo = ActiveFor(e, eval[e].group)
    BY <1>8, QuietEffects DEF Moves
  <2>4. PICK g \in Groups : g = eval[e].group
    BY <1>1
  <2>5. Of(g)' = Of(g) /\ RatedRows' = RatedRows
    BY <2>1, SameRows
  <2>6. Sound(e)'
    BY <1>1, <2>2, <2>3, <2>4, <2>5 DEF Sound, Keeps, Choosing
  <2>7. Replaced(e)'
    BY <1>1, <2>1, <2>3, SameRows DEF Replaced, Keeps
  <2> QED
    BY <2>6, <2>7
<1>9. CASE ChooseLatest(e)
  <2>1. UNCHANGED report /\ eval[e].pc = "latest"
    BY <1>9 DEF ChooseLatest
  <2>2. CASE GoesOn(e, eval[e].on, eval[e].off)
    <3>1. Sound(e)'
      BY <1>1, <2>1, <2>2, SameRows DEF Sound, GoesOn, Moves, Choosing
    <3>2. Replaced(e)'
      BY <1>1, <2>1, <2>2, SameRows DEF Replaced, GoesOn
    <3> QED
      BY <3>1, <3>2
  <2>3. CASE /\ Moves(e, "lock") /\ Keeps(e)
             /\ eval'[e].latest \in Of(eval[e].group) \cap RatedRows
    <3>1. PICK g \in Groups : g = eval[e].group
      BY <1>1
    <3>2. Of(g)' = Of(g) /\ RatedRows' = RatedRows
      BY <2>1, SameRows
    <3>3. Sound(e)'
      BY <1>1, <2>3, <3>1, <3>2 DEF Sound, Keeps, Moves, Choosing
    <3>4. Replaced(e)'
      BY <1>1, <2>1, <2>3, SameRows DEF Replaced, Keeps
    <3> QED
      BY <3>3, <3>4
  <2> QED
    BY <1>9, <2>2, <2>3, UpdateEffects
<1>10. ASSUME NEW r \in Ids, Supersede(e, r) PROVE Sound(e)' /\ Replaced(e)'
  <2>1. UNCHANGED report
    BY <1>10 DEF Supersede
  <2>2. /\ eval[e].pc = "supersede" /\ eval'[e].pc = "supersede"
        /\ eval'[e].latest = eval[e].latest /\ eval'[e].group = eval[e].group
        /\ eval'[e].on = eval[e].on /\ r \in eval[e].todo
        /\ eval'[e].todo = eval[e].todo \ {r}
        /\ eval'[e].off = IF r \in ActiveFor(e, eval[e].group) THEN eval[e].off \cup {r}
                          ELSE eval[e].off
    BY <1>10, UpdateEffects DEF Moves
  <2>3. PICK g \in Groups : g = eval[e].group
    BY <1>1
  <2>4. /\ Of(g)' = Of(g) /\ RatedRows' = RatedRows
        /\ \A h \in Groups : Of(h)' = Of(h)
    BY <2>1, SameRows
  <2>5. ActiveFor(e, g) \subseteq RatedRows
    BY <1>1 DEF ActiveFor, Active, Of, Ids, RatedRows, Rated, Sound
  <2>6. Sound(e)'
    BY <1>1, <2>2, <2>3, <2>4, <2>5 DEF Sound, Choosing
  <2>7. \A h \in Groups : h # g => r \notin Of(h)
    BY <1>1, <2>2, <2>3, OneGroup DEF Sound, Groups
  <2>8. Replaced(e)'
    BY <1>1, <2>2, <2>3, <2>4, <2>7 DEF Replaced
  <2> QED
    BY <2>6, <2>8
<1>11. CASE Activate(e)
  <2>1. UNCHANGED report
    BY <1>11 DEF Activate
  <2>2. /\ eval[e].pc = "supersede"
        /\ GoesOn(e, eval[e].on \cup {eval[e].latest}, eval[e].off \ {eval[e].latest})
    BY <1>11, UpdateEffects
  <2>3. eval[e].latest \in Of(eval[e].group) /\ eval[e].latest \in RatedRows
    BY <1>1, <2>2 DEF Sound, Choosing
  <2>4. Sound(e)'
    BY <1>1, <2>1, <2>2, <2>3, SameRows DEF Sound, GoesOn, Moves, Choosing
  <2>5. Replaced(e)'
    BY <1>1, <2>1, <2>2, <2>3, SameRows DEF Replaced, GoesOn
  <2> QED
    BY <2>4, <2>5
<1> QED
  BY <1>2, <1>3, <1>4, <1>5, <1>6, <1>7, <1>8, <1>9, <1>10, <1>11 DEF Step

LEMMA OthersStep ==
    ASSUME TypeOK, NEW e \in Evaluations, Step(e), NEW f \in Evaluations \ {e}
    PROVE  Untouched(f) \/ Begins(f)
<1>1. CASE \E kinds \in ReportKinds : Judge(e, kinds)
  <2>1. Begins(e) /\ eval'[f].pc = eval[f].pc
    BY <1>1, BeginEffect
  <2> QED
    BY <2>1 DEF Begins, Untouched
<1>2. CASE \E new \in Evaluations \ {e}, kinds \in ReportKinds : SaveRejudge(e, new, kinds)
  <2>1. PICK new \in Evaluations \ {e} :
           Begins(new) /\ \A h \in Evaluations \ {e, new} : eval'[h].pc = eval[h].pc
    BY <1>2, RejudgeEffect
  <2> QED
    BY <2>1 DEF Begins, Untouched
<1>3. CASE Frame(e)
  BY <1>3 DEF Frame, Untouched
<1> QED
  BY <1>1, <1>2, <1>3, QuietEffects, UpdateEffects, ReportEffects DEF Step

LEMMA OnlyMakeReport ==
    ASSUME TypeOK, NEW e \in Evaluations, Step(e), eval'[e].pc = "commitReport"
    PROVE  MakeReport(e)
<1>1. ~ \E kinds \in ReportKinds : Judge(e, kinds)
  BY BeginEffect DEF Begins, Moves
<1>2. ~ \E new \in Evaluations \ {e}, kinds \in ReportKinds : SaveRejudge(e, new, kinds)
  BY RejudgeEffect DEF Moves
<1>3. /\ ~CommitReport(e) /\ ~CommitStatuses(e)
      /\ ~(Raises(e) \/ FindsSeveral(e) \/ WorkerDies(e))
  BY ReportEffects DEF Moves
<1>4. /\ ~LoadForRejudge(e) /\ ~LockLatest(e) /\ ~SnapshotActive(e)
      /\ ~ReadStatus(e) /\ ~ReadScore(e) /\ ~SaveScore(e)
  BY QuietEffects DEF Moves
<1>5. ~ChooseLatest(e) /\ ~Activate(e) /\ \A r \in Ids : ~Supersede(e, r)
  BY UpdateEffects DEF Moves, GoesOn
<1> QED
  BY <1>1, <1>2, <1>3, <1>4, <1>5 DEF Step

LEMMA AllSoundStep ==
    ASSUME TypeOK, AllSound, NEW e \in Evaluations, Step(e)
    PROVE  AllSound'
<1>1. ASSUME NEW f \in Evaluations \ {e} PROVE Sound(f)' /\ Replaced(f)'
  <2>1. CASE Untouched(f)
    BY <2>1, RowsStep, UntouchedSound DEF AllSound
  <2>2. CASE Begins(f)
    BY <2>2, EmptySound DEF Begins, Moves, Choosing
  <2> QED
    BY <2>1, <2>2, OthersStep
<1>2. Sound(e)' /\ Replaced(e)'
  BY OwnSound
<1>3. ASSUME NEW f \in Evaluations \ {e}, eval'[f].pc = "commitReport"
      PROVE  Untouched(f) /\ eval[f].pc = "commitReport" /\ eval'[f].latest = eval[f].latest
             /\ eval[f].latest \in Ids
  <2>1. Untouched(f)
    BY <1>3, OthersStep DEF Begins, Moves
  <2> QED
    BY <1>3, <2>1 DEF Untouched, AllSound, Sound
<1>4. ASSUME eval'[e].pc = "commitReport"
      PROVE  eval'[e].latest \notin Ids
  <2>1. PICK n \in Nat : n = Len(report)
    BY DEF TypeOK
  <2>2. eval'[e].latest = n + 1
    BY <1>4, <2>1, OnlyMakeReport, ReportEffects
  <2> QED
    BY <2>1, <2>2 DEF Ids
<1>5. Distinct'
  <2>1. ASSUME NEW f \in Evaluations, NEW h \in Evaluations, f # h,
               eval'[f].pc = "commitReport", eval'[h].pc = "commitReport"
        PROVE  eval'[f].latest # eval'[h].latest
    BY <1>3, <1>4, <2>1 DEF AllSound, Distinct
  <2> QED
    BY <2>1 DEF Distinct
<1> QED
  BY <1>1, <1>2, <1>5 DEF AllSound

LEMMA InitSound == Init => AllSound
<1> SUFFICES ASSUME Init PROVE AllSound
  OBVIOUS
<1>1. \A e \in Evaluations : eval[e] = IdleEval
  BY DEF Init
<1>2. /\ IdleEval.pc = "idle" /\ IdleEval.group = "final"
      /\ IdleEval.on = {} /\ IdleEval.off = {}
  BY DEF IdleEval
<1> QED
  BY <1>1, <1>2 DEF AllSound, Sound, Replaced, Distinct, Choosing

LEMMA StutterSound == AllSound /\ UNCHANGED vars => AllSound'
<1> SUFFICES ASSUME AllSound, UNCHANGED vars PROVE AllSound'
  OBVIOUS
<1>1. eval' = eval /\ report' = report /\ Ids' = Ids
  BY DEF vars, Ids
<1>2. RatedRows' = RatedRows /\ \A g : Of(g)' = Of(g)
  BY <1>1 DEF RatedRows, Of
<1>3. ASSUME NEW e \in Evaluations PROVE Sound(e)' /\ Replaced(e)'
  <2>1. Sound(e) /\ Replaced(e)
    BY DEF AllSound
  <2>2. PICK g : g = eval[e].group
    OBVIOUS
  <2>3. Of(g)' = Of(g)
    BY <1>2
  <2>4. Sound(e)'
    BY <1>1, <1>2, <2>1, <2>2, <2>3 DEF Sound
  <2>5. Replaced(e)'
    BY <1>1, <1>2, <2>1 DEF Replaced
  <2> QED
    BY <2>4, <2>5
<1>4. Distinct'
  BY <1>1 DEF AllSound, Distinct
<1> QED
  BY <1>3, <1>4 DEF AllSound

(***************************************************************************)
(* A group keeps an ACTIVE report                                          *)
(***************************************************************************)
Shown(status) == status \in {"ACTIVE", "SUPERSEDED"}

\* The step neither makes a report ACTIVE or SUPERSEDED nor the reverse.
Undisturbed == \A r \in Ids' :
    IF r \in Ids THEN /\ report'[r].kind = report[r].kind
                      /\ \/ report'[r].status = report[r].status
                         \/ ~Shown(report'[r].status) /\ ~Shown(report[r].status)
    ELSE ~Shown(report'[r].status)

LEMMA UndisturbedActive ==
    ASSUME TypeOK, Stays, Undisturbed
    PROVE  /\ \A g \in Groups : Active(g)' = Active(g)
           /\ SomeActive => SomeActive'
<1>1. Ids \subseteq Ids' /\ \A r \in Ids, g \in Groups : (r \in Of(g)) <=> (r \in Of(g)')
  BY StaysThere
<1>2. \A g \in Groups : Of(g) \subseteq Ids /\ Of(g)' \subseteq Ids'
  BY DEF Of
<1>3. ASSUME NEW g \in Groups PROVE Active(g)' = Active(g)
  BY <1>1, <1>2 DEF Active, Undisturbed, Shown
<1>4. ASSUME NEW g \in Groups, NEW r \in Of(g)', Shown(report'[r].status)
      PROVE  r \in Of(g) /\ Shown(report[r].status)
  BY <1>1, <1>2, <1>4 DEF Undisturbed
<1> QED
  BY <1>3, <1>4 DEF SomeActive, Shown

LEMMA RowsUndisturbed ==
    ASSUME TypeOK, AllSound, NEW e \in Evaluations, Step(e)
    PROVE  Undisturbed \/ CommitStatuses(e)
<1>1. eval[e].pc = "commitReport" => report[eval[e].latest].status = "uncommitted"
  BY DEF AllSound, Sound
<1>2. PICK n \in Nat : n = Len(report)
  BY DEF TypeOK
<1>3. CASE UNCHANGED report
  BY <1>3, SameRows DEF Undisturbed
<1>4. CASE MakeReport(e)
  <2>1. /\ Ids' = Ids \cup {n + 1} /\ \A r \in Ids : report'[r] = report[r]
        /\ report'[n + 1].status = "uncommitted"
    BY <1>2, <1>4, ReportEffects DEF Ids
  <2> QED
    BY <2>1 DEF Undisturbed, Shown
<1>5. CASE CommitReport(e) \/ Raises(e) \/ FindsSeveral(e) \/ WorkerDies(e)
  <2>1. Ids' = Ids
    BY <1>5, ReportEffects DEF Ids
  <2> QED
    BY <1>1, <1>5, <2>1, ReportEffects DEF Undisturbed, Shown
<1>6. \/ UNCHANGED report
      \/ MakeReport(e) \/ CommitReport(e) \/ CommitStatuses(e)
      \/ Raises(e) \/ FindsSeveral(e) \/ WorkerDies(e)
  BY DEF Step, Judge, LoadForRejudge, SaveRejudge, ChooseLatest, LockLatest, SnapshotActive,
         Supersede, Activate, ReadStatus, ReadScore, SaveScore
<1> QED
  BY <1>3, <1>4, <1>5, <1>6

LEMMA SomeActiveStep ==
    ASSUME TypeOK, AllSound, SomeActive, NEW e \in Evaluations, Step(e)
    PROVE  SomeActive'
<1>1. CASE Undisturbed
  BY <1>1, RowsStep, UndisturbedActive
<1>2. CASE CommitStatuses(e)
  <2>1. /\ Ids' = Ids /\ \A r \in Ids : report'[r].kind = report[r].kind
        /\ \A r \in Ids : report'[r].status = IF r \in eval[e].on THEN "ACTIVE"
                                 ELSE IF r \in eval[e].off THEN "SUPERSEDED" ELSE report[r].status
        /\ eval[e].pc = "commit"
    BY <1>2, ReportEffects DEF Ids
  <2>2. \A g \in Groups : Of(g)' = Of(g) /\ Of(g) \subseteq Ids
    BY <2>1 DEF Of
  <2>3. ASSUME NEW g \in Groups, NEW r \in Of(g), Shown(report'[r].status)
        PROVE  Active(g)' # {}
    <3>1. CASE eval[e].on \cap Of(g) # {}
      <4>1. PICK s \in eval[e].on \cap Of(g) : TRUE
        BY <3>1
      <4>2. s \in Active(g)'
        BY <2>1, <2>2, <4>1 DEF Active
      <4> QED
        BY <4>2
    <3>2. CASE eval[e].on \cap Of(g) = {}
      <4>1. eval[e].off \cap Of(g) = {}
        BY <2>1, <3>2 DEF AllSound, Replaced
      <4>2. \A s \in Of(g) : report'[s].status = report[s].status
        BY <2>1, <2>2, <3>2, <4>1
      <4>3. Active(g) # {}
        BY <2>3, <4>2 DEF SomeActive, Shown
      <4> QED
        BY <2>2, <4>2, <4>3 DEF Active
    <3> QED
      BY <3>1, <3>2
  <2> QED
    BY <2>2, <2>3 DEF SomeActive, Shown
<1> QED
  BY <1>1, <1>2, RowsUndisturbed

\* Once a report of a group was made ACTIVE the group always has an ACTIVE
\* one: each transaction sees its own snapshot, and no order of their
\* statements and commits loses it.
THEOREM KeepsActive == Spec => []SomeActive
<1>1. Init => TypeOK /\ AllSound /\ SomeActive
  <2>1. Init => SomeActive
    BY DEF Init, SomeActive, Of, Ids
  <2> QED
    BY <2>1, InitTypes, InitSound
<1>2. (TypeOK /\ AllSound /\ SomeActive) /\ [Next]_vars => (TypeOK /\ AllSound /\ SomeActive)'
  <2> SUFFICES ASSUME TypeOK, AllSound, SomeActive, [Next]_vars
               PROVE  TypeOK' /\ AllSound' /\ SomeActive'
    OBVIOUS
  <2>1. CASE UNCHANGED vars
    <3>1. report' = report /\ Ids' = Ids
      BY <2>1 DEF vars, Ids
    <3>2. SomeActive'
      BY <3>1 DEF SomeActive, Active, Of
    <3> QED
      BY <2>1, <3>2, NextTypes, StutterSound
  <2>2. CASE \E e \in Evaluations : Step(e)
    BY <2>2, NextTypes, AllSoundStep, SomeActiveStep
  <2> QED
    BY <2>1, <2>2 DEF Next, Step
<1> QED
  BY <1>1, <1>2, PTL DEF Spec

(***************************************************************************)
(* The newest report is made ACTIVE                                        *)
(***************************************************************************)
\* Evaluation e has still to make report r, the newest of group g, ACTIVE.
CoveredBy(e, g, r) ==
    \/ eval[e].pc \in {"report", "commitReport", "rejudge", "saveRejudge"}
    \/ eval[e].pc = "latest" /\ (eval[e].group = "final" \/ g = "initial")
    \/ eval[e].pc \in Choosing /\ eval[e].group = "final" /\ g = "initial"
    \/ eval[e].pc \in Choosing /\ eval[e].group = g /\ eval[e].latest = r
    \/ eval[e].pc \in {"latest", "commit"} \cup Choosing /\ r \in eval[e].on

Covered ==
    (\A e \in Evaluations : eval[e].pc # "abandoned")
    => \A g \in Groups : \A r \in Newest(g) : report[r].status = "INACTIVE" =>
          \E e \in Evaluations : CoveredBy(e, g, r)

\* Only the commit of a report makes another one the newest of its group.
LEMMA NewestStep ==
    ASSUME TypeOK, AllSound, NEW e \in Evaluations, Step(e), ~CommitReport(e),
           NEW g \in Groups, NEW r \in Newest(g)', report'[r].status = "INACTIVE"
    PROVE  r \in Newest(g) /\ report[r].status = "INACTIVE"
<1>1. /\ Ids \subseteq Ids' /\ RatedRows \subseteq RatedRows'
      /\ \A s \in Ids : (s \in Of(g)) <=> (s \in Of(g)')
      /\ Of(g) \subseteq Of(g)'
  BY RowsStep, StaysThere
<1>2. \A s \in Ids : Committed(s) <=> s \in RatedRows
  BY CommittedRated
<1>3. eval[e].pc = "commitReport" => report[eval[e].latest].status = "uncommitted"
  BY DEF AllSound, Sound
<1>4. PICK n \in Nat : n = Len(report)
  BY DEF TypeOK
<1>5. \A s \in Ids' :
         IF s \in Ids
         THEN /\ Committed(s)' <=> Committed(s)
              /\ report'[s].status = "INACTIVE" => report[s].status = "INACTIVE"
         ELSE ~Committed(s)'
  <2>1. CASE UNCHANGED report
    BY <2>1, SameRows DEF Committed
  <2>2. CASE MakeReport(e)
    <3>1. /\ Ids' = Ids \cup {n + 1} /\ \A s \in Ids : report'[s] = report[s]
          /\ report'[n + 1].status = "uncommitted"
      BY <1>4, <2>2, ReportEffects DEF Ids
    <3> QED
      BY <3>1 DEF Committed
  <2>3. CASE CommitStatuses(e)
    <3>1. Ids' = Ids
      BY <2>3, ReportEffects DEF Ids
    <3>2. \A s \in Ids : s \in eval[e].on \cup eval[e].off => Committed(s)
      BY <1>2 DEF AllSound, Sound
    <3> QED
      BY <2>3, <3>1, <3>2, ReportEffects DEF Committed
  <2>4. CASE Raises(e) \/ FindsSeveral(e) \/ WorkerDies(e)
    <3>1. Ids' = Ids
      BY <2>4, ReportEffects DEF Ids
    <3> QED
      BY <1>3, <2>4, <3>1, ReportEffects DEF Committed
  <2>5. \/ UNCHANGED report
        \/ MakeReport(e) \/ CommitStatuses(e)
        \/ Raises(e) \/ FindsSeveral(e) \/ WorkerDies(e)
    BY DEF Step, Judge, LoadForRejudge, SaveRejudge, ChooseLatest, LockLatest, SnapshotActive,
           Supersede, Activate, ReadStatus, ReadScore, SaveScore
  <2> QED
    BY <2>1, <2>2, <2>3, <2>4, <2>5
<1>6. Of(g) \subseteq Ids /\ Of(g)' \subseteq Ids'
  BY DEF Of
<1>7. r \in Ids' /\ r \in Of(g)' /\ Committed(r)'
      /\ \A s \in Of(g)' : Committed(s)' => s <= r
  BY <1>6 DEF Newest
<1>8. r \in Ids /\ r \in Of(g) /\ Committed(r) /\ report[r].status = "INACTIVE"
  BY <1>1, <1>5, <1>7
<1>9. \A s \in Of(g) : Committed(s) => s <= r
  BY <1>1, <1>5, <1>6, <1>7
<1> QED
  BY <1>8, <1>9 DEF Newest

LEMMA CoveredStep ==
    ASSUME TypeOK, AllSound, Covered, NEW e \in Evaluations, Step(e)
    PROVE  Covered'
<1> SUFFICES ASSUME \A f \in Evaluations : eval'[f].pc # "abandoned",
                    NEW g \in Groups, NEW r \in Newest(g)', report'[r].status = "INACTIVE"
             PROVE  \E f \in Evaluations : CoveredBy(f, g, r)'
  BY DEF Covered
<1>1. Sound(e) /\ eval[e] \in EvalStates /\ eval[e].group \in Groups
  BY DEF AllSound, TypeOK, EvalStates
<1>2. CASE CommitReport(e)
  <2>1. eval'[e].pc = "rejudge" \/ (eval'[e].pc = "latest" /\ eval'[e].group = "final")
    BY <1>1, <1>2, ReportEffects DEF Moves, Keeps, Sound, Choosing
  <2> QED
    BY <2>1 DEF CoveredBy
<1>3. CASE ~CommitReport(e)
  <2>1. r \in Newest(g) /\ report[r].status = "INACTIVE"
    BY <1>3, NewestStep
  <2>2. \A f \in Evaluations : eval[f].pc # "abandoned"
    <3>1. eval[e].pc # "abandoned"
      BY DEF Step, Judge, MayBegin, MakeReport, CommitReport, LoadForRejudge, SaveRejudge,
             ChooseLatest, LockLatest, SnapshotActive, Supersede, Activate, CommitStatuses,
             ReadStatus, ReadScore, SaveScore, Raises, FindsSeveral, WorkerDies, UnderWay
    <3> QED
      BY <3>1, OthersStep DEF Untouched, Begins
  <2>3. PICK f \in Evaluations : CoveredBy(f, g, r)
    BY <2>1, <2>2 DEF Covered
  <2>4. CASE f # e
    <3>1. eval[f].pc # "idle"
      BY <2>3 DEF CoveredBy, Choosing
    <3>2. Untouched(f)
      BY <2>4, <3>1, OthersStep DEF Begins
    <3> QED
      BY <2>3, <3>2 DEF CoveredBy, Untouched
  <2>5. CASE f = e
    <3>0. CoveredBy(e, g, r)
      BY <2>3, <2>5
    <3>1. CASE \E kinds \in ReportKinds : Judge(e, kinds)
      BY <3>1, BeginEffect DEF Begins, Moves, CoveredBy
    <3>2. CASE \E new \in Evaluations \ {e}, kinds \in ReportKinds : SaveRejudge(e, new, kinds)
      <4>1. PICK new \in Evaluations \ {e} : Begins(new)
        BY <3>2, RejudgeEffect
      <4> QED
        BY <4>1 DEF Begins, Moves, CoveredBy
    <3>3. CASE MakeReport(e)
      BY <3>3, ReportEffects DEF Moves, CoveredBy
    <3>4. CASE LoadForRejudge(e)
      <4>1. eval'[e].pc = "saveRejudge" \/ (eval'[e].pc = "latest" /\ eval'[e].group = "final")
        BY <1>1, <3>4, QuietEffects DEF Moves, Keeps, Sound, Choosing
      <4> QED
        BY <4>1 DEF CoveredBy
    <3>5. CASE LockLatest(e) \/ SnapshotActive(e)
      <4>1. eval[e].pc \in Choosing /\ eval'[e].pc \in Choosing /\ eval'[e].group = eval[e].group
            /\ eval'[e].latest = eval[e].latest /\ eval'[e].on = eval[e].on
        BY <3>5, QuietEffects DEF Moves, Keeps, Choosing
      <4> QED
        BY <3>0, <4>1 DEF CoveredBy, Choosing
    <3>6. ASSUME NEW s \in Ids, Supersede(e, s) PROVE CoveredBy(e, g, r)'
      <4>1. eval[e].pc \in Choosing /\ eval'[e].pc \in Choosing /\ eval'[e].group = eval[e].group
            /\ eval'[e].latest = eval[e].latest /\ eval'[e].on = eval[e].on
        BY <3>6, UpdateEffects DEF Moves, Choosing
      <4> QED
        BY <3>0, <4>1 DEF CoveredBy, Choosing
    <3>7. CASE ReadStatus(e) \/ ReadScore(e) \/ SaveScore(e)
      BY <3>0, <3>7, QuietEffects DEF CoveredBy, Choosing
    <3>8. CASE CommitStatuses(e)
      <4>1. r \in eval[e].on
        BY <3>0, <3>8, ReportEffects DEF CoveredBy, Choosing
      <4>2. r \in Ids
        BY <2>1 DEF Newest, Of
      <4> QED
        BY <3>8, <4>1, <4>2, ReportEffects
    <3>9. CASE Raises(e) \/ FindsSeveral(e) \/ WorkerDies(e)
      BY <3>9, ReportEffects DEF Moves, CoveredBy
    <3>10. CASE Activate(e)
      <4>1. /\ eval[e].pc = "supersede"
            /\ GoesOn(e, eval[e].on \cup {eval[e].latest}, eval[e].off \ {eval[e].latest})
        BY <3>10, UpdateEffects
      <4> QED
        BY <1>1, <3>0, <4>1 DEF CoveredBy, GoesOn, Moves, Choosing, Groups
    <3>11. CASE ChooseLatest(e)
      <4>0. eval[e].pc = "latest"
        BY <3>11, UpdateEffects
      <4>1. r \in Of(g) /\ r \in RatedRows /\ \A s \in Of(g) \cap RatedRows : s <= r
        BY <2>1, CommittedRated DEF Newest, Of
      <4>2. CASE /\ \A s \in Of(eval[e].group) : s \notin RatedRows
                 /\ GoesOn(e, eval[e].on, eval[e].off)
        <5>1. g # eval[e].group
          BY <4>1, <4>2
        <5> QED
          BY <1>1, <3>0, <4>0, <4>2, <5>1 DEF CoveredBy, GoesOn, Moves, Choosing, Groups
      <4>3. CASE /\ Moves(e, "lock") /\ Keeps(e)
                 /\ eval'[e].latest \in Of(eval[e].group) \cap RatedRows
                 /\ \A s \in Of(eval[e].group) \cap RatedRows : s <= eval'[e].latest
        <5>1. CASE g = eval[e].group
          <6>1. PICK k : k = eval'[e].latest
            OBVIOUS
          <6>2. k \in Nat /\ r \in Nat /\ k <= r /\ r <= k
            BY <4>1, <4>3, <5>1, <6>1 DEF Of, Ids
          <6>3. eval'[e].latest = r
            BY <6>1, <6>2
          <6> QED
            BY <4>3, <5>1, <6>3 DEF CoveredBy, Moves, Keeps, Choosing
        <5>2. CASE g # eval[e].group
          BY <1>1, <3>0, <4>0, <4>3, <5>2 DEF CoveredBy, Moves, Keeps, Choosing, Groups
        <5> QED
          BY <5>1, <5>2
      <4> QED
        BY <3>11, <4>2, <4>3, UpdateEffects
    <3> QED
      BY <1>3, <3>1, <3>2, <3>3, <3>4, <3>5, <3>6, <3>7, <3>8, <3>9, <3>10, <3>11 DEF Step
  <2> QED
    BY <2>4, <2>5
<1> QED
  BY <1>2, <1>3

\* The newest report of a group does not stay INACTIVE once the evaluations
\* have ended: the one that made it, or one that began later, makes it
\* ACTIVE, even if a phase of it raised on the way.
THEOREM NewestShown == Spec => []NewestActivated
<1>1. Init => TypeOK /\ AllSound /\ Covered
  <2>1. Init => Covered
    BY DEF Init, Covered, Newest, Of, Ids
  <2> QED
    BY <2>1, InitTypes, InitSound
<1>2. (TypeOK /\ AllSound /\ Covered) /\ [Next]_vars => (TypeOK /\ AllSound /\ Covered)'
  <2> SUFFICES ASSUME TypeOK, AllSound, Covered, [Next]_vars
               PROVE  TypeOK' /\ AllSound' /\ Covered'
    OBVIOUS
  <2>1. CASE UNCHANGED vars
    <3>1. report' = report /\ Ids' = Ids /\ eval' = eval
      BY <2>1 DEF vars, Ids
    <3>2. Covered'
      BY <3>1 DEF Covered, CoveredBy, Newest, Of, Committed
    <3> QED
      BY <2>1, <3>2, NextTypes, StutterSound
  <2>2. CASE \E e \in Evaluations : Step(e)
    BY <2>2, NextTypes, AllSoundStep, CoveredStep
  <2> QED
    BY <2>1, <2>2 DEF Next, Step
<1>3. Covered => NewestActivated
  BY DEF Covered, CoveredBy, NewestActivated, Choosing
<1> QED
  BY <1>1, <1>2, <1>3, PTL DEF Spec

(***************************************************************************)
(* An evaluation that runs alone                                           *)
(***************************************************************************)
Settled == \A g \in Groups : Active(g) = Newest(g)

AloneInv(e) == eval[e].alone = TRUE =>
    /\ \A f \in Evaluations \ {e} : ~UnderWay(f)
    /\ eval[e].pc \in Choosing => Newest(eval[e].group) = {eval[e].latest}
    /\ eval[e].pc \in {"latest"} \cup Choosing =>
          IF eval[e].group = "final" THEN eval[e].on = {}
          ELSE eval[e].on \subseteq Of("final") /\ ActiveFor(e, "final") = Newest("final")
    /\ eval[e].pc = "supersede" => ActiveFor(e, eval[e].group) \subseteq eval[e].todo
    /\ eval[e].pc = "commit" => \A g \in Groups : ActiveFor(e, g) = Newest(g)
    /\ eval[e].pc \in {"status", "score", "save", "ended"} => Settled
    /\ eval[e].pc = "save" => eval[e].found = ScoreOf(ActiveNormal)
    /\ eval[e].pc = "ended" => score = ScoreOf(ActiveNormal)

LEMMA SameNewest ==
    ASSUME TypeOK, UNCHANGED report
    PROVE  /\ \A g : Newest(g)' = Newest(g) /\ Active(g)' = Active(g) /\ Of(g)' = Of(g)
           /\ ActiveNormal' = ActiveNormal
<1>1. \A g : Of(g)' = Of(g) /\ Active(g)' = Active(g)
  BY SameRows
<1>2. \A r : Committed(r)' <=> Committed(r)
  BY DEF Committed
<1> QED
  BY <1>1, <1>2 DEF Newest, ActiveNormal

\* A step of one evaluation leaves no other one alone.
LEMMA NoOtherAlone ==
    ASSUME TypeOK, \A f \in Evaluations : AloneInv(f), NEW e \in Evaluations, Step(e),
           NEW f \in Evaluations \ {e}
    PROVE  ~(eval'[f].alone = TRUE)
<1>1. CASE \E kinds \in ReportKinds : Judge(e, kinds)
  BY <1>1, BeginEffect DEF Begins
<1>2. CASE \E new \in Evaluations \ {e}, kinds \in ReportKinds : SaveRejudge(e, new, kinds)
  BY <1>2, RejudgeEffect DEF Begins
<1>3. CASE Frame(e) /\ UnderWay(e)
  BY <1>3 DEF Frame, AloneInv
<1>4. /\ LoadForRejudge(e) \/ LockLatest(e) \/ SnapshotActive(e) \/ ReadStatus(e)
            \/ ReadScore(e) \/ SaveScore(e) => Frame(e) /\ UnderWay(e)
      /\ ChooseLatest(e) \/ Activate(e) \/ (\E r \in Ids : Supersede(e, r)) =>
             Frame(e) /\ UnderWay(e)
      /\ MakeReport(e) \/ CommitReport(e) \/ CommitStatuses(e)
            \/ Raises(e) \/ FindsSeveral(e) \/ WorkerDies(e) => Frame(e) /\ UnderWay(e)
  BY QuietEffects, UpdateEffects, ReportEffects DEF UnderWay
<1> QED
  BY <1>1, <1>2, <1>3, <1>4 DEF Step

LEMMA AloneStep ==
    ASSUME TypeOK, AllSound, \A f \in Evaluations : AloneInv(f), NEW e \in Evaluations, Step(e)
    PROVE  AloneInv(e)'
<1> SUFFICES ASSUME eval'[e].alone = TRUE PROVE AloneInv(e)'
  BY DEF AloneInv
<1>1. /\ eval[e] \in EvalStates /\ eval \in [Evaluations -> EvalStates]
      /\ Sound(e) /\ AloneInv(e)
  BY DEF TypeOK, AllSound
<1>2. CASE \E kinds \in ReportKinds : Judge(e, kinds)
  <2>1. Begins(e) /\ \A f \in Evaluations \ {e} : eval'[f].pc = eval[f].pc
    BY <1>2, BeginEffect
  <2> QED
    BY <2>1 DEF Begins, Moves, AloneInv, UnderWay, Choosing
<1>3. CASE \E new \in Evaluations \ {e}, kinds \in ReportKinds : SaveRejudge(e, new, kinds)
  BY <1>3, RejudgeEffect DEF Begins
<1>4. ASSUME Frame(e)
      PROVE  /\ eval[e].alone = TRUE /\ \A f \in Evaluations \ {e} : ~UnderWay(f)
             /\ (\A f \in Evaluations \ {e} : ~UnderWay(f))'
  BY <1>1, <1>4 DEF Frame, AloneInv, UnderWay
<1>5. CASE \/ MakeReport(e) \/ Raises(e) \/ FindsSeveral(e) \/ WorkerDies(e)
  <2>1. Frame(e) /\ eval'[e].pc \in {"commitReport", "report", "abandoned"}
    BY <1>5, ReportEffects DEF Moves
  <2> QED
    BY <1>4, <2>1 DEF AloneInv, Choosing
<1>6. CASE CommitReport(e) \/ LoadForRejudge(e)
  <2>1. /\ Frame(e) /\ Keeps(e) /\ eval[e].pc \in {"commitReport", "rejudge"}
        /\ eval'[e].pc \in {"rejudge", "saveRejudge", "latest"}
    BY <1>6, QuietEffects, ReportEffects DEF Moves
  <2>2. eval'[e].group = "final" /\ eval'[e].on = {}
    BY <1>1, <2>1 DEF Sound, Keeps, Choosing
  <2> QED
    BY <1>4, <2>1, <2>2 DEF AloneInv, Choosing
<1>7. PICK g \in Groups : g = eval[e].group
  BY <1>1 DEF EvalStates
<1>8. ASSUME UNCHANGED report, eval'[e].on = eval[e].on, eval'[e].off = eval[e].off
      PROVE  \A h : ActiveFor(e, h)' = ActiveFor(e, h)
  BY <1>8, SameNewest DEF ActiveFor
<1>9. CASE LockLatest(e) \/ SnapshotActive(e)
  <2>1. UNCHANGED report
    BY <1>9 DEF LockLatest, SnapshotActive
  <2>2. /\ Frame(e) /\ Keeps(e) /\ eval'[e].latest = eval[e].latest
        /\ eval[e].pc \in {"lock", "snapshot"} /\ eval'[e].pc \in {"snapshot", "supersede"}
        /\ eval'[e].pc = "supersede" => eval'[e].todo = ActiveFor(e, g)
    BY <1>7, <1>9, QuietEffects DEF Moves
  <2>3. \A h : ActiveFor(e, h)' = ActiveFor(e, h) /\ Newest(h)' = Newest(h) /\ Of(h)' = Of(h)
    BY <1>8, <2>1, <2>2, SameNewest DEF Keeps
  <2>4. eval'[e].group = g /\ eval'[e].on = eval[e].on
    BY <1>7, <2>2 DEF Keeps
  <2>5. /\ Newest(g) = {eval[e].latest}
        /\ IF g = "final" THEN eval[e].on = {}
           ELSE eval[e].on \subseteq Of("final") /\ ActiveFor(e, "final") = Newest("final")
    BY <1>1, <1>4, <1>7, <2>2 DEF AloneInv, Choosing
  <2> QED
    BY <1>4, <2>2, <2>3, <2>4, <2>5 DEF AloneInv, Choosing
<1>10. ASSUME NEW r \in Ids, Supersede(e, r) PROVE AloneInv(e)'
  <2>1. UNCHANGED report
    BY <1>10 DEF Supersede
  <2>2. /\ Frame(e) /\ eval[e].pc = "supersede" /\ eval'[e].pc = "supersede"
        /\ eval'[e].latest = eval[e].latest /\ eval'[e].group = g
        /\ eval'[e].on = eval[e].on /\ r \in eval[e].todo
        /\ eval'[e].todo = eval[e].todo \ {r}
        /\ eval'[e].off = IF r \in ActiveFor(e, g) THEN eval[e].off \cup {r} ELSE eval[e].off
    BY <1>7, <1>10, UpdateEffects DEF Moves
  <2>3. /\ Newest(g) = {eval[e].latest} /\ ActiveFor(e, g) \subseteq eval[e].todo
        /\ IF g = "final" THEN eval[e].on = {}
           ELSE eval[e].on \subseteq Of("final") /\ ActiveFor(e, "final") = Newest("final")
    BY <1>1, <1>4, <1>7, <2>2 DEF AloneInv, Choosing
  <2>4. \A h : Newest(h)' = Newest(h) /\ Active(h)' = Active(h) /\ Of(h)' = Of(h)
    BY <2>1, SameNewest
  <2>5. r \in Of(g)
    BY <1>1, <1>7, <2>2 DEF Sound
  <2>6. ActiveFor(e, g)' \subseteq eval'[e].todo
    <3>1. eval[e].on \cap Of(g) = {}
      BY <1>7, <2>3, OneGroup DEF Groups
    <3>2. ActiveFor(e, g) = Active(g) \ eval[e].off
      BY <3>1 DEF ActiveFor
    <3>3. ActiveFor(e, g)' = Active(g) \ eval'[e].off
      BY <2>2, <2>4, <3>1 DEF ActiveFor
    <3>4. r \notin ActiveFor(e, g)'
      BY <2>2, <3>2, <3>3
    <3> QED
      BY <2>2, <2>3, <3>2, <3>3, <3>4
  <2>7. g = "initial" => ActiveFor(e, "final")' = ActiveFor(e, "final")
    <3>1. g = "initial" => r \notin Of("final")
      BY <2>5, OneGroup
    <3>2. Active("final") \subseteq Of("final")
      BY DEF Active
    <3> QED
      BY <2>2, <2>4, <3>1, <3>2 DEF ActiveFor
  <2> QED
    BY <1>4, <1>7, <2>2, <2>3, <2>4, <2>6, <2>7 DEF AloneInv, Choosing, Groups
<1>11. CASE ChooseLatest(e)
  <2>1. UNCHANGED report /\ eval[e].pc = "latest" /\ Frame(e)
    BY <1>11, UpdateEffects DEF ChooseLatest
  <2>2. IF g = "final" THEN eval[e].on = {}
        ELSE eval[e].on \subseteq Of("final") /\ ActiveFor(e, "final") = Newest("final")
    BY <1>1, <1>4, <1>7, <2>1 DEF AloneInv
  <2>3. \A h : Newest(h)' = Newest(h) /\ Active(h)' = Active(h) /\ Of(h)' = Of(h)
    BY <2>1, SameNewest
  <2>4. \A s \in Of(g) : Committed(s) <=> s \in RatedRows
    BY CommittedRated DEF Of
  <2>5. CASE /\ \A s \in Of(g) : s \notin RatedRows
             /\ GoesOn(e, eval[e].on, eval[e].off)
    <3>1. Newest(g) = {}
      BY <2>4, <2>5 DEF Newest
    <3>2. ActiveFor(e, g) = {}
      BY <1>1, <2>5 DEF ActiveFor, Active, RatedRows, Rated, Of, Sound
    <3>3. \A h : ActiveFor(e, h)' = ActiveFor(e, h)
      <4>1. eval'[e].on = eval[e].on /\ eval'[e].off = eval[e].off
        BY <2>5 DEF GoesOn
      <4> QED
        BY <1>8, <2>1, <4>1
    <3>4. CASE g = "final"
      <4>1. eval'[e].pc = "latest" /\ eval'[e].group = "initial" /\ eval'[e].on = {}
        BY <1>7, <2>2, <2>5, <3>4 DEF GoesOn, Moves
      <4>2. ActiveFor(e, "final")' = Newest("final")'
        BY <2>3, <3>1, <3>2, <3>3, <3>4
      <4> QED
        BY <1>4, <2>1, <4>1, <4>2 DEF AloneInv, Choosing
    <3>5. CASE g = "initial"
      BY <1>4, <1>7, <2>1, <2>2, <2>3, <2>5, <3>1, <3>2, <3>3, <3>5
         DEF AloneInv, GoesOn, Moves, Choosing, Groups
    <3> QED
      BY <3>4, <3>5 DEF Groups
  <2>6. CASE /\ Moves(e, "lock") /\ Keeps(e)
             /\ eval'[e].latest \in Of(g) \cap RatedRows
             /\ \A s \in Of(g) \cap RatedRows : s <= eval'[e].latest
    <3>1. PICK k : k = eval'[e].latest
      OBVIOUS
    <3>2. k \in Newest(g)
      BY <2>4, <2>6, <3>1 DEF Newest
    <3>3. ASSUME NEW s \in Newest(g) PROVE s = k
      <4>1. s \in Nat /\ k \in Nat /\ s <= k /\ k <= s
        BY <2>4, <2>6, <3>1, <3>2 DEF Newest, Of, Ids
      <4> QED
        BY <4>1
    <3>4. Newest(g) = {k}
      BY <3>2, <3>3
    <3>5. \A h : ActiveFor(e, h)' = ActiveFor(e, h)
      BY <1>8, <2>1, <2>6 DEF Keeps
    <3>6. eval'[e].group = g /\ eval'[e].on = eval[e].on /\ eval'[e].pc = "lock"
      BY <1>7, <2>6 DEF Keeps, Moves
    <3> QED
      BY <1>4, <2>1, <2>2, <2>3, <3>1, <3>4, <3>5, <3>6 DEF AloneInv, Choosing
  <2> QED
    BY <1>7, <1>11, <2>5, <2>6, UpdateEffects
<1>12. CASE Activate(e)
  <2>1. UNCHANGED report
    BY <1>12 DEF Activate
  <2>2. /\ Frame(e) /\ eval[e].pc = "supersede" /\ eval[e].todo = {}
        /\ GoesOn(e, eval[e].on \cup {eval[e].latest}, eval[e].off \ {eval[e].latest})
    BY <1>12, UpdateEffects
  <2>3. PICK k : k = eval[e].latest
    OBVIOUS
  <2>4. /\ Newest(g) = {k} /\ ActiveFor(e, g) = {}
        /\ IF g = "final" THEN eval[e].on = {}
           ELSE eval[e].on \subseteq Of("final") /\ ActiveFor(e, "final") = Newest("final")
    BY <1>1, <1>4, <1>7, <2>2, <2>3 DEF AloneInv, Choosing
  <2>5. \A h : Newest(h)' = Newest(h) /\ Active(h)' = Active(h) /\ Of(h)' = Of(h)
    BY <2>1, SameNewest
  <2>6. k \in Of(g)
    BY <1>1, <1>7, <2>2, <2>3 DEF Sound, Choosing
  <2>7. eval'[e].on = eval[e].on \cup {k} /\ eval'[e].off = eval[e].off \ {k}
    BY <2>2, <2>3 DEF GoesOn
  <2>8. ActiveFor(e, g)' = {k}
    BY <2>4, <2>5, <2>6, <2>7 DEF ActiveFor
  <2>9. CASE g = "final"
    BY <1>4, <1>7, <2>2, <2>4, <2>5, <2>6, <2>7, <2>8, <2>9
       DEF AloneInv, GoesOn, Moves, Choosing
  <2>10. CASE g = "initial"
    <3>1. k \notin Of("final") /\ Active("final") \subseteq Of("final")
      BY <2>6, <2>10, OneGroup DEF Active
    <3>2. ActiveFor(e, "final")' = ActiveFor(e, "final")
      BY <2>5, <2>7, <3>1 DEF ActiveFor
    <3>3. \A h \in Groups : ActiveFor(e, h)' = Newest(h)'
      BY <2>4, <2>5, <2>8, <2>10, <3>2 DEF Groups
    <3> QED
      BY <1>4, <1>7, <2>2, <2>10, <3>3 DEF AloneInv, GoesOn, Moves, Choosing
  <2> QED
    BY <2>9, <2>10 DEF Groups
<1>13. CASE CommitStatuses(e)
  <2>1. /\ Frame(e) /\ eval[e].pc = "commit" /\ eval'[e].pc = "status"
        /\ Ids' = Ids /\ \A r \in Ids : report'[r].kind = report[r].kind
        /\ \A r \in Ids : report'[r].status = IF r \in eval[e].on THEN "ACTIVE"
                                 ELSE IF r \in eval[e].off THEN "SUPERSEDED" ELSE report[r].status
    BY <1>13, ReportEffects DEF Ids, Moves
  <2>2. \A h \in Groups : ActiveFor(e, h) = Newest(h)
    BY <1>1, <1>4, <2>1 DEF AloneInv
  <2>3. \A h \in Groups : Of(h)' = Of(h) /\ Of(h) \subseteq Ids
    BY <2>1 DEF Of
  <2>4. \A r \in Ids : r \in eval[e].on \cup eval[e].off => Committed(r)
    BY <1>1, CommittedRated DEF Sound
  <2>5. \A r \in Ids : Committed(r)' <=> Committed(r)
    BY <2>1, <2>4 DEF Committed
  <2>6. \A h \in Groups : Newest(h)' = Newest(h)
    BY <2>3, <2>5 DEF Newest
  <2>7. \A h \in Groups : Active(h)' = ActiveFor(e, h)
    BY <2>1, <2>3 DEF Active, ActiveFor
  <2>8. Settled'
    BY <2>2, <2>6, <2>7 DEF Settled
  <2> QED
    BY <1>4, <2>1, <2>8 DEF AloneInv, Choosing
<1>14. CASE ReadStatus(e) \/ ReadScore(e) \/ SaveScore(e)
  <2>1. UNCHANGED report
    BY <1>14 DEF ReadStatus, ReadScore, SaveScore
  <2>2. /\ Frame(e) /\ eval[e].pc \in {"status", "score", "save"}
        /\ eval'[e].pc \in {"score", "save", "report", "ended"}
        /\ eval'[e].pc = "save" => eval'[e].found = ScoreOf(ActiveNormal)
        /\ eval'[e].pc = "ended" => eval[e].pc = "save"
    BY <1>14, QuietEffects DEF Moves
  <2>3. eval'[e].pc = "ended" => score' = eval[e].found
    BY <1>14, <2>2, QuietEffects DEF SaveScore, Moves
  <2>4. Settled' /\ ScoreOf(ActiveNormal)' = ScoreOf(ActiveNormal)
    <3>1. Settled
      BY <1>1, <1>4, <2>2 DEF AloneInv
    <3>2. Settled'
      BY <2>1, <3>1, SameNewest DEF Settled
    <3>3. ActiveNormal' = ActiveNormal
      BY <2>1, SameNewest
    <3> QED
      BY <3>2, <3>3 DEF ScoreOf
  <2>5. eval'[e].pc = "ended" => eval[e].found = ScoreOf(ActiveNormal)
    BY <1>1, <1>4, <2>2 DEF AloneInv
  <2> QED
    BY <1>4, <2>2, <2>3, <2>4, <2>5 DEF AloneInv, Choosing
<1> QED
  BY <1>2, <1>3, <1>5, <1>6, <1>9, <1>10, <1>11, <1>12, <1>13, <1>14 DEF Step

\* An evaluation that no other one overlapped leaves the newest report of
\* each group as the ACTIVE one, and its score in the submission, whatever
\* the evaluations before it left behind.
THEOREM AloneRepairsAll == Spec => []AloneRepairs
<1> DEFINE Inv == TypeOK /\ AllSound /\ \A e \in Evaluations : AloneInv(e)
<1>1. Init => Inv
  <2>1. Init => \A e \in Evaluations : AloneInv(e)
    BY DEF Init, AloneInv, IdleEval
  <2> QED
    BY <2>1, InitTypes, InitSound
<1>2. Inv /\ [Next]_vars => Inv'
  <2> SUFFICES ASSUME Inv, [Next]_vars PROVE Inv'
    OBVIOUS
  <2>1. CASE UNCHANGED vars
    <3>1. report' = report /\ eval' = eval /\ score' = score
      BY <2>1 DEF vars
    <3>2. ASSUME NEW e \in Evaluations PROVE AloneInv(e)'
      <4>1. AloneInv(e)
        OBVIOUS
      <4>2. /\ \A g : Newest(g)' = Newest(g) /\ Active(g)' = Active(g) /\ Of(g)' = Of(g)
            /\ ActiveNormal' = ActiveNormal
        BY <3>1, SameNewest
      <4>3. PICK g : g = eval[e].group
        OBVIOUS
      <4>4. \A h : ActiveFor(e, h)' = ActiveFor(e, h)
        BY <3>1, <4>2 DEF ActiveFor
      <4>5. Settled' <=> Settled
        BY <4>2 DEF Settled
      <4>6. Newest(g)' = Newest(g) /\ ActiveFor(e, g)' = ActiveFor(e, g)
            /\ ScoreOf(ActiveNormal)' = ScoreOf(ActiveNormal)
        BY <4>2, <4>4 DEF ScoreOf
      <4> QED
        BY <3>1, <4>1, <4>2, <4>3, <4>4, <4>5, <4>6 DEF AloneInv, UnderWay
    <3> QED
      BY <2>1, <3>2, NextTypes, StutterSound
  <2>2. ASSUME NEW e \in Evaluations, Step(e) PROVE Inv'
    <3>1. \A f \in Evaluations \ {e} : AloneInv(f)'
      BY <2>2, NoOtherAlone DEF AloneInv
    <3>2. AloneInv(e)'
      BY <2>2, AloneStep
    <3>3. TypeOK' /\ AllSound'
      BY <2>2, NextTypes, AllSoundStep
    <3> QED
      BY <3>1, <3>2, <3>3
  <2> QED
    BY <2>1, <2>2 DEF Next, Step
<1>3. Inv => AloneRepairs
  <2> SUFFICES ASSUME Inv, NEW e \in Evaluations, eval[e].pc = "ended", eval[e].alone
               PROVE  /\ \A g \in Groups : Active(g) = Newest(g)
                      /\ score = ScoreOf(ActiveNormal)
    BY DEF AloneRepairs
  <2>1. eval[e].alone \in BOOLEAN
    BY DEF TypeOK, EvalStates
  <2>2. eval[e].alone = TRUE
    BY <2>1
  <2> QED
    BY <2>2 DEF AloneInv, Settled
<1> HIDE DEF Inv
<1> QED
  BY <1>1, <1>2, <1>3, PTL DEF Spec
=============================================================================
