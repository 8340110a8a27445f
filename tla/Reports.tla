-------------------------------- MODULE Reports --------------------------------
(***************************************************************************)
(* The reports of one submission.  Each evaluation makes an INITIAL report *)
(* and then a NORMAL one, or a FAILURE report when a phase raises; after   *)
(* each of them update_report_statuses makes the newest report of a group  *)
(* the ACTIVE one and update_submission_score copies its score             *)
(* (oioioi/programs/handlers.py, contests/handlers.py,                     *)
(* problems/controllers.py).                                               *)
(*                                                                         *)
(* A submission may have several evaluations at a time: it is rejudged by  *)
(* hand, or by the handlers of a failed evaluation.  Each phase is a       *)
(* transaction, READ COMMITTED; the statements of the long one are steps   *)
(* of their own.                                                           *)
(***************************************************************************)
EXTENDS Naturals, Sequences, FiniteSets

CONSTANTS
    Evaluations,     \* evaluations of the submission
    ReportKinds,     \* what environ['report_kinds'] of an evaluation may be
    MailAdmins,      \* settings.MAIL_ADMINS_ON_GRADING_ERROR
    MaxAtOnce,       \* bound: evaluations under way at the same time
    MaxFailures      \* bound: phases that raise and workers that die

ASSUME ReportsAssumption ==
    /\ ReportKinds \subseteq {{"initial"}, {"final"}, {"initial", "final"}}
    /\ MailAdmins \in BOOLEAN /\ MaxAtOnce \in Nat /\ MaxFailures \in Nat

VARIABLES
    report,         \* the reports, in the order of their creation dates
    score,          \* the report Submission.score comes from, 0: no score
    auto_rejudges,  \* Submission.auto_rejudges
    eval,           \* the state of each evaluation
    failures        \* counts what MaxFailures bounds

vars == <<report, score, auto_rejudges, eval, failures>>

\* What an evaluation reports next: "failed" from its error handlers.
Stages == {"initial", "final", "failed"}
KindOf == [initial |-> "INITIAL", final |-> "NORMAL", failed |-> "FAILURE"]

\* The groups of kinds that have one ACTIVE report each.
Groups == {"final", "initial"}
GroupKinds == [final |-> {"NORMAL", "FAILURE"}, initial |-> {"INITIAL"}]

Ids == 1 .. Len(report)
Of(g) == {r \in Ids : report[r].kind \in GroupKinds[g]}
Rated == {"INACTIVE", "ACTIVE", "SUPERSEDED"}

ReportStates == [kind : {"INITIAL", "NORMAL", "FAILURE"}, status : Rated \cup {"uncommitted", "undone"}]

EvalStates ==
    [pc : {"idle", "report", "commitReport", "rejudge", "saveRejudge", "latest", "lock",
           "snapshot", "supersede", "commit", "status", "score", "save", "ended", "abandoned"},
     stage : Stages,
     final : BOOLEAN,          \* the final tests are still to come
     group : Groups,           \* the group update_report_statuses is at
     latest : Nat,             \* the report it makes ACTIVE
     todo : SUBSET Nat,        \* the reports its UPDATE has yet to visit
     off : SUBSET Nat,         \* its uncommitted writes of SUPERSEDED
     on : SUBSET Nat,          \* its uncommitted writes of ACTIVE
     found : Nat,              \* the score a transaction has read
     alone : BOOLEAN]          \* history: no other evaluation since it began

IdleEval == [pc |-> "idle", stage |-> "initial", final |-> FALSE, group |-> "final", latest |-> 0,
             todo |-> {}, off |-> {}, on |-> {}, found |-> 0, alone |-> FALSE]

\* Every variable holds a value of its column or process.
TypeOK ==
    /\ report \in Seq(ReportStates)
    /\ score \in Nat
    /\ auto_rejudges \in Nat
    /\ eval \in [Evaluations -> EvalStates]
    /\ failures \in Nat

Init ==
    /\ report = <<>>
    /\ score = 0
    /\ auto_rejudges = 0
    /\ eval = [e \in Evaluations |-> IdleEval]
    /\ failures = 0

UnderWay(e) == eval[e].pc \notin {"idle", "ended", "abandoned"}
MayBegin(e) ==
    /\ eval[e].pc = "idle"
    /\ Cardinality({f \in Evaluations : UnderWay(f)}) < MaxAtOnce

(***************************************************************************)
(* Rows as the statements see them                                         *)
(***************************************************************************)
Committed(r) == report[r].status \notin {"uncommitted", "undone"}

\* The ACTIVE reports of a group, for a statement outside of the long
\* transaction, and for a statement of e in it.
Active(g) == {r \in Of(g) : report[r].status = "ACTIVE"}
ActiveFor(e, g) == (Active(g) \ eval[e].off) \cup (eval[e].on \cap Of(g))

\* The rows whose locks e has: selected FOR UPDATE, or written.
LocksOf(e) ==
    eval[e].off \cup eval[e].on \cup
        (IF eval[e].pc \in {"snapshot", "supersede"} THEN {eval[e].latest} ELSE {})
Locked(e, r) == \E f \in Evaluations \ {e} : r \in LocksOf(f)

(***************************************************************************)
(* An evaluation begins: judge(), a rejudge by hand or by attempt_rejudge. *)
(***************************************************************************)
Begin(ev, e, kinds) ==
    [f \in Evaluations |->
        IF f = e THEN [IdleEval EXCEPT !.pc = "report",
                           !.stage = IF "initial" \in kinds THEN "initial" ELSE "final",
                           !.final = kinds = {"initial", "final"},
                           !.alone = \A x \in Evaluations \ {e} : ~UnderWay(x)]
        ELSE [ev[f] EXCEPT !.alone = FALSE]]

Judge(e, kinds) ==
    /\ MayBegin(e)
    /\ eval' = Begin(eval, e, kinds)
    /\ UNCHANGED <<report, score, auto_rejudges, failures>>

(***************************************************************************)
(* Slips that the properties below are meant to catch; not part of the     *)
(* specification.                                                          *)
(***************************************************************************)
\* A failed evaluation leaves the statuses of its reports alone.
CommitReportOnly(e) ==
    /\ eval[e].pc = "commitReport"
    /\ report' = [report EXCEPT ![eval[e].latest].status = "INACTIVE"]
    /\ eval' = [eval EXCEPT ![e] = [@ EXCEPT !.latest = 0,
                    !.pc = IF eval[e].stage = "failed" THEN "status" ELSE "latest"]]
    /\ UNCHANGED <<score, auto_rejudges, failures>>

\* The reports are superseded in a transaction that ends before the newest
\* one is made ACTIVE.
SupersedeAtOnce(e, r) ==
    /\ eval[e].pc = "supersede"
    /\ r \in eval[e].todo /\ ~Locked(e, r)
    /\ report' = [report EXCEPT ![r].status = IF @ = "ACTIVE" THEN "SUPERSEDED" ELSE @]
    /\ eval' = [eval EXCEPT ![e].todo = @ \ {r}]
    /\ UNCHANGED <<score, auto_rejudges, failures>>

\* FAILURE reports have no score to look for: the one found before is kept.
ReadScoreOfNormal(e) ==
    LET normal == {r \in Active("final") : report[r].kind = "NORMAL"}
    IN  /\ eval[e].pc = "score"
        /\ Cardinality(normal) <= 1
        /\ eval' = [eval EXCEPT ![e] = [@ EXCEPT !.pc = "save",
                        !.found = IF normal = {} THEN score ELSE CHOOSE r \in normal : TRUE]]
        /\ UNCHANGED <<report, score, auto_rejudges, failures>>

(***************************************************************************)
(* make_report, create_error_report                                        *)
(***************************************************************************)
MakeReport(e) ==
    /\ eval[e].pc = "report"
    /\ report' = Append(report, [kind |-> KindOf[eval[e].stage], status |-> "uncommitted"])
    /\ eval' = [eval EXCEPT ![e] = [@ EXCEPT !.pc = "commitReport", !.latest = Len(report) + 1]]
    /\ UNCHANGED <<score, auto_rejudges, failures>>

CommitReport(e) ==
    /\ eval[e].pc = "commitReport"
    /\ report' = [report EXCEPT ![eval[e].latest].status = "INACTIVE"]
    /\ eval' = [eval EXCEPT ![e] = [@ EXCEPT !.latest = 0,
                    !.pc = IF eval[e].stage = "failed" /\ MailAdmins THEN "rejudge" ELSE "latest"]]
    /\ UNCHANGED <<score, auto_rejudges, failures>>

(***************************************************************************)
(* attempt_rejudge: loads the submission, saves all of it and judges.      *)
(***************************************************************************)
LoadForRejudge(e) ==
    /\ eval[e].pc = "rejudge"
    /\ eval' = [eval EXCEPT ![e] = [@ EXCEPT !.found = score,
                    !.pc = IF auto_rejudges < 1 THEN "saveRejudge" ELSE "latest"]]
    /\ UNCHANGED <<report, score, auto_rejudges, failures>>

\* The new evaluation goes on at the same time as the handlers of this one.
SaveRejudge(e, new, kinds) ==
    /\ eval[e].pc = "saveRejudge"
    /\ MayBegin(new)
    /\ score' = eval[e].found
    /\ auto_rejudges' = 1
    /\ eval' = [Begin(eval, new, kinds) EXCEPT ![e].pc = "latest", ![e].found = 0]
    /\ UNCHANGED <<report, failures>>

(***************************************************************************)
(* update_report_statuses: _activate_newest_report for each group of kinds *)
(***************************************************************************)
NextGroup(st) ==
    IF st.group = "final" THEN [st EXCEPT !.group = "initial", !.pc = "latest", !.latest = 0]
    ELSE [st EXCEPT !.group = "final", !.pc = "commit", !.latest = 0]

\* queryset.select_for_update()...latest() finds a report in its snapshot ...
ChooseLatest(e) ==
    LET rated == {r \in Of(eval[e].group) : Committed(r)}
    IN  /\ eval[e].pc = "latest"
        /\ eval' = [eval EXCEPT ![e] =
               IF rated = {} THEN NextGroup(@)
               ELSE [@ EXCEPT !.pc = "lock",
                         !.latest = CHOOSE r \in rated : \A s \in rated : s <= r]]
        /\ UNCHANGED <<report, score, auto_rejudges, failures>>

\* ... and waits for its lock.
LockLatest(e) ==
    /\ eval[e].pc = "lock"
    /\ ~Locked(e, eval[e].latest)
    /\ eval' = [eval EXCEPT ![e].pc = "snapshot"]
    /\ UNCHANGED <<report, score, auto_rejudges, failures>>

\* queryset.filter(status='ACTIVE').update(status='SUPERSEDED') takes its
\* snapshot ...
SnapshotActive(e) ==
    /\ eval[e].pc = "snapshot"
    /\ eval' = [eval EXCEPT ![e] = [@ EXCEPT !.pc = "supersede",
                                             !.todo = ActiveFor(e, eval[e].group)]]
    /\ UNCHANGED <<report, score, auto_rejudges, failures>>

\* ... and visits its rows; one that was locked is looked at again.
Supersede(e, r) ==
    /\ eval[e].pc = "supersede"
    /\ r \in eval[e].todo /\ ~Locked(e, r)
    /\ eval' = [eval EXCEPT ![e].todo = @ \ {r},
                           ![e].off = IF r \in ActiveFor(e, eval[e].group) THEN @ \cup {r} ELSE @]
    /\ UNCHANGED <<report, score, auto_rejudges, failures>>

\* latest.save()
Activate(e) ==
    /\ eval[e].pc = "supersede" /\ eval[e].todo = {}
    /\ eval' = [eval EXCEPT ![e] = NextGroup([eval[e] EXCEPT !.off = @ \ {eval[e].latest},
                                                            !.on = @ \cup {eval[e].latest}])]
    /\ UNCHANGED <<report, score, auto_rejudges, failures>>

CommitStatuses(e) ==
    /\ eval[e].pc = "commit"
    /\ report' = [r \in Ids |->
           IF r \in eval[e].on THEN [report[r] EXCEPT !.status = "ACTIVE"]
           ELSE IF r \in eval[e].off THEN [report[r] EXCEPT !.status = "SUPERSEDED"]
           ELSE report[r]]
    /\ eval' = [eval EXCEPT ![e] = [@ EXCEPT !.pc = "status", !.on = {}, !.off = {}]]
    /\ UNCHANGED <<score, auto_rejudges, failures>>

(***************************************************************************)
(* update_submission_score.  get() raises when there are several reports.  *)
(***************************************************************************)
ReadStatus(e) ==
    /\ eval[e].pc = "status"
    /\ Cardinality(Active("initial")) <= 1
    /\ eval' = [eval EXCEPT ![e].pc = "score"]
    /\ UNCHANGED <<report, score, auto_rejudges, failures>>

ActiveNormal == {r \in Active("final") : report[r].kind = "NORMAL"}
ScoreOf(rs) == IF rs = {} THEN 0 ELSE CHOOSE r \in rs : TRUE

ReadScore(e) ==
    /\ eval[e].pc = "score"
    /\ Cardinality(ActiveNormal) <= 1
    /\ eval' = [eval EXCEPT ![e] = [@ EXCEPT !.pc = "save", !.found = ScoreOf(ActiveNormal)]]
    /\ UNCHANGED <<report, score, auto_rejudges, failures>>

\* The whole row is saved; the recipe goes on with the final tests or ends.
SaveScore(e) ==
    /\ eval[e].pc = "save"
    /\ score' = eval[e].found
    /\ eval' = [eval EXCEPT ![e] =
           IF eval[e].final
           THEN [@ EXCEPT !.pc = "report", !.stage = "final", !.final = FALSE, !.found = 0]
           ELSE [@ EXCEPT !.pc = "ended", !.found = 0]]
    /\ UNCHANGED <<report, auto_rejudges, failures>>

(***************************************************************************)
(* Failures roll back the transaction; the error handlers of the recipe    *)
(* follow, and nothing follows an error handler that raises.               *)
(***************************************************************************)
Undo(e) == IF eval[e].pc = "commitReport"
           THEN [report EXCEPT ![eval[e].latest].status = "undone"] ELSE report
Broken(e, pc) == [IdleEval EXCEPT !.pc = pc, !.stage = "failed", !.alone = eval[e].alone]
HandleErrors(e) == Broken(e, IF eval[e].stage = "failed" THEN "abandoned" ELSE "report")

Raises(e) ==
    /\ UnderWay(e)
    /\ failures < MaxFailures
    /\ failures' = failures + 1
    /\ report' = Undo(e)
    /\ eval' = [eval EXCEPT ![e] = HandleErrors(e)]
    /\ UNCHANGED <<score, auto_rejudges>>

\* MultipleObjectsReturned
FindsSeveral(e) ==
    /\ \/ eval[e].pc = "status" /\ Cardinality(Active("initial")) > 1
       \/ eval[e].pc = "score" /\ Cardinality(ActiveNormal) > 1
    /\ eval' = [eval EXCEPT ![e] = HandleErrors(e)]
    /\ UNCHANGED <<report, score, auto_rejudges, failures>>

WorkerDies(e) ==
    /\ UnderWay(e)
    /\ failures < MaxFailures
    /\ failures' = failures + 1
    /\ report' = Undo(e)
    /\ eval' = [eval EXCEPT ![e] = Broken(e, "abandoned")]
    /\ UNCHANGED <<score, auto_rejudges>>

Next == \E e \in Evaluations :
    \/ \E kinds \in ReportKinds : Judge(e, kinds)
    \/ MakeReport(e)
    \/ CommitReport(e)
    \/ LoadForRejudge(e)
    \/ \E new \in Evaluations \ {e}, kinds \in ReportKinds : SaveRejudge(e, new, kinds)
    \/ ChooseLatest(e)
    \/ LockLatest(e)
    \/ SnapshotActive(e)
    \/ \E r \in Ids : Supersede(e, r)
    \/ Activate(e)
    \/ CommitStatuses(e)
    \/ ReadStatus(e)
    \/ ReadScore(e)
    \/ SaveScore(e)
    \/ Raises(e)
    \/ FindsSeveral(e)
    \/ WorkerDies(e)

Spec == Init /\ [][Next]_vars

-----------------------------------------------------------------------------
(* Properties *)

\* Once a report of a group was made ACTIVE the group always has an ACTIVE
\* one, however the transactions of overlapping evaluations interleave.
SomeActive == \A g \in Groups :
    (\E r \in Of(g) : report[r].status \in {"ACTIVE", "SUPERSEDED"}) => Active(g) # {}

\* The evaluation that made the newest report of a group does not end before
\* that report was made ACTIVE, whatever others or failures happen meanwhile.
Newest(g) == {r \in Of(g) : Committed(r) /\ \A s \in Of(g) : Committed(s) => s <= r}
NewestActivated ==
    (\A e \in Evaluations : eval[e].pc \in {"idle", "ended"})
    => \A g \in Groups : \A r \in Newest(g) : report[r].status # "INACTIVE"

\* An evaluation that ran alone, although others may have overlapped before,
\* leaves the newest report of each group as the ACTIVE one and the score of
\* that report, or none beside a failure, in the submission.
AloneRepairs == \A e \in Evaluations :
    eval[e].pc = "ended" /\ eval[e].alone =>
        /\ \A g \in Groups : Active(g) = Newest(g)
        /\ score = ScoreOf(ActiveNormal)
=============================================================================
