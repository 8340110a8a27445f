------------------------------- MODULE Rejudging -------------------------------
(***************************************************************************)
(* The submissions to one problem of a contest, whose tests are replaced   *)
(* by re-uploads of its package.  A re-upload raises the flag              *)
(* needs_rejudge, which shows the administrator the action "Rejudge all    *)
(* submissions"; that action lowers the flag.  A rejudge judges all tests  *)
(* (FULL), those the submission was not judged on (NEW), or some of those  *)
(* it was (JUDGED), and keeps the results of the others                    *)
(* (oioioi/programs/handlers.py, contests/views.py, contests/admin.py,     *)
(* contests/handlers.py, problems/handlers.py, problems/utils.py).         *)
(*                                                                         *)
(* An upload is one step: its transaction ends with the whole replacement  *)
(* or with none.  All tests are active, and an evaluation makes one        *)
(* report: Reports has the kinds of reports and their statuses in detail.  *)
(***************************************************************************)
EXTENDS Naturals, SequencesExt

CONSTANTS
    Subs,            \* submissions
    Names,           \* names of tests
    MailAdmins,      \* settings.MAIL_ADMINS_ON_GRADING_ERROR
    MaxEvaluations,  \* bound: evaluations
    MaxUploads,      \* bound: re-uploads of the package
    MaxRequests,     \* bound: rejudges of single submissions
    MaxMishaps       \* bound: phases and transfers that raise, lost evaluations

ASSUME RejudgingAssumption ==
    /\ IsFiniteSet(Subs)
    /\ MailAdmins \in BOOLEAN
    /\ {MaxEvaluations, MaxUploads, MaxRequests, MaxMishaps} \subseteq Nat

VARIABLES
    tests,           \* the rows of Test: their names, and the upload they are from
    needs_rejudge,   \* ProblemInstance.needs_rejudge
    subs,            \* the submissions made
    newest,          \* the newest final report of each submission
    active,          \* the ACTIVE final report of each submission
    auto_rejudges,   \* Submission.auto_rejudges
    evaluation,      \* the evaluations, in the order they were queued
    view,            \* the request that rejudges all submissions
    requests,        \* counts what MaxRequests bounds
    mishaps,         \* counts what MaxMishaps bounds
    lapsed           \* history: submissions whose rejudge was lost, see FlagIsHonest

database == <<tests, needs_rejudge, subs, newest, active, auto_rejudges>>
vars == <<database, evaluation, view, requests, mishaps, lapsed>>

RejudgeTypes == {"FULL", "NEW", "JUDGED"}

\* A TestReport: the test it names, and the upload it was judged on.
Rows == [name : Names, upload : Nat]
Reports == [kind : {"none", "judged", "failed"}, rows : SUBSET Rows]
NoReport == [kind |-> "none", rows |-> {}]
Failure == [kind |-> "failed", rows |-> {}]

Evaluations ==
    [sub : Subs,
     type : RejudgeTypes,      \* extra_args['rejudge_type']
     some : SUBSET Names,      \* extra_args['tests_to_judge']
     pc : {"queued", "used", "fetch", "judge", "report", "failed", "rejudge", "handled",
           "statuses", "ended", "lost"},
     used : SUBSET Names,      \* tests_used
     judge : SUBSET Names,     \* the tests that are to_judge
     names : SUBSET Names,     \* env['tests'] ...
     upload : Nat,             \* ... and the upload they are from
     kept : SUBSET Rows]       \* the results of tests that are not to_judge

\* Every variable holds a value of its column, request or process.
TypeOK ==
    /\ tests \in [names : SUBSET Names, upload : Nat]
    /\ needs_rejudge \in BOOLEAN
    /\ subs \subseteq Subs
    /\ newest \in [Subs -> Reports]
    /\ active \in [Subs -> Reports]
    /\ auto_rejudges \in [Subs -> Nat]
    /\ evaluation \in Seq(Evaluations)
    /\ view \in [open : BOOLEAN, subs : SUBSET Subs]
    /\ requests \in Nat
    /\ mishaps \in Nat
    /\ lapsed \subseteq Subs

NoView == [open |-> FALSE, subs |-> {}]

Init ==
    /\ tests \in [names : (SUBSET Names) \ {{}}, upload : {0}]
    /\ needs_rejudge = FALSE
    /\ subs = {}
    /\ newest = [s \in Subs |-> NoReport]
    /\ active = [s \in Subs |-> NoReport]
    /\ auto_rejudges = [s \in Subs |-> 0]
    /\ evaluation = <<>>
    /\ view = NoView
    /\ requests = 0 /\ mishaps = 0
    /\ lapsed = {}

(***************************************************************************)
(* judge(): evaluations are queued in any transaction, and run after it.   *)
(* Room is left for the one rejudge of attempt_rejudge.                    *)
(***************************************************************************)
Queued(s, type, some) ==
    [sub |-> s, type |-> type, some |-> some, pc |-> "queued", used |-> {}, judge |-> {},
     names |-> {}, upload |-> 0, kept |-> {}]

\* All of the submissions in S, each from the loop of the view that judges.
QueuedAll(S, type) == [i \in 1 .. Cardinality(S) |-> Queued(SetToSeq(S)[i], type, {})]

AutoRejudgesLeft == IF MailAdmins THEN Cardinality({s \in Subs : auto_rejudges[s] = 0}) ELSE 0
RoomFor(n) == Len(evaluation) + n + AutoRejudgesLeft <= MaxEvaluations

Submit(s) ==
    /\ s \notin subs /\ RoomFor(1)
    /\ subs' = subs \cup {s}
    /\ evaluation' = Append(evaluation, Queued(s, "FULL", {}))
    /\ UNCHANGED <<tests, needs_rejudge, newest, active, auto_rejudges, view, requests, mishaps,
                   lapsed>>

\* SubmissionAdmin.rejudge_view
Rejudge(s, type, some) ==
    /\ s \in subs /\ requests < MaxRequests /\ RoomFor(1)
    /\ active[s].kind # "none" \/ type = "FULL"
    /\ requests' = requests + 1
    /\ evaluation' = Append(evaluation, Queued(s, type, some))
    /\ UNCHANGED <<database, view, mishaps, lapsed>>

\* What an open request to rejudge all submissions did not find: an upload
\* that commits now has its flag lowered by the request, and they are not
\* among what it rejudges.
Missed == IF view.open THEN subs \ view.subs ELSE {}

(***************************************************************************)
(* Slips that the properties below are meant to catch; not part of the     *)
(* specification.                                                          *)
(***************************************************************************)
\* The tests are replaced, the flag is left to the administrator.
UploadQuietly(names) ==
    /\ tests.upload < MaxUploads
    /\ tests' = [names |-> names, upload |-> tests.upload + 1]
    /\ lapsed' = lapsed \cup Missed
    /\ UNCHANGED <<needs_rejudge, subs, newest, active, auto_rejudges, evaluation, view,
                   requests, mishaps>>

\* All submissions: those that failed.
CommitRejudgeFailed ==
    LET failed == {s \in view.subs : active[s].kind = "failed"}
    IN  /\ view.open /\ RoomFor(Cardinality(failed))
        /\ evaluation' = evaluation \o QueuedAll(failed, "FULL")
        /\ needs_rejudge' = FALSE
        /\ view' = NoView
        /\ lapsed' = lapsed \ view.subs
        /\ UNCHANGED <<tests, subs, newest, active, auto_rejudges, requests, mishaps>>

\* The results of the tests that are kept get a 'stderr'.
ReportableWithKept(e) == evaluation[e].names = {} \/ evaluation[e].upload = tests.upload

(***************************************************************************)
(* rejudge_all_submissions_for_problem_view finds the submissions, judges  *)
(* them and saves the flag, in one transaction.                            *)
(***************************************************************************)
OpenRejudgeAll ==
    /\ needs_rejudge /\ ~view.open
    /\ RoomFor(Cardinality(subs))
    /\ view' = [open |-> TRUE, subs |-> subs]
    /\ UNCHANGED <<database, evaluation, requests, mishaps, lapsed>>

CommitRejudgeAll ==
    /\ view.open /\ RoomFor(Cardinality(view.subs))
    /\ evaluation' = evaluation \o QueuedAll(view.subs, "FULL")
    /\ needs_rejudge' = FALSE
    /\ view' = NoView
    /\ lapsed' = lapsed \ view.subs
    /\ UNCHANGED <<tests, subs, newest, active, auto_rejudges, requests, mishaps>>

\* The messages of the evaluations are not rolled back.
RollBackRejudgeAll ==
    /\ view.open /\ RoomFor(Cardinality(view.subs))
    /\ \E sent \in SUBSET view.subs : evaluation' = evaluation \o QueuedAll(sent, "FULL")
    /\ view' = NoView
    /\ UNCHANGED <<database, requests, mishaps, lapsed>>

(***************************************************************************)
(* A re-upload: unpackmgr_job unpacks the package and                      *)
(* update_all_probleminstances_after_reupload replaces the tests.          *)
(***************************************************************************)
Upload(names) ==
    /\ tests.upload < MaxUploads
    /\ tests' = [names |-> names, upload |-> tests.upload + 1]
    /\ needs_rejudge' = TRUE
    /\ lapsed' = lapsed \cup Missed
    /\ UNCHANGED <<subs, newest, active, auto_rejudges, evaluation, view, requests, mishaps>>

(***************************************************************************)
(* An evaluation.  collect_tests is one transaction, and each statement    *)
(* sees what is committed when it runs: a FULL one reads the tests; a      *)
(* partial one first the names of the ACTIVE report's tests, a NEW one     *)
(* then the names of the other tests, and at last the tests.               *)
(***************************************************************************)
Set(e, ev) == evaluation' = [evaluation EXCEPT ![e] = ev]
Unchanged == UNCHANGED <<database, view, requests, mishaps, lapsed>>
Has(e, pc) == evaluation[e].pc = pc
Cleared(ev, pc) == [Queued(ev.sub, ev.type, {}) EXCEPT !.pc = pc]

NamesOf(r) == {row.name : row \in r.rows}

CollectFull(e) ==
    LET ev == evaluation[e]
    IN  /\ Has(e, "queued") /\ ev.type = "FULL"
        /\ Set(e, [ev EXCEPT !.pc = "judge", !.judge = tests.names, !.names = tests.names,
                             !.upload = tests.upload])
        /\ Unchanged

ReadUsed(e) ==
    LET ev == evaluation[e]  used == NamesOf(active[ev.sub])
    IN  /\ Has(e, "queued")
        /\ \/ /\ ev.type = "NEW"
              /\ Set(e, [ev EXCEPT !.pc = "used", !.used = used])
           \/ /\ ev.type = "JUDGED"
              /\ Set(e, [ev EXCEPT !.pc = "fetch", !.some = {}, !.used = used,
                                   !.judge = ev.some \cap used])
        /\ Unchanged

SelectNew(e) ==
    LET ev == evaluation[e]
    IN  /\ Has(e, "used")
        /\ Set(e, [ev EXCEPT !.pc = "fetch", !.judge = tests.names \ ev.used])
        /\ Unchanged

\* A test to judge that is not among the tests any more is a KeyError.
Fetch(e) ==
    LET ev == evaluation[e]
        names == IF ev.type = "JUDGED" THEN tests.names \cap ev.used ELSE tests.names
    IN  /\ Has(e, "fetch")
        /\ Set(e, IF ev.judge \subseteq names
                  THEN [ev EXCEPT !.pc = "judge", !.used = {}, !.names = names,
                             !.upload = tests.upload]
                  ELSE Cleared(ev, "failed"))
        /\ Unchanged

\* run_tests and grade_tests: judged is judged; for a test that is kept the
\* result is looked up in the ACTIVE report.
Judge(e) ==
    LET ev == evaluation[e]
        keep == ev.names \ ev.judge
        kept == {row \in active[ev.sub].rows : row.name \in keep}
    IN  /\ Has(e, "judge")
        /\ Set(e, IF {row.name : row \in kept} = keep
                  THEN [ev EXCEPT !.pc = "report", !.kept = kept]
                  ELSE Cleared(ev, "failed"))
        /\ Unchanged

\* make_report: the result of a test that was kept has no 'stderr', and the
\* foreign keys are checked when the transaction commits.
Reportable(e) ==
    /\ evaluation[e].kept = {}
    /\ evaluation[e].names = {} \/ evaluation[e].upload = tests.upload

MakeReport(e) ==
    LET ev == evaluation[e]
        judged == {[name |-> n, upload |-> ev.upload] : n \in ev.judge}
    IN  /\ Has(e, "report")
        /\ \/ /\ Reportable(e)
              /\ newest' = [newest EXCEPT ![ev.sub] = [kind |-> "judged", rows |-> judged \cup ev.kept]]
              /\ Set(e, Cleared(ev, "statuses"))
           \/ /\ ~Reportable(e)
              /\ Set(e, Cleared(ev, "failed"))
              /\ UNCHANGED newest
        /\ UNCHANGED <<tests, needs_rejudge, subs, active, auto_rejudges, view, requests, mishaps,
                       lapsed>>

\* create_error_report
MakeErrorReport(e) ==
    /\ Has(e, "failed")
    /\ newest' = [newest EXCEPT ![evaluation[e].sub] = Failure]
    /\ Set(e, [evaluation[e] EXCEPT !.pc = IF MailAdmins THEN "rejudge" ELSE "handled"])
    /\ UNCHANGED <<tests, needs_rejudge, subs, active, auto_rejudges, view, requests, mishaps,
                   lapsed>>

AttemptRejudge(e) ==
    LET s == evaluation[e].sub
        next == [evaluation EXCEPT ![e].pc = "handled"]
    IN  /\ Has(e, "rejudge")
        /\ \/ /\ auto_rejudges[s] < 1
              /\ auto_rejudges' = [auto_rejudges EXCEPT ![s] = @ + 1]
              /\ evaluation' = Append(next, Queued(s, "FULL", {}))
           \/ /\ auto_rejudges[s] >= 1
              /\ evaluation' = next
              /\ UNCHANGED auto_rejudges
        /\ UNCHANGED <<tests, needs_rejudge, subs, newest, active, view, requests, mishaps, lapsed>>

\* update_report_statuses, and the steps after it, in the recipe or among the
\* error handlers
UpdateStatuses(e) ==
    LET s == evaluation[e].sub
    IN  /\ Has(e, "statuses") \/ Has(e, "handled")
        /\ active' = [active EXCEPT ![s] = newest[s]]
        /\ Set(e, Cleared(evaluation[e], "ended"))
        /\ UNCHANGED <<tests, needs_rejudge, subs, newest, auto_rejudges, view, requests, mishaps,
                       lapsed>>

Pending(e) == evaluation[e].pc \notin {"ended", "lost"}

\* A phase of the recipe raises and the error handlers run.  Transfers are
\* not among these phases, see below.
Raise(e) ==
    /\ evaluation[e].pc \in {"queued", "used", "fetch", "judge", "report", "statuses"}
    /\ mishaps < MaxMishaps
    /\ mishaps' = mishaps + 1
    /\ Set(e, Cleared(evaluation[e], "failed"))
    /\ UNCHANGED <<database, view, requests, lapsed>>

\* The transfer of compile, before the tests are collected, or that of
\* run_tests raises.  It has deleted the error handlers from the environ, so
\* there is neither a FAILURE report nor an automatic rejudge.
TransferRaises(e) ==
    /\ Has(e, "queued") \/ Has(e, "judge")
    /\ mishaps < MaxMishaps
    /\ mishaps' = mishaps + 1
    /\ lapsed' = lapsed \cup {evaluation[e].sub}
    /\ Set(e, Cleared(evaluation[e], "lost"))
    /\ UNCHANGED <<database, view, requests>>

\* The worker dies, or an error handler raises.
Lose(e) ==
    /\ Pending(e) /\ mishaps < MaxMishaps
    /\ mishaps' = mishaps + 1
    /\ lapsed' = lapsed \cup {evaluation[e].sub}
    /\ Set(e, Cleared(evaluation[e], "lost"))
    /\ UNCHANGED <<database, view, requests>>

Step(e) ==
    \/ CollectFull(e) \/ ReadUsed(e) \/ SelectNew(e) \/ Fetch(e)
    \/ Judge(e)
    \/ MakeReport(e)
    \/ MakeErrorReport(e) \/ AttemptRejudge(e)
    \/ UpdateStatuses(e)

Next ==
    \/ \E s \in Subs : Submit(s)
    \/ \E s \in Subs, type \in {"FULL", "NEW"} : Rejudge(s, type, {})
    \/ \E s \in Subs, some \in SUBSET Names : Rejudge(s, "JUDGED", some)
    \/ OpenRejudgeAll
    \/ CommitRejudgeAll
    \/ RollBackRejudgeAll
    \/ \E names \in (SUBSET Names) \ {{}} : Upload(names)
    \/ \E e \in 1 .. Len(evaluation) :
            Step(e) \/ Raise(e) \/ TransferRaises(e) \/ Lose(e)

Spec == Init /\ [][Next]_vars

\* A worker runs every evaluation that was queued.
Evaluates(e) == e \in 1 .. Len(evaluation) /\ Step(e)
FairSpec == Spec /\ \A e \in 1 .. MaxEvaluations : WF_vars(Evaluates(e))

-----------------------------------------------------------------------------
(* Properties *)

\* A report that is made shows results on the present tests only, neither on
\* tests that were replaced while it was judged nor, beside newer ones, from
\* an earlier report.
JudgedOnCurrent == [][\A s \in Subs :
    newest'[s] # newest[s] => \A row \in newest'[s].rows : row.upload = tests.upload]_vars

\* While the flag is down no submission is left judged on old tests: what
\* rejudges it is on its way.  The exceptions are lapsed, until they are
\* rejudged with all submissions: a submission that an upload found judged
\* while a request that does not know it rejudges all, and lowers the upload's
\* flag (Missed); and one of which an evaluation was lost, as its worker died,
\* an error handler raised, or a transfer raised without error handlers.
Outdated(s) == \E row \in active[s].rows : row.upload < tests.upload
FlagIsHonest ==
    ~needs_rejudge =>
        \A s \in subs \ lapsed : Outdated(s) =>
            \E e \in 1 .. Len(evaluation) : Pending(e) /\ evaluation[e].sub = s

\* After all submissions were rejudged none stays judged on old tests,
\* whichever phases of its evaluations raise with their error handlers in
\* place, unless there is another upload or one of its own evaluations is
\* lost, as by a transfer that raises.
AllRejudged == \A s \in Subs :
    (~needs_rejudge /\ s \notin lapsed) ~> (needs_rejudge \/ s \in lapsed \/ ~Outdated(s))
=============================================================================
