-------------------------- MODULE Rejudging_proofs --------------------------
(***************************************************************************)
(* Proofs about rejudging and replaced tests, for any numbers of           *)
(* submissions, tests, uploads, rejudges and failures.                     *)
(***************************************************************************)
EXTENDS Rejudging, FiniteSetTheorems, TLAPS

(***************************************************************************)
(* Types                                                                   *)
(***************************************************************************)
LEMMA QueuedType ==
    ASSUME NEW s \in Subs, NEW type \in RejudgeTypes, NEW some \in SUBSET Names
    PROVE  Queued(s, type, some) \in Evaluations
BY DEF Queued, Evaluations

LEMMA ClearedType ==
    ASSUME NEW ev \in Evaluations, NEW pc \in {"failed", "statuses", "ended", "lost"}
    PROVE  Cleared(ev, pc) \in Evaluations
BY QueuedType DEF Cleared, Queued, Evaluations

\* One evaluation is queued for each submission of the set.
LEMMA QueuedAllEach ==
    ASSUME NEW S \in SUBSET Subs, NEW type \in RejudgeTypes
    PROVE  /\ Cardinality(S) \in Nat
           /\ QueuedAll(S, type) \in Seq(Evaluations)
           /\ Len(QueuedAll(S, type)) = Cardinality(S)
           /\ \A s \in S : \E i \in 1 .. Cardinality(S) :
                QueuedAll(S, type)[i] = Queued(s, type, {})
           /\ \A i \in 1 .. Cardinality(S) : \E s \in S :
                QueuedAll(S, type)[i] = Queued(s, type, {})
<1>1. IsFiniteSet(S)
  BY RejudgingAssumption, FS_Subset
<1>2. Cardinality(S) \in Nat /\ ExistsBijection(1 .. Cardinality(S), S)
  BY <1>1, FS_CardinalityType
<1>3. PICK f : f \in Bijection(1 .. Cardinality(S), S)
  BY <1>2 DEF ExistsBijection
<1>4. f \in [1 .. Cardinality(S) -> S] /\ IsInjective(f)
  BY <1>3 DEF Bijection, Injection
<1>5. /\ SetToSeq(S) \in [1 .. Cardinality(S) -> S]
      /\ IsInjective(SetToSeq(S))
  BY <1>4 DEF SetToSeq
<1>6. SetToSeq(S) \in Surjection(1 .. Cardinality(S), S)
  <2>1. SetToSeq(S) \in Injection(1 .. Cardinality(S), S)
    BY <1>5 DEF Injection
  <2>2. Cardinality(1 .. Cardinality(S)) = Cardinality(S)
    BY <1>2, FS_Interval
  <2> QED
    BY <2>1, <2>2, <1>1, FS_Injection
<1>7. \A s \in S : \E i \in 1 .. Cardinality(S) : SetToSeq(S)[i] = s
  BY <1>6 DEF Surjection
<1>8. \A s \in S : Queued(s, type, {}) \in Evaluations
  BY QueuedType
<1>9. QueuedAll(S, type) \in [1 .. Cardinality(S) -> Evaluations]
  BY <1>5, <1>8 DEF QueuedAll
<1>10. QueuedAll(S, type) \in Seq(Evaluations) /\ Len(QueuedAll(S, type)) = Cardinality(S)
  BY <1>9, <1>2
<1>11. \A i \in 1 .. Cardinality(S) : QueuedAll(S, type)[i] = Queued(SetToSeq(S)[i], type, {})
  BY DEF QueuedAll
<1> QED
  BY <1>2, <1>5, <1>7, <1>10, <1>11

LEMMA InitTypes == Init => TypeOK
<1> SUFFICES ASSUME Init PROVE TypeOK
  OBVIOUS
<1>1. NoReport \in Reports
  BY DEF NoReport, Reports
<1>2. newest \in [Subs -> Reports] /\ active \in [Subs -> Reports]
  BY <1>1 DEF Init
<1>3. tests \in [names : SUBSET Names, upload : Nat] /\ evaluation \in Seq(Evaluations)
  BY DEF Init
<1> QED
  BY <1>2, <1>3 DEF Init, TypeOK, NoView

\* A step that changes one evaluation keeps the sequence of them.
LEMMA SetType ==
    ASSUME evaluation \in Seq(Evaluations), NEW e \in 1 .. Len(evaluation),
           NEW ev \in Evaluations, Set(e, ev)
    PROVE  /\ evaluation' \in Seq(Evaluations)
           /\ Len(evaluation') = Len(evaluation)
           /\ evaluation'[e] = ev
           /\ \A i \in 1 .. Len(evaluation) : i # e => evaluation'[i] = evaluation[i]
BY DEF Set

LEMMA NextTypes == TypeOK /\ [Next]_vars => TypeOK'
<1> SUFFICES ASSUME TypeOK, [Next]_vars PROVE TypeOK'
  OBVIOUS
<1>0. evaluation \in Seq(Evaluations)
  BY DEF TypeOK
<1>1. CASE UNCHANGED vars
  BY <1>1 DEF vars, database, TypeOK
<1>2. ASSUME NEW s \in Subs, Submit(s) PROVE TypeOK'
  <2>1. Queued(s, "FULL", {}) \in Evaluations
    BY QueuedType DEF RejudgeTypes
  <2> QED
    BY <1>2, <2>1 DEF Submit, TypeOK
<1>3. ASSUME NEW s \in Subs, NEW type \in RejudgeTypes, NEW some \in SUBSET Names,
             Rejudge(s, type, some)
      PROVE  TypeOK'
  <2>1. Queued(s, type, some) \in Evaluations
    BY QueuedType
  <2> QED
    BY <1>3, <2>1 DEF Rejudge, TypeOK, database
<1>4. CASE OpenRejudgeAll
  BY <1>4 DEF OpenRejudgeAll, TypeOK, database
<1>5. CASE CommitRejudgeAll
  <2>1. QueuedAll(view.subs, "FULL") \in Seq(Evaluations)
    BY QueuedAllEach DEF TypeOK, RejudgeTypes
  <2>2. evaluation' \in Seq(Evaluations)
    BY <1>5, <1>0, <2>1 DEF CommitRejudgeAll
  <2> QED
    BY <1>5, <2>2 DEF CommitRejudgeAll, TypeOK, NoView
<1>6. CASE RollBackRejudgeAll
  <2>1. PICK sent \in SUBSET view.subs : evaluation' = evaluation \o QueuedAll(sent, "FULL")
    BY <1>6 DEF RollBackRejudgeAll
  <2>2. QueuedAll(sent, "FULL") \in Seq(Evaluations)
    BY QueuedAllEach DEF TypeOK, RejudgeTypes
  <2>3. evaluation' \in Seq(Evaluations)
    BY <1>0, <2>1, <2>2
  <2> QED
    BY <1>6, <2>3 DEF RollBackRejudgeAll, TypeOK, NoView, database
<1>7. ASSUME NEW names \in SUBSET Names, Upload(names) PROVE TypeOK'
  BY <1>7 DEF Upload, TypeOK, Missed
<1>8. ASSUME NEW e \in 1 .. Len(evaluation), Step(e) \/ Raise(e) \/ TransferRaises(e) \/ Lose(e)
      PROVE  TypeOK'
  <2> DEFINE ev == evaluation[e]
  <2>0. ev \in Evaluations
    BY <1>0
  <2>00. /\ ev.sub \in Subs /\ ev.type \in RejudgeTypes
         /\ active[ev.sub] \in Reports /\ newest[ev.sub] \in Reports
         /\ NamesOf(active[ev.sub]) \subseteq Names
    BY <2>0 DEF Evaluations, TypeOK, Reports, Rows, NamesOf
  <2>h. ASSUME NEW x \in Evaluations, Set(e, x), Unchanged PROVE TypeOK'
    <3>1. evaluation' \in Seq(Evaluations)
      BY <2>h, <1>0, SetType
    <3> QED
      BY <2>h, <3>1 DEF Unchanged, TypeOK, database
  <2> HIDE DEF ev
  <2>1. CASE CollectFull(e)
    <3>1. [ev EXCEPT !.pc = "judge", !.judge = tests.names, !.names = tests.names,
                     !.upload = tests.upload] \in Evaluations
      BY <2>0 DEF TypeOK, Evaluations
    <3> QED
      BY <2>1, <2>h, <3>1 DEF CollectFull, ev
  <2>2. CASE ReadUsed(e)
    <3> DEFINE used == NamesOf(active[ev.sub])
    <3>1. /\ [ev EXCEPT !.pc = "used", !.used = used] \in Evaluations
          /\ [ev EXCEPT !.pc = "fetch", !.some = {}, !.used = used,
                        !.judge = ev.some \cap used] \in Evaluations
      BY <2>0, <2>00 DEF Evaluations
    <3> QED
      BY <2>2, <2>h, <3>1 DEF ReadUsed, ev
  <2>3. CASE SelectNew(e)
    <3>1. [ev EXCEPT !.pc = "fetch", !.judge = tests.names \ ev.used] \in Evaluations
      BY <2>0 DEF Evaluations, TypeOK
    <3> QED
      BY <2>3, <2>h, <3>1 DEF SelectNew, ev
  <2>4. CASE Fetch(e)
    <3> DEFINE names == IF ev.type = "JUDGED" THEN tests.names \cap ev.used ELSE tests.names
    <3>1. names \subseteq Names /\ tests.upload \in Nat
      BY DEF TypeOK
    <3>2. [ev EXCEPT !.pc = "judge", !.used = {}, !.names = names, !.upload = tests.upload]
            \in Evaluations
      BY <2>0, <3>1 DEF Evaluations
    <3>3. Cleared(ev, "failed") \in Evaluations
      BY <2>0, ClearedType
    <3> QED
      BY <2>4, <2>h, <3>2, <3>3 DEF Fetch, ev
  <2>5. CASE Judge(e)
    <3> DEFINE keep == ev.names \ ev.judge
               kept == {row \in active[ev.sub].rows : row.name \in keep}
    <3>1. kept \subseteq Rows
      BY <2>00 DEF Reports
    <3>2. [ev EXCEPT !.pc = "report", !.kept = kept] \in Evaluations
      BY <2>0, <3>1 DEF Evaluations
    <3>3. Cleared(ev, "failed") \in Evaluations
      BY <2>0, ClearedType
    <3> QED
      BY <2>5, <2>h, <3>2, <3>3 DEF Judge, ev
  <2>6. CASE MakeReport(e)
    <3> DEFINE judged == {[name |-> n, upload |-> ev.upload] : n \in ev.judge}
    <3>1. [kind |-> "judged", rows |-> judged \cup ev.kept] \in Reports
      BY <2>0 DEF Evaluations, Reports, Rows
    <3>2. newest' \in [Subs -> Reports]
      BY <2>6, <3>1, <2>00 DEF MakeReport, TypeOK, ev
    <3>3. Cleared(ev, "failed") \in Evaluations /\ Cleared(ev, "statuses") \in Evaluations
      BY <2>0, ClearedType
    <3>4. evaluation' \in Seq(Evaluations)
      BY <2>6, <3>3, <1>0, SetType DEF MakeReport, ev
    <3> QED
      BY <2>6, <3>2, <3>4 DEF MakeReport, TypeOK
  <2>7. CASE MakeErrorReport(e)
    <3>1. newest' \in [Subs -> Reports]
      BY <2>7, <2>00 DEF MakeErrorReport, TypeOK, Failure, Reports, ev
    <3>2. [ev EXCEPT !.pc = IF MailAdmins THEN "rejudge" ELSE "handled"] \in Evaluations
      BY <2>0 DEF Evaluations
    <3>3. evaluation' \in Seq(Evaluations)
      BY <2>7, <3>2, <1>0, SetType DEF MakeErrorReport, ev
    <3> QED
      BY <2>7, <3>1, <3>3 DEF MakeErrorReport, TypeOK
  <2>8. CASE AttemptRejudge(e)
    <3> DEFINE next == [evaluation EXCEPT ![e].pc = "handled"]
    <3>1. [ev EXCEPT !.pc = "handled"] \in Evaluations
      BY <2>0 DEF Evaluations
    <3>2. next \in Seq(Evaluations)
      BY <3>1, <1>0 DEF ev
    <3>3. Queued(ev.sub, "FULL", {}) \in Evaluations
      BY <2>00, QueuedType DEF RejudgeTypes
    <3>4. Append(next, Queued(ev.sub, "FULL", {})) \in Seq(Evaluations)
      BY <3>2, <3>3
    <3>5. evaluation' \in Seq(Evaluations)
      BY <2>8, <3>2, <3>4 DEF AttemptRejudge, ev
    <3>6. auto_rejudges' \in [Subs -> Nat]
      BY <2>8, <2>00 DEF AttemptRejudge, TypeOK, ev
    <3> QED
      BY <2>8, <3>5, <3>6 DEF AttemptRejudge, TypeOK
  <2>9. CASE UpdateStatuses(e)
    <3>1. active' \in [Subs -> Reports]
      BY <2>9, <2>00 DEF UpdateStatuses, TypeOK, ev
    <3>2. Cleared(ev, "ended") \in Evaluations
      BY <2>0, ClearedType
    <3>3. evaluation' \in Seq(Evaluations)
      BY <2>9, <3>2, <1>0, SetType DEF UpdateStatuses, ev
    <3> QED
      BY <2>9, <3>1, <3>3 DEF UpdateStatuses, TypeOK
  <2>10. CASE Raise(e)
    <3>1. Cleared(ev, "failed") \in Evaluations
      BY <2>0, ClearedType
    <3>2. evaluation' \in Seq(Evaluations)
      BY <2>10, <3>1, <1>0, SetType DEF Raise, ev
    <3> QED
      BY <2>10, <3>2 DEF Raise, TypeOK, database
  <2>11. CASE TransferRaises(e) \/ Lose(e)
    <3>1. Cleared(ev, "lost") \in Evaluations
      BY <2>0, ClearedType
    <3>2. evaluation' \in Seq(Evaluations)
      BY <2>11, <3>1, <1>0, SetType DEF TransferRaises, Lose, ev
    <3>3. lapsed' \subseteq Subs
      BY <2>11, <2>00 DEF TransferRaises, Lose, TypeOK, ev
    <3> QED
      BY <2>11, <3>2, <3>3 DEF TransferRaises, Lose, TypeOK, database
  <2> QED
    BY <1>8, <2>1, <2>2, <2>3, <2>4, <2>5, <2>6, <2>7, <2>8, <2>9, <2>10, <2>11 DEF Step
<1> QED
  BY <1>1, <1>2, <1>3, <1>4, <1>5, <1>6, <1>7, <1>8 DEF Next, RejudgeTypes

\* Type correctness: whatever is judged, replaced, rejudged or lost, and when,
\* every table and evaluation has values of its type.
THEOREM TypeCorrect == Spec => []TypeOK
BY InitTypes, NextTypes, PTL DEF Spec

(***************************************************************************)
(* What is judged is among the tests that were fetched.                    *)
(***************************************************************************)
JudgesFetched == \A e \in 1 .. Len(evaluation) :
    evaluation[e].pc \in {"judge", "report"} => evaluation[e].judge \subseteq evaluation[e].names

\* A new report has rows of the present tests only.
LEMMA ReportIsCurrent ==
    ASSUME TypeOK, JudgesFetched, NEW e \in 1 .. Len(evaluation), MakeReport(e), Reportable(e),
           NEW row \in newest'[evaluation[e].sub].rows
    PROVE  row.upload = tests.upload
<1> DEFINE ev == evaluation[e]
           judged == {[name |-> n, upload |-> ev.upload] : n \in ev.judge}
<1>1. ev \in Evaluations
  BY DEF TypeOK
<1>2. /\ Reportable(e)
      /\ newest' = [newest EXCEPT ![ev.sub] = [kind |-> "judged", rows |-> judged \cup ev.kept]]
  BY DEF MakeReport
<1>3. newest'[ev.sub].rows = judged \cup ev.kept
  BY <1>1, <1>2 DEF TypeOK, Evaluations
<1>4. ev.kept = {} /\ (ev.names = {} \/ ev.upload = tests.upload)
  BY <1>2 DEF Reportable
<1>5. ev.judge \subseteq ev.names
  BY DEF JudgesFetched, MakeReport, Has
<1> QED
  BY <1>3, <1>4, <1>5

(***************************************************************************)
(* The inductive invariant.  Evaluations and the view name submissions     *)
(* that were made, and the others have no report.                          *)
(***************************************************************************)
Known ==
    /\ \A e \in 1 .. Len(evaluation) : evaluation[e].sub \in subs
    /\ \A s \in Subs \ subs : newest[s] = NoReport /\ active[s] = NoReport
    /\ view.subs \subseteq subs

(***************************************************************************)
(* FlagIsHonest alone is not inductive: a report on old tests may be the   *)
(* newest and not yet the ACTIVE one, and then the evaluation that makes   *)
(* it ACTIVE is not the one that rejudges.  There must be another one that *)
(* has its report still to make.  And a submission that was made after the *)
(* request to rejudge all of them found its own is not on old tests.       *)
(***************************************************************************)
Stale(r) == \E row \in r.rows : row.upload < tests.upload
ToReport(e) == evaluation[e].pc \in {"queued", "used", "fetch", "judge", "report", "failed"}
Rejudged(s) == \E e \in 1 .. Len(evaluation) : ToReport(e) /\ evaluation[e].sub = s
UnderWay(s) == \E e \in 1 .. Len(evaluation) : Pending(e) /\ evaluation[e].sub = s

StaleIsRejudged ==
    ~needs_rejudge => \A s \in subs \ lapsed : Stale(newest[s]) => Rejudged(s)
StaleIsUnderWay ==
    ~needs_rejudge => \A s \in subs \ lapsed : Stale(active[s]) => UnderWay(s)
LateIsCurrent ==
    view.open =>
        \A s \in (subs \ view.subs) \ lapsed : ~Stale(newest[s]) /\ ~Stale(active[s])
Flags == StaleIsRejudged /\ StaleIsUnderWay /\ LateIsCurrent

IInv == TypeOK /\ JudgesFetched /\ Known /\ Flags

LEMMA InitIInv == Init => IInv
<1> SUFFICES ASSUME Init PROVE IInv
  OBVIOUS
<1>1. TypeOK
  BY InitTypes
<1>2. JudgesFetched /\ Known
  BY DEF Init, JudgesFetched, Known, NoView
<1>3. Flags
  BY DEF Init, Flags, StaleIsRejudged, StaleIsUnderWay, LateIsCurrent, NoView
<1> QED
  BY <1>1, <1>2, <1>3 DEF IInv

(***************************************************************************)
(* JudgesFetched and Known                                                 *)
(***************************************************************************)
\* An evaluation changes its own state, or queues others.
LEMMA AppendType ==
    ASSUME NEW s \in Seq(Evaluations), NEW t \in Seq(Evaluations), NEW u, u = s \o t
    PROVE  /\ u \in Seq(Evaluations)
           /\ Len(u) = Len(s) + Len(t)
           /\ \A i \in 1 .. Len(s) : u[i] = s[i]
           /\ \A i \in 1 .. Len(t) : u[Len(s) + i] = t[i]
           /\ \A i \in 1 .. Len(u) : i \in 1 .. Len(s) \/ \E j \in 1 .. Len(t) : u[i] = t[j]
<1>1. /\ u \in Seq(Evaluations)
      /\ Len(u) = Len(s) + Len(t) /\ Len(s) \in Nat /\ Len(t) \in Nat
      /\ \A i \in 1 .. Len(u) : u[i] = IF i <= Len(s) THEN s[i] ELSE t[i - Len(s)]
  OBVIOUS
<1>2. ASSUME NEW i \in 1 .. Len(u), i \notin 1 .. Len(s)
      PROVE  \E j \in 1 .. Len(t) : u[i] = t[j]
  <2>1. i - Len(s) \in 1 .. Len(t)
    BY <1>1, <1>2
  <2>2. u[i] = t[i - Len(s)]
    BY <1>1, <1>2
  <2> QED
    BY <2>1, <2>2
<1>3. /\ \A i \in 1 .. Len(s) : u[i] = s[i]
      /\ \A i \in 1 .. Len(t) : u[Len(s) + i] = t[i]
  BY <1>1
<1> QED
  BY <1>1, <1>2, <1>3

\* Where the evaluations queued by a step come from.
LEMMA Appended ==
    ASSUME TypeOK, TypeOK', JudgesFetched, Known, subs \subseteq subs',
           NEW t \in Seq(Evaluations), evaluation' = evaluation \o t,
           \A i \in 1 .. Len(t) : t[i].pc = "queued" /\ t[i].sub \in subs'
    PROVE  /\ JudgesFetched'
           /\ \A e \in 1 .. Len(evaluation') : evaluation'[e].sub \in subs'
<1>1. evaluation \in Seq(Evaluations)
  BY DEF TypeOK
<1>2. /\ \A i \in 1 .. Len(evaluation) : evaluation'[i] = evaluation[i]
      /\ \A i \in 1 .. Len(evaluation') :
            i \in 1 .. Len(evaluation) \/ \E j \in 1 .. Len(t) : evaluation'[i] = t[j]
  <2>1. PICK s \in Seq(Evaluations) : s = evaluation
    BY <1>1
  <2>2. PICK u : u = evaluation'
    OBVIOUS
  <2>3. u = s \o t
    BY <2>1, <2>2
  <2>4. /\ \A i \in 1 .. Len(s) : u[i] = s[i]
        /\ \A i \in 1 .. Len(u) : i \in 1 .. Len(s) \/ \E j \in 1 .. Len(t) : u[i] = t[j]
    BY <2>3, AppendType
  <2> QED
    BY <2>1, <2>2, <2>4
<1>3. ASSUME NEW e \in 1 .. Len(evaluation')
      PROVE  /\ evaluation'[e].sub \in subs'
             /\ evaluation'[e].pc \in {"judge", "report"}
                    => evaluation'[e].judge \subseteq evaluation'[e].names
  <2>1. CASE e \in 1 .. Len(evaluation)
    BY <2>1, <1>2 DEF JudgesFetched, Known
  <2>2. CASE e \notin 1 .. Len(evaluation)
    <3>1. PICK j \in 1 .. Len(t) : evaluation'[e] = t[j]
      BY <1>2, <2>2
    <3> QED
      BY <3>1
  <2> QED
    BY <2>1, <2>2
<1> QED
  BY <1>3 DEF JudgesFetched

LEMMA OneSet ==
    ASSUME TypeOK, JudgesFetched, Known, NEW e \in 1 .. Len(evaluation),
           NEW ev \in Evaluations, Set(e, ev), ev.sub = evaluation[e].sub, UNCHANGED subs,
           ev.pc \in {"judge", "report"} => ev.judge \subseteq ev.names
    PROVE  /\ JudgesFetched'
           /\ \A i \in 1 .. Len(evaluation') : evaluation'[i].sub \in subs'
<1>1. /\ Len(evaluation') = Len(evaluation)
      /\ evaluation'[e] = ev
      /\ \A i \in 1 .. Len(evaluation) : i # e => evaluation'[i] = evaluation[i]
  BY SetType DEF TypeOK
<1>2. ASSUME NEW i \in 1 .. Len(evaluation')
      PROVE  /\ evaluation'[i].sub \in subs'
             /\ evaluation'[i].pc \in {"judge", "report"}
                    => evaluation'[i].judge \subseteq evaluation'[i].names
  <2>1. CASE i = e
    BY <2>1, <1>1 DEF Known
  <2>2. CASE i # e
    BY <2>2, <1>1 DEF Known, JudgesFetched
  <2> QED
    BY <2>1, <2>2
<1> QED
  BY <1>2 DEF JudgesFetched

LEMMA NextKnown == TypeOK /\ TypeOK' /\ JudgesFetched /\ Known /\ [Next]_vars
                     => JudgesFetched' /\ Known'
<1> SUFFICES ASSUME TypeOK, TypeOK', JudgesFetched, Known, [Next]_vars
             PROVE  JudgesFetched' /\ Known'
  OBVIOUS
<1> DEFINE Subsets == \A e \in 1 .. Len(evaluation') : evaluation'[e].sub \in subs'
           Blank == /\ \A s \in Subs \ subs' : newest'[s] = NoReport /\ active'[s] = NoReport
                    /\ view'.subs \subseteq subs'
<1>0. ASSUME Subsets, Blank PROVE Known'
  BY <1>0 DEF Known
<1>00. evaluation \in Seq(Evaluations) /\ subs \subseteq Subs
  BY DEF TypeOK
<1> HIDE DEF Subsets
<1>1. CASE UNCHANGED vars
  BY <1>1 DEF vars, database, Known, JudgesFetched
<1>2. ASSUME NEW s \in Subs, NEW type \in RejudgeTypes, NEW some \in SUBSET Names,
             subs' = subs \cup {s}, UNCHANGED <<newest, active, view>>,
             evaluation' = Append(evaluation, Queued(s, type, some))
      PROVE  JudgesFetched' /\ Known'
  <2> DEFINE t == <<Queued(s, type, some)>>
  <2>1. t \in Seq(Evaluations) /\ Len(t) = 1 /\ t[1] = Queued(s, type, some)
    BY QueuedType
  <2>2. evaluation' = evaluation \o t
    BY <1>2, <1>00, QueuedType
  <2>3. \A i \in 1 .. Len(t) : t[i].pc = "queued" /\ t[i].sub \in subs'
    BY <1>2, <2>1 DEF Queued
  <2> HIDE DEF t
  <2>4. JudgesFetched' /\ Subsets
    BY <1>2, <2>1, <2>2, <2>3, Appended DEF Subsets
  <2>5. Blank
    BY <1>2 DEF Known
  <2> QED
    BY <2>4, <2>5, <1>0
<1>3. ASSUME NEW S \in SUBSET subs, UNCHANGED <<subs, newest, active>>, view' = NoView,
             evaluation' = evaluation \o QueuedAll(S, "FULL")
      PROVE  JudgesFetched' /\ Known'
  <2> DEFINE t == QueuedAll(S, "FULL")
  <2>1. /\ t \in Seq(Evaluations)
        /\ \A i \in 1 .. Len(t) : \E s \in S : t[i] = Queued(s, "FULL", {})
    BY <1>00, QueuedAllEach DEF RejudgeTypes
  <2>3. evaluation' = evaluation \o t
    BY <1>3
  <2>6. \A s \in S : Queued(s, "FULL", {}).pc = "queued" /\ Queued(s, "FULL", {}).sub = s
    BY DEF Queued
  <2> HIDE DEF t
  <2>2. \A i \in 1 .. Len(t) : t[i].pc = "queued" /\ t[i].sub \in subs'
    BY <2>1, <2>6, <1>3
  <2>4. JudgesFetched' /\ Subsets
    BY <1>3, <2>1, <2>2, <2>3, Appended DEF Subsets
  <2>5. Blank
    BY <1>3 DEF Known, NoView
  <2> QED
    BY <2>4, <2>5, <1>0
<1>4. CASE \E s \in Subs : Submit(s)
  <2>1. PICK s \in Subs : Submit(s)
    BY <1>4
  <2> QED
    BY <2>1, <1>2 DEF Submit, RejudgeTypes
<1>5. ASSUME NEW s \in Subs, NEW type \in RejudgeTypes, NEW some \in SUBSET Names,
             Rejudge(s, type, some)
      PROVE  JudgesFetched' /\ Known'
  <2>1. subs' = subs \cup {s} /\ UNCHANGED <<newest, active, view>>
    BY <1>5 DEF Rejudge, database
  <2>2. evaluation' = Append(evaluation, Queued(s, type, some))
    BY <1>5 DEF Rejudge
  <2> QED
    BY <2>1, <2>2, <1>2
<1>6. CASE OpenRejudgeAll
  BY <1>6 DEF OpenRejudgeAll, database, Known, JudgesFetched
<1>7. CASE CommitRejudgeAll
  BY <1>7, <1>3 DEF CommitRejudgeAll, Known
<1>8. CASE RollBackRejudgeAll
  BY <1>8, <1>3 DEF RollBackRejudgeAll, Known, database
<1>9. ASSUME NEW names \in SUBSET Names, Upload(names) PROVE JudgesFetched' /\ Known'
  BY <1>9 DEF Upload, Known, JudgesFetched
<1>10. ASSUME NEW e \in 1 .. Len(evaluation),
              Step(e) \/ Raise(e) \/ TransferRaises(e) \/ Lose(e)
       PROVE  JudgesFetched' /\ Known'
  <2> DEFINE ev == evaluation[e]
  <2>1. ev \in Evaluations /\ ev.sub \in subs /\ ev.sub \in Subs
    BY <1>00 DEF Known
  <2>2. \A pc \in {"failed", "statuses", "ended", "lost"} :
           /\ Cleared(ev, pc) \in Evaluations
           /\ Cleared(ev, pc).sub = ev.sub /\ Cleared(ev, pc).pc = pc
    BY <2>1, ClearedType DEF Cleared, Queued
  <2>h. ASSUME NEW x \in Evaluations, Set(e, x), x.sub = ev.sub, UNCHANGED subs,
               x.pc \in {"judge", "report"} => x.judge \subseteq x.names,
               Blank
        PROVE  JudgesFetched' /\ Known'
    BY <2>h, <1>0, OneSet DEF Subsets
  <2>3. Unchanged => UNCHANGED subs /\ Blank
    BY DEF Unchanged, database, Known
  <2>4. ASSUME UNCHANGED <<subs, view>>,
               \A s \in Subs : s # ev.sub => newest'[s] = newest[s] /\ active'[s] = active[s]
        PROVE  Blank
    BY <2>1, <2>4 DEF Known
  <2> HIDE DEF ev, Blank
  <2>5. CASE CollectFull(e)
    <3> DEFINE x == [ev EXCEPT !.pc = "judge", !.judge = tests.names, !.names = tests.names,
                               !.upload = tests.upload]
    <3>1. x \in Evaluations /\ x.sub = ev.sub /\ x.judge \subseteq x.names
      BY <2>1 DEF TypeOK, Evaluations
    <3>2. Set(e, x) /\ Unchanged
      BY <2>5 DEF CollectFull, ev
    <3> QED
      BY <2>h, <2>3, <3>1, <3>2
  <2>6. CASE ReadUsed(e)
    <3> DEFINE used == NamesOf(active[ev.sub])
               x == [ev EXCEPT !.pc = "used", !.used = used]
               y == [ev EXCEPT !.pc = "fetch", !.some = {}, !.used = used,
                               !.judge = ev.some \cap used]
    <3>1. used \subseteq Names
      BY <2>1 DEF NamesOf, TypeOK, Reports, Rows
    <3>2. /\ x \in Evaluations /\ x.sub = ev.sub /\ x.pc = "used"
          /\ y \in Evaluations /\ y.sub = ev.sub /\ y.pc = "fetch"
      BY <2>1, <3>1 DEF Evaluations
    <3>3. (Set(e, x) \/ Set(e, y)) /\ Unchanged
      BY <2>6 DEF ReadUsed, ev
    <3> QED
      BY <2>h, <2>3, <3>2, <3>3
  <2>7. CASE SelectNew(e)
    <3> DEFINE x == [ev EXCEPT !.pc = "fetch", !.judge = tests.names \ ev.used]
    <3>1. x \in Evaluations /\ x.sub = ev.sub /\ x.pc = "fetch"
      BY <2>1 DEF TypeOK, Evaluations
    <3>2. Set(e, x) /\ Unchanged
      BY <2>7 DEF SelectNew, ev
    <3> QED
      BY <2>h, <2>3, <3>1, <3>2
  <2>8. CASE Fetch(e)
    <3> DEFINE names == IF ev.type = "JUDGED" THEN tests.names \cap ev.used ELSE tests.names
               x == [ev EXCEPT !.pc = "judge", !.used = {}, !.names = names,
                               !.upload = tests.upload]
    <3>1. names \subseteq Names /\ tests.upload \in Nat
      BY DEF TypeOK
    <3>2. /\ x \in Evaluations /\ x.sub = ev.sub
          /\ ev.judge \subseteq names => x.judge \subseteq x.names
      BY <2>1, <3>1 DEF Evaluations
    <3>3. /\ (ev.judge \subseteq names /\ Set(e, x)) \/ Set(e, Cleared(ev, "failed"))
          /\ Unchanged
      BY <2>8 DEF Fetch, ev
    <3> QED
      BY <2>h, <2>2, <2>3, <3>2, <3>3
  <2>9. CASE Judge(e)
    <3> DEFINE keep == ev.names \ ev.judge
               kept == {row \in active[ev.sub].rows : row.name \in keep}
               x == [ev EXCEPT !.pc = "report", !.kept = kept]
    <3>1. kept \subseteq Rows /\ ev.judge \subseteq ev.names
      BY <2>1, <2>9 DEF Reports, TypeOK, JudgesFetched, Judge, Has, ev
    <3>2. x \in Evaluations /\ x.sub = ev.sub /\ x.judge \subseteq x.names
      BY <2>1, <3>1 DEF Evaluations
    <3>3. (Set(e, x) \/ Set(e, Cleared(ev, "failed"))) /\ Unchanged
      BY <2>9 DEF Judge, ev
    <3> QED
      BY <2>h, <2>2, <2>3, <3>2, <3>3
  <2>10. CASE MakeReport(e)
    <3>1. Blank
      BY <2>10, <2>4 DEF MakeReport, ev, TypeOK
    <3>2. (Set(e, Cleared(ev, "statuses")) \/ Set(e, Cleared(ev, "failed"))) /\ UNCHANGED subs
      BY <2>10 DEF MakeReport, ev
    <3> QED
      BY <2>h, <2>2, <3>1, <3>2
  <2>11. CASE MakeErrorReport(e)
    <3> DEFINE x == [ev EXCEPT !.pc = IF MailAdmins THEN "rejudge" ELSE "handled"]
    <3>1. x \in Evaluations /\ x.sub = ev.sub /\ x.pc \in {"rejudge", "handled"}
      BY <2>1 DEF Evaluations
    <3>2. Blank
      BY <2>11, <2>4 DEF MakeErrorReport, ev, TypeOK
    <3>3. Set(e, x) /\ UNCHANGED subs
      BY <2>11 DEF MakeErrorReport, ev
    <3> QED
      BY <2>h, <3>1, <3>2, <3>3
  <2>12. CASE AttemptRejudge(e)
    <3> DEFINE x == [ev EXCEPT !.pc = "handled"]
               next == [evaluation EXCEPT ![e].pc = "handled"]
               q == Queued(ev.sub, "FULL", {})
    <3>1. x \in Evaluations /\ x.sub = ev.sub /\ x.pc = "handled"
      BY <2>1 DEF Evaluations
    <3>2. /\ next \in Seq(Evaluations) /\ Len(next) = Len(evaluation)
          /\ \A i \in 1 .. Len(evaluation) : next[i] = IF i = e THEN x ELSE evaluation[i]
      BY <1>00, <3>1 DEF ev
    <3>3. q \in Evaluations /\ q.pc = "queued" /\ q.sub = ev.sub
      BY <2>1, QueuedType DEF RejudgeTypes, Queued
    <3>4. evaluation' = next \/ evaluation' = Append(next, q)
      BY <2>12 DEF AttemptRejudge, ev
    <3> HIDE DEF next, q, x
    <3>5. /\ Len(evaluation') >= Len(evaluation)
          /\ \A i \in 1 .. Len(evaluation') : evaluation'[i] = IF i \in 1 .. Len(evaluation)
                                                               THEN next[i] ELSE q
      BY <3>2, <3>3, <3>4
    <3>6. UNCHANGED subs /\ Blank
      BY <2>12, <2>4 DEF AttemptRejudge
    <3>7. ASSUME NEW i \in 1 .. Len(evaluation')
          PROVE  /\ evaluation'[i].sub \in subs'
                 /\ evaluation'[i].pc \in {"judge", "report"}
                        => evaluation'[i].judge \subseteq evaluation'[i].names
      <4>1. evaluation'[i] \in {x, q} \/ (i \in 1 .. Len(evaluation) /\ evaluation'[i] = evaluation[i])
        BY <3>2, <3>5
      <4> QED
        BY <4>1, <3>1, <3>3, <3>6, <2>1 DEF Known, JudgesFetched
    <3> QED
      BY <3>6, <3>7, <1>0 DEF JudgesFetched, Subsets
  <2>13. CASE UpdateStatuses(e)
    <3>1. Blank
      BY <2>13, <2>4 DEF UpdateStatuses, ev, TypeOK
    <3>2. Set(e, Cleared(ev, "ended")) /\ UNCHANGED subs
      BY <2>13 DEF UpdateStatuses, ev
    <3> QED
      BY <2>h, <2>2, <3>1, <3>2
  <2>14. CASE Raise(e) \/ TransferRaises(e) \/ Lose(e)
    <3>1. UNCHANGED subs /\ Blank
      BY <2>14, <2>4 DEF Raise, TransferRaises, Lose, database
    <3>2. Set(e, Cleared(ev, "failed")) \/ Set(e, Cleared(ev, "lost"))
      BY <2>14 DEF Raise, TransferRaises, Lose, ev
    <3> QED
      BY <2>h, <2>2, <3>1, <3>2
  <2> QED
    BY <1>10, <2>5, <2>6, <2>7, <2>8, <2>9, <2>10, <2>11, <2>12, <2>13, <2>14 DEF Step
<1> QED
  BY <1>1, <1>4, <1>5, <1>6, <1>7, <1>8, <1>9, <1>10 DEF Next, RejudgeTypes

(***************************************************************************)
(* A new report is on the present tests                                    *)
(***************************************************************************)
\* A report that is made shows results on the present tests only, whatever
\* is uploaded, rejudged in part or lost while it is judged.
THEOREM JudgedCorrect == Spec => JudgedOnCurrent
<1>1. ASSUME TypeOK, JudgesFetched, [Next]_vars,
             NEW s \in Subs, newest'[s] # newest[s], NEW row \in newest'[s].rows
      PROVE  row.upload = tests.upload
  <2>1. PICK e \in 1 .. Len(evaluation) : MakeReport(e) \/ MakeErrorReport(e)
    BY <1>1 DEF Next, vars, database, Submit, Rejudge, OpenRejudgeAll, CommitRejudgeAll,
                RollBackRejudgeAll, Upload, Step, CollectFull, ReadUsed, SelectNew, Fetch,
                Judge, AttemptRejudge, UpdateStatuses, Raise, TransferRaises, Lose, Unchanged
  <2>2. CASE MakeReport(e)
    <3>1. s = evaluation[e].sub /\ Reportable(e)
      BY <1>1, <2>2 DEF MakeReport, TypeOK
    <3> QED
      BY <1>1, <2>2, <3>1, ReportIsCurrent
  <2>3. CASE MakeErrorReport(e)
    BY <1>1, <2>3 DEF MakeErrorReport, TypeOK, Failure
  <2> QED
    BY <2>1, <2>2, <2>3
<1>2. Init => TypeOK /\ JudgesFetched /\ Known
  BY InitIInv DEF IInv
<1>3. TypeOK /\ JudgesFetched /\ Known /\ [Next]_vars => (TypeOK /\ JudgesFetched /\ Known)'
  BY NextTypes, NextKnown
<1>4. TypeOK /\ JudgesFetched /\ Known /\ [Next]_vars =>
        [\A s \in Subs : newest'[s] # newest[s] =>
            \A row \in newest'[s].rows : row.upload = tests.upload]_vars
  BY <1>1
<1> QED
  BY <1>2, <1>3, <1>4, PTL DEF Spec, JudgedOnCurrent

(***************************************************************************)
(* The flag                                                                *)
(***************************************************************************)
\* Steps that leave the reports alone and let every evaluation go on.
LEMMA FlagsCarried ==
    ASSUME Flags, UNCHANGED <<tests, subs, newest, active>>,
           needs_rejudge' = needs_rejudge, lapsed' = lapsed,
           view' = view \/ view' = NoView,
           Len(evaluation) \in Nat, Len(evaluation') \in Nat, Len(evaluation') >= Len(evaluation),
           \A i \in 1 .. Len(evaluation) :
               /\ evaluation'[i].sub = evaluation[i].sub
               /\ ToReport(i) => ToReport(i)'
               /\ Pending(i) => Pending(i)'
    PROVE  Flags'
<1>1. \A r : Stale(r)' <=> Stale(r)
  BY DEF Stale
<1>2. \A s \in subs : Rejudged(s) => Rejudged(s)'
  BY DEF Rejudged
<1>3. \A s \in subs : UnderWay(s) => UnderWay(s)'
  BY DEF UnderWay
<1>4. StaleIsRejudged'
  BY <1>2 DEF Flags, StaleIsRejudged, Stale
<1>5. StaleIsUnderWay'
  BY <1>3 DEF Flags, StaleIsUnderWay, Stale
<1>6. LateIsCurrent'
  BY DEF Flags, LateIsCurrent, Stale, NoView
<1> QED
  BY <1>4, <1>5, <1>6 DEF Flags

LEMMA FlagsNext == TypeOK /\ TypeOK' /\ JudgesFetched /\ Known /\ Flags /\ [Next]_vars => Flags'
<1> SUFFICES ASSUME TypeOK, TypeOK', JudgesFetched, Known, Flags, [Next]_vars PROVE Flags'
  OBVIOUS
<1>0. /\ evaluation \in Seq(Evaluations) /\ evaluation' \in Seq(Evaluations)
      /\ Len(evaluation) \in Nat /\ Len(evaluation') \in Nat
      /\ subs \subseteq Subs /\ tests.upload \in Nat
  BY DEF TypeOK
<1>1. CASE UNCHANGED vars
  BY <1>1, <1>0, FlagsCarried DEF vars, database, ToReport, Pending
\* evaluations are queued
<1>2. ASSUME NEW t \in Seq(Evaluations), evaluation' = evaluation \o t
      PROVE  /\ Len(evaluation') >= Len(evaluation)
             /\ \A i \in 1 .. Len(evaluation) : evaluation'[i] = evaluation[i]
             /\ \A i \in 1 .. Len(t) : /\ Len(evaluation) + i \in 1 .. Len(evaluation')
                                       /\ evaluation'[Len(evaluation) + i] = t[i]
  BY <1>0, <1>2
<1>3. ASSUME NEW s \in Subs, NEW type \in RejudgeTypes, NEW some \in SUBSET Names,
             evaluation' = Append(evaluation, Queued(s, type, some))
      PROVE  /\ Len(evaluation') >= Len(evaluation)
             /\ \A i \in 1 .. Len(evaluation) : evaluation'[i] = evaluation[i]
  BY <1>0, <1>3, QueuedType
<1>4. ASSUME NEW s \in Subs, Submit(s) PROVE Flags'
  <2>1. /\ Len(evaluation') >= Len(evaluation)
        /\ \A i \in 1 .. Len(evaluation) : evaluation'[i] = evaluation[i]
    BY <1>3, <1>4 DEF Submit, RejudgeTypes
  <2>2. ~Stale(newest[s]) /\ ~Stale(active[s])
    BY <1>4 DEF Submit, Known, Stale, NoReport
  <2>3. /\ subs' = subs \cup {s}
        /\ UNCHANGED <<tests, needs_rejudge, newest, active, view, lapsed>>
    BY <1>4 DEF Submit
  <2>4. \A x \in subs : (Rejudged(x) => Rejudged(x)') /\ (UnderWay(x) => UnderWay(x)')
    BY <1>0, <2>1 DEF Rejudged, UnderWay, ToReport, Pending
  <2>5. StaleIsRejudged'
    BY <2>2, <2>3, <2>4 DEF Flags, StaleIsRejudged, Stale
  <2>6. StaleIsUnderWay'
    BY <2>2, <2>3, <2>4 DEF Flags, StaleIsUnderWay, Stale
  <2>7. LateIsCurrent'
    BY <2>2, <2>3 DEF Flags, LateIsCurrent, Stale
  <2> QED
    BY <2>5, <2>6, <2>7 DEF Flags
<1>5. ASSUME NEW s \in Subs, NEW type \in RejudgeTypes, NEW some \in SUBSET Names,
             Rejudge(s, type, some)
      PROVE  Flags'
  <2>1. /\ Len(evaluation') >= Len(evaluation)
        /\ \A i \in 1 .. Len(evaluation) : evaluation'[i] = evaluation[i]
    BY <1>3, <1>5 DEF Rejudge
  <2>2. UNCHANGED <<tests, subs, newest, active, needs_rejudge, lapsed, view>>
    BY <1>5 DEF Rejudge, database
  <2> QED
    BY <1>0, <2>1, <2>2, FlagsCarried DEF ToReport, Pending
<1>6. CASE OpenRejudgeAll
  BY <1>6 DEF OpenRejudgeAll, database, Flags, StaleIsRejudged, StaleIsUnderWay, LateIsCurrent
<1>7. CASE CommitRejudgeAll
  <2> DEFINE t == QueuedAll(view.subs, "FULL")
  <2>1. /\ t \in Seq(Evaluations)
        /\ \A s \in view.subs : \E i \in 1 .. Len(t) : t[i] = Queued(s, "FULL", {})
    <3>1. PICK S \in SUBSET Subs : S = view.subs
      BY DEF TypeOK
    <3>2. /\ QueuedAll(S, "FULL") \in Seq(Evaluations)
          /\ \A s \in S : \E i \in 1 .. Len(QueuedAll(S, "FULL")) :
                QueuedAll(S, "FULL")[i] = Queued(s, "FULL", {})
      BY QueuedAllEach DEF RejudgeTypes
    <3> QED
      BY <3>1, <3>2
  <2>2. evaluation' = evaluation \o t
    BY <1>7 DEF CommitRejudgeAll
  <2>3. \A s \in view.subs : Queued(s, "FULL", {}).pc = "queued" /\ Queued(s, "FULL", {}).sub = s
    BY DEF Queued
  <2> HIDE DEF t
  <2>4. ASSUME NEW s \in view.subs PROVE Rejudged(s)' /\ UnderWay(s)'
    <3>1. PICK i \in 1 .. Len(t) : t[i] = Queued(s, "FULL", {})
      BY <2>1
    <3>2. PICK j \in 1 .. Len(evaluation') : j = Len(evaluation) + i
      BY <1>2, <2>1, <2>2
    <3>3. evaluation'[j].pc = "queued" /\ evaluation'[j].sub = s
      BY <1>2, <2>1, <2>2, <2>3, <3>1, <3>2
    <3> QED
      BY <3>3 DEF Rejudged, UnderWay, ToReport, Pending
  <2>5. /\ view.open /\ view' = NoView /\ lapsed' = lapsed \ view.subs
        /\ UNCHANGED <<tests, subs, newest, active>>
    BY <1>7 DEF CommitRejudgeAll
  <2>6. StaleIsRejudged'
    BY <2>4, <2>5 DEF StaleIsRejudged, Flags, LateIsCurrent, Stale
  <2>7. StaleIsUnderWay'
    BY <2>4, <2>5 DEF StaleIsUnderWay, Flags, LateIsCurrent, Stale
  <2>8. LateIsCurrent'
    BY <2>5 DEF LateIsCurrent, NoView
  <2> QED
    BY <2>6, <2>7, <2>8 DEF Flags
<1>8. CASE RollBackRejudgeAll
  <2>1. PICK sent \in SUBSET view.subs : evaluation' = evaluation \o QueuedAll(sent, "FULL")
    BY <1>8 DEF RollBackRejudgeAll
  <2>2. QueuedAll(sent, "FULL") \in Seq(Evaluations)
    BY QueuedAllEach DEF TypeOK, RejudgeTypes
  <2>3. /\ Len(evaluation') >= Len(evaluation)
        /\ \A i \in 1 .. Len(evaluation) : evaluation'[i] = evaluation[i]
    BY <1>2, <2>1, <2>2
  <2>4. /\ UNCHANGED <<tests, subs, newest, active, needs_rejudge, lapsed>>
        /\ view' = NoView
    BY <1>8 DEF RollBackRejudgeAll, database
  <2> QED
    BY <1>0, <2>3, <2>4, FlagsCarried DEF ToReport, Pending
<1>9. ASSUME NEW names \in SUBSET Names, Upload(names) PROVE Flags'
  BY <1>9 DEF Upload, Missed, Flags, StaleIsRejudged, StaleIsUnderWay, LateIsCurrent
<1>10. ASSUME NEW e \in 1 .. Len(evaluation),
              Step(e) \/ Raise(e) \/ TransferRaises(e) \/ Lose(e)
       PROVE  Flags'
  <2> DEFINE ev == evaluation[e]
  <2>1. ev \in Evaluations /\ ev.sub \in subs /\ ev.sub \in Subs
    BY <1>0 DEF Known
  <2>2. \A pc \in {"failed", "statuses", "ended", "lost"} :
           /\ Cleared(ev, pc) \in Evaluations
           /\ Cleared(ev, pc).sub = ev.sub /\ Cleared(ev, pc).pc = pc
    BY <2>1, ClearedType DEF Cleared, Queued
  <2>3. ASSUME NEW x \in Evaluations, Set(e, x), x.sub = ev.sub
        PROVE  /\ Len(evaluation') = Len(evaluation)
               /\ evaluation'[e] = x
               /\ \A i \in 1 .. Len(evaluation) : i # e => evaluation'[i] = evaluation[i]
    BY <2>3, <1>0, SetType
  \* the evaluation has its report still to make
  <2>h. ASSUME NEW x \in Evaluations, Set(e, x), x.sub = ev.sub, Unchanged,
               x.pc \in {"used", "fetch", "judge", "report", "failed"}
        PROVE  Flags'
    BY <2>h, <2>3, <1>0, FlagsCarried DEF Unchanged, database, ToReport, Pending, ev
  <2> HIDE DEF ev
  <2>4. CASE CollectFull(e)
    <3> DEFINE x == [ev EXCEPT !.pc = "judge", !.judge = tests.names, !.names = tests.names,
                               !.upload = tests.upload]
    <3>1. x \in Evaluations /\ x.sub = ev.sub /\ x.pc = "judge"
      BY <2>1 DEF TypeOK, Evaluations
    <3> QED
      BY <2>4, <2>h, <3>1 DEF CollectFull, ev
  <2>5. CASE ReadUsed(e)
    <3> DEFINE used == NamesOf(active[ev.sub])
               x == [ev EXCEPT !.pc = "used", !.used = used]
               y == [ev EXCEPT !.pc = "fetch", !.some = {}, !.used = used,
                               !.judge = ev.some \cap used]
    <3>1. used \subseteq Names
      BY <2>1 DEF NamesOf, TypeOK, Reports, Rows
    <3>2. /\ x \in Evaluations /\ x.sub = ev.sub /\ x.pc = "used"
          /\ y \in Evaluations /\ y.sub = ev.sub /\ y.pc = "fetch"
      BY <2>1, <3>1 DEF Evaluations
    <3>3. (Set(e, x) \/ Set(e, y)) /\ Unchanged
      BY <2>5 DEF ReadUsed, ev
    <3> QED
      BY <2>h, <3>2, <3>3
  <2>6. CASE SelectNew(e)
    <3> DEFINE x == [ev EXCEPT !.pc = "fetch", !.judge = tests.names \ ev.used]
    <3>1. x \in Evaluations /\ x.sub = ev.sub /\ x.pc = "fetch"
      BY <2>1 DEF TypeOK, Evaluations
    <3> QED
      BY <2>6, <2>h, <3>1 DEF SelectNew, ev
  <2>7. CASE Fetch(e)
    <3> DEFINE names == IF ev.type = "JUDGED" THEN tests.names \cap ev.used ELSE tests.names
               x == [ev EXCEPT !.pc = "judge", !.used = {}, !.names = names,
                               !.upload = tests.upload]
    <3>1. names \subseteq Names /\ tests.upload \in Nat
      BY DEF TypeOK
    <3>2. x \in Evaluations /\ x.sub = ev.sub /\ x.pc = "judge"
      BY <2>1, <3>1 DEF Evaluations
    <3>3. (Set(e, x) \/ Set(e, Cleared(ev, "failed"))) /\ Unchanged
      BY <2>7 DEF Fetch, ev
    <3> QED
      BY <2>h, <2>2, <3>2, <3>3
  <2>8. CASE Judge(e)
    <3> DEFINE keep == ev.names \ ev.judge
               kept == {row \in active[ev.sub].rows : row.name \in keep}
               x == [ev EXCEPT !.pc = "report", !.kept = kept]
    <3>1. kept \subseteq Rows
      BY <2>1 DEF Reports, TypeOK
    <3>2. x \in Evaluations /\ x.sub = ev.sub /\ x.pc = "report"
      BY <2>1, <3>1 DEF Evaluations
    <3>3. (Set(e, x) \/ Set(e, Cleared(ev, "failed"))) /\ Unchanged
      BY <2>8 DEF Judge, ev
    <3> QED
      BY <2>h, <2>2, <3>2, <3>3
  \* it makes a report, which is not stale
  <2>m. ASSUME NEW x \in Evaluations, Set(e, x), x.sub = ev.sub,
               x.pc \in {"statuses", "rejudge", "handled"},
               \A s \in Subs : s # ev.sub => newest'[s] = newest[s],
               \A row \in newest'[ev.sub].rows : row.upload = tests.upload,
               UNCHANGED <<tests, needs_rejudge, subs, active, view, lapsed>>
        PROVE  Flags'
    <3> PICK s0 \in subs : s0 = ev.sub
      BY <2>1
    <3>1. ~Stale(newest[s0])'
      BY <2>m, <1>0 DEF Stale
    <3>2. \A s \in subs : s # s0 => (Rejudged(s) => Rejudged(s)')
      BY <2>m, <2>3, <1>0 DEF Rejudged, ToReport, ev
    <3>3. \A s \in subs : UnderWay(s) => UnderWay(s)'
      BY <2>m, <2>3, <1>0 DEF UnderWay, Pending, ev
    <3>4. \A s \in subs : s # s0 => (Stale(newest[s])' <=> Stale(newest[s]))
      BY <2>m, <1>0 DEF Stale
    <3>5. \A s \in subs : Stale(active[s])' <=> Stale(active[s])
      BY <2>m DEF Stale
    <3>6. StaleIsRejudged'
      BY <2>m, <3>1, <3>2, <3>4 DEF Flags, StaleIsRejudged
    <3>7. StaleIsUnderWay'
      BY <2>m, <3>3, <3>5 DEF Flags, StaleIsUnderWay
    <3>8. LateIsCurrent'
      BY <2>m, <3>1, <3>4, <3>5 DEF Flags, LateIsCurrent
    <3> QED
      BY <3>6, <3>7, <3>8 DEF Flags
  <2>9. CASE MakeReport(e) /\ Reportable(e)
    <3>1. \A s \in Subs : s # ev.sub => newest'[s] = newest[s]
      BY <2>9 DEF MakeReport, TypeOK, ev
    <3>2. \A row \in newest'[ev.sub].rows : row.upload = tests.upload
      BY <2>9, ReportIsCurrent DEF ev
    <3>3. /\ Set(e, Cleared(ev, "statuses"))
          /\ UNCHANGED <<tests, needs_rejudge, subs, active, view, lapsed>>
      BY <2>9 DEF MakeReport, ev
    <3> QED
      BY <2>m, <2>2, <3>1, <3>2, <3>3
  <2>10. CASE MakeReport(e) /\ ~Reportable(e)
    <3>1. Set(e, Cleared(ev, "failed")) /\ Unchanged
      BY <2>10 DEF MakeReport, ev, Unchanged, database
    <3> QED
      BY <2>h, <2>2, <3>1
  <2>11. CASE MakeErrorReport(e)
    <3> DEFINE x == [ev EXCEPT !.pc = IF MailAdmins THEN "rejudge" ELSE "handled"]
    <3>1. x \in Evaluations /\ x.sub = ev.sub /\ x.pc \in {"rejudge", "handled"}
      BY <2>1 DEF Evaluations
    <3>2. \A s \in Subs : s # ev.sub => newest'[s] = newest[s]
      BY <2>11 DEF MakeErrorReport, TypeOK, ev
    <3>3. newest'[ev.sub].rows = {}
      BY <2>1, <2>11 DEF MakeErrorReport, TypeOK, ev, Failure
    <3>4. Set(e, x) /\ UNCHANGED <<tests, needs_rejudge, subs, active, view, lapsed>>
      BY <2>11 DEF MakeErrorReport, ev
    <3> QED
      BY <2>m, <3>1, <3>2, <3>3, <3>4
  <2>12. CASE AttemptRejudge(e)
    <3> DEFINE x == [ev EXCEPT !.pc = "handled"]
               next == [evaluation EXCEPT ![e].pc = "handled"]
               q == Queued(ev.sub, "FULL", {})
    <3>1. x \in Evaluations /\ x.sub = ev.sub /\ x.pc = "handled"
      BY <2>1 DEF Evaluations
    <3>2. /\ next \in Seq(Evaluations) /\ Len(next) = Len(evaluation)
          /\ \A i \in 1 .. Len(evaluation) : next[i] = IF i = e THEN x ELSE evaluation[i]
      BY <1>0, <3>1 DEF ev
    <3>3. q \in Evaluations
      BY <2>1, QueuedType DEF RejudgeTypes
    <3>4. evaluation' = next \/ evaluation' = Append(next, q)
      BY <2>12 DEF AttemptRejudge, ev
    <3> HIDE DEF next, q, x
    <3>5. /\ Len(evaluation') >= Len(evaluation)
          /\ \A i \in 1 .. Len(evaluation) : evaluation'[i] = IF i = e THEN x ELSE evaluation[i]
      BY <3>2, <3>3, <3>4
    <3>6. /\ UNCHANGED <<tests, subs, newest, active, needs_rejudge, lapsed, view>>
          /\ evaluation[e].pc = "rejudge"
      BY <2>12 DEF AttemptRejudge, Has
    <3> QED
      BY <1>0, <3>1, <3>5, <3>6, FlagsCarried DEF ToReport, Pending, ev
  <2>13. CASE UpdateStatuses(e)
    <3>1. /\ \A s \in Subs : s # ev.sub => active'[s] = active[s]
          /\ active'[ev.sub] = newest[ev.sub]
          /\ ~ToReport(e)
      BY <2>1, <2>13 DEF UpdateStatuses, TypeOK, ev, ToReport, Has
    <3>2. /\ Set(e, Cleared(ev, "ended"))
          /\ UNCHANGED <<tests, needs_rejudge, subs, newest, view, lapsed>>
      BY <2>13 DEF UpdateStatuses, ev
    <3>3. /\ Len(evaluation') = Len(evaluation)
          /\ \A i \in 1 .. Len(evaluation) : i # e => evaluation'[i] = evaluation[i]
      BY <2>2, <2>3, <3>2
    <3>4. \A s \in subs : Rejudged(s) => Rejudged(s)' /\ UnderWay(s)'
      BY <3>1, <3>3, <1>0 DEF Rejudged, UnderWay, ToReport, Pending
    <3>5. \A s \in subs : s # ev.sub => (UnderWay(s) => UnderWay(s)')
      BY <3>3, <1>0 DEF UnderWay, Pending, ev
    <3>6. \A s \in subs : /\ Stale(newest[s])' <=> Stale(newest[s])
                          /\ s # ev.sub => (Stale(active[s])' <=> Stale(active[s]))
                          /\ s = ev.sub => (Stale(active[s])' <=> Stale(newest[s]))
      BY <3>1, <3>2, <1>0 DEF Stale
    <3>7. StaleIsRejudged'
      BY <3>2, <3>4, <3>6 DEF Flags, StaleIsRejudged
    <3>8. StaleIsUnderWay'
      BY <3>2, <3>4, <3>5, <3>6 DEF Flags, StaleIsRejudged, StaleIsUnderWay
    <3>9. LateIsCurrent'
      BY <3>2, <3>6 DEF Flags, LateIsCurrent
    <3> QED
      BY <3>7, <3>8, <3>9 DEF Flags
  <2>14. CASE Raise(e)
    <3>1. /\ Set(e, Cleared(ev, "failed"))
          /\ UNCHANGED <<tests, subs, newest, active, needs_rejudge, lapsed, view>>
      BY <2>14 DEF Raise, ev, database
    <3> QED
      BY <2>2, <2>3, <3>1, <1>0, FlagsCarried DEF ToReport, Pending, ev
  \* an evaluation is lost: what it would have rejudged is lapsed
  <2>15. CASE TransferRaises(e) \/ Lose(e)
    <3> PICK s0 \in subs : s0 = ev.sub
      BY <2>1
    <3>1. /\ Set(e, Cleared(ev, "lost")) /\ lapsed' = lapsed \cup {s0}
          /\ UNCHANGED <<tests, subs, newest, active, needs_rejudge, view>>
      BY <2>15 DEF TransferRaises, Lose, ev, database
    <3>2. /\ Len(evaluation') = Len(evaluation)
          /\ \A i \in 1 .. Len(evaluation) : i # e => evaluation'[i] = evaluation[i]
      BY <2>2, <2>3, <3>1
    <3>3. \A s \in subs : s # s0 => (Rejudged(s) => Rejudged(s)') /\ (UnderWay(s) => UnderWay(s)')
      BY <3>2, <1>0 DEF Rejudged, UnderWay, ToReport, Pending, ev
    <3>4. \A s \in subs : /\ Stale(newest[s])' <=> Stale(newest[s])
                          /\ Stale(active[s])' <=> Stale(active[s])
      BY <3>1 DEF Stale
    <3>5. StaleIsRejudged'
      BY <3>1, <3>3, <3>4 DEF Flags, StaleIsRejudged
    <3>6. StaleIsUnderWay'
      BY <3>1, <3>3, <3>4 DEF Flags, StaleIsUnderWay
    <3>7. LateIsCurrent'
      BY <3>1, <3>4 DEF Flags, LateIsCurrent
    <3> QED
      BY <3>5, <3>6, <3>7 DEF Flags
  <2> QED
    BY <1>10, <2>4, <2>5, <2>6, <2>7, <2>8, <2>9, <2>10, <2>11, <2>12, <2>13, <2>14, <2>15
       DEF Step
<1> QED
  BY <1>1, <1>4, <1>5, <1>6, <1>7, <1>8, <1>9, <1>10 DEF Next, RejudgeTypes

\* While the flag is down every submission that is judged on old tests is
\* being rejudged, except those of which an evaluation was lost, or that an
\* upload found beside a request to rejudge all others, since all submissions
\* were last rejudged.  What happens to one submission excuses no other.
THEOREM FlagCorrect == Spec => []FlagIsHonest
<1>1. IInv /\ [Next]_vars => IInv'
  BY NextTypes, NextKnown, FlagsNext DEF IInv
<1>2. IInv => FlagIsHonest
  BY DEF IInv, Flags, StaleIsUnderWay, FlagIsHonest, Outdated, Stale, UnderWay
<1> QED
  BY <1>1, <1>2, InitIInv, PTL DEF Spec
=============================================================================
