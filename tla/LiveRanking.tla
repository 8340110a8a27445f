----------------------------- MODULE LiveRanking -----------------------------
(***************************************************************************)
(* The page that shows a round live, to be projected during the contest    *)
(* (oioioi/liveranking: CAdapter.js, CModel.js, CFlash.js, CAcmvis.js),    *)
(* and the view it polls (oioioi/livedata/views.py).                       *)
(*                                                                         *)
(* Every second the page asks for the reports made since the newest one it *)
(* knows, less a second, without waiting for earlier answers, and folds    *)
(* all submissions it knows into the standings.  A report has the second   *)
(* it was made in and becomes visible when its transaction commits.  The   *)
(* result of a submission is the first one that the page gets to know.     *)
(*                                                                         *)
(* START comes first in every answer, so the adapter's queue is emptied    *)
(* with the answer that filled it and is not a variable here.  Submissions *)
(* are those of the round that are not ignored, by active participants.    *)
(***************************************************************************)
EXTENDS Integers, SequencesExt

CONSTANTS
    Submissions,    \* submissions of the round
    TeamOf, TaskOf, \* the ids of the user and the problem of each
    SentAt,         \* seconds from the start of the round to each
    Outcomes,       \* what judgings may find: submissions with their ScoreReport.status
    Viewers,        \* who may look at the page
    Teams, Tasks,   \* ids the page was given when it was opened
    Unmatched,      \* teams whose name CFlash finds no last word in
    FreezeTime,     \* get_round_freeze_time, from the start of the round
    RoundLength,    \* ROUND_LENGTH
    BombPenalty,    \* BOMB_PENALTY
    MaxRequests,    \* bound: requests of the page under way at a time
    MaxReports,     \* bound: reports
    MaxClock        \* bound: seconds

ASSUME LiveRankingAssumption ==
    /\ IsFiniteSet(Submissions) /\ IsFiniteSet(Teams) /\ IsFiniteSet(Tasks)
    /\ TeamOf \in [Submissions -> Nat] /\ TaskOf \in [Submissions -> Nat]
    /\ SentAt \in [Submissions -> Nat]
    /\ Outcomes \subseteq Submissions \X STRING
    /\ Teams \subseteq Nat /\ Tasks \subseteq Nat /\ Unmatched \subseteq Teams
    /\ Viewers \subseteq {"admin", "observer", "other"}
    /\ {FreezeTime, RoundLength, BombPenalty, MaxRequests, MaxReports, MaxClock} \subseteq Nat

VARIABLES
    clock,          \* the second it is on the server
    report,         \* reports with a score, in the order of creation_date
    viewer,         \* who looks at the page
    cache,          \* what livedata_events_view has cached for others
    request,        \* requests of the page for events that are under way, oldest first
    submits,        \* the report of each submission in CAdapter.submits, or 0
    lastJudgingTS,  \* CAdapter.lastJudgingTS
    board,          \* CModel.teamToTask, teams and tasks
    acTasksIds,     \* CFlash.teams[..].acTasksIds, as pairs
    flashQueue      \* CFlash.flashQueue, which keeps what was shown

page == <<submits, lastJudgingTS>>
flash == <<acTasksIds, flashQueue>>
vars == <<clock, report, viewer, cache, request, page, board, flash>>

Ids == 1 .. Len(report)
ReportsOf(s) == {r \in Ids : report[r].sub = s}
Pairs == Teams \X Tasks

-----------------------------------------------------------------------------
(* The server *)

\* A report is inserted by a job that goes on; late, a history variable, says
\* that one made more than a second after it was visible before it.
MakeReport(s, result) ==
    /\ Len(report) < MaxReports
    /\ report' = Append(report, [sub |-> s, result |-> result, at |-> clock,
                                 committed |-> FALSE, late |-> FALSE])
    /\ UNCHANGED <<clock, viewer, cache, request, page, board, flash>>

CommitReport(r) ==
    /\ ~report[r].committed
    /\ report' = [report EXCEPT ![r].committed = TRUE,
                                ![r].late = \E n \in Ids : report[n].committed
                                                           /\ report[n].at > report[r].at + 1]
    /\ UNCHANGED <<clock, viewer, cache, request, page, board, flash>>

Tick ==
    /\ clock < MaxClock
    /\ clock' = clock + 1
    /\ UNCHANGED <<report, viewer, cache, request, page, board, flash>>

ReportsSince(from) == {r \in Ids : report[r].committed /\ report[r].at >= from}

\* Only administrators and observers may ask for a part of the events; others
\* get all of them, from a cache.
Answer(q) ==
    /\ ~request[q].answered
    /\ \E reports \in {IF viewer # "other" THEN ReportsSince(request[q].from)
                       ELSE IF cache.valid THEN cache.reports ELSE ReportsSince(0)} :
          /\ request' = [request EXCEPT ![q].answered = TRUE, ![q].reports = reports]
          /\ cache' = IF viewer = "other" THEN [valid |-> TRUE, reports |-> reports] ELSE cache
    /\ UNCHANGED <<clock, report, viewer, page, board, flash>>

NoCache == [valid |-> FALSE, reports |-> {}]
ExpireCache ==
    /\ cache.valid
    /\ cache' = NoCache
    /\ UNCHANGED <<clock, report, viewer, request, page, board, flash>>

\* What the view shows of a report.  After the freeze results are hidden from
\* everyone but administrators.
Shown(r) ==
    IF viewer # "admin" /\ SentAt[report[r].sub] >= FreezeTime THEN "FROZEN"
    ELSE report[r].result

-----------------------------------------------------------------------------
(* The standings *)

StatesMap == [OK |-> "AC", ERR |-> "ERR", RE |-> "RE", WA |-> "WA", TLE |-> "TL", MLE |-> "ML",
              OLE |-> "RE", CE |-> "CE", RV |-> "SV", FROZEN |-> "??"]
Penalised == {"RE", "WA", "TL", "ML", "SV"}
Status(s) == StatesMap[Shown(submits[s])]

EmptyBoard ==
    [pair |-> [p \in Pairs |-> [score |-> 0, penalty |-> 0, time |-> 0]],
     team |-> [t \in Teams |-> [score |-> 0, time |-> 0]],
     task |-> [t \in Tasks |-> 0]]

\* A submission counts unless its team or task came after the page was
\* opened, or its team has solved its task.
ProcessEvent(b, s) ==
    LET p == <<TeamOf[s], TaskOf[s]>>
        score == IF Status(s) = "AC" THEN 1 ELSE 0
        penalty == b.pair[p].penalty + IF Status(s) \in Penalised THEN 1 ELSE 0
        time == IF score = 1 THEN SentAt[s] + penalty * BombPenalty ELSE 0
    IN  IF p \notin Pairs \/ b.pair[p].score > 0 THEN b
        ELSE [b EXCEPT !.pair[p] = [score |-> score, penalty |-> penalty, time |-> time],
                       !.team[p[1]] = [score |-> @.score + score, time |-> @.time + time],
                       !.task[p[2]] = @ + score]

\* Submissions of the same second come in any order.
InOrder(S) == {o \in SetToSeqs(S) :
    \A i, j \in DOMAIN o : i < j => SentAt[o[i]] <= SentAt[o[j]]}

KnownBeforeEnd == {s \in Submissions : submits[s] # 0 /\ SentAt[s] < RoundLength}   \* slip: <
KnownInTime == {s \in Submissions : submits[s] # 0 /\ SentAt[s] <= RoundLength}

\* slip: the model is not reset
ModelGetMore == \E o \in InOrder(KnownInTime) : board' = FoldLeft(ProcessEvent, board, o)

\* model.getEvents: the model is reset and all submissions are processed.
ModelGetEvents == \E o \in InOrder(KnownInTime) : board' = FoldLeft(ProcessEvent, EmptyBoard, o)

-----------------------------------------------------------------------------
(* The page *)

FromLess == lastJudgingTS - 1   \* slip: without Math.max
FromNewest == lastJudgingTS     \* slip: the second before is left out
From == IF lastJudgingTS = 0 THEN 0 ELSE lastJudgingTS - 1

\* The timer: adapter.getEvents sends a request, and model.getEvents uses what
\* earlier answers have left.
Poll ==
    /\ Len(request) < MaxRequests
    /\ request' = Append(request, [from |-> From, answered |-> FALSE, reports |-> {}])
    /\ ModelGetEvents
    /\ UNCHANGED <<clock, report, viewer, cache, page, flash>>

\* Of several reports of a submission in one answer the queue takes the first
\* one.  processQueue does not replace an event, because the stored one has no
\* judgingTS, and does not store one of an unknown status.
FirstOf(s, reports) == CHOOSE r \in ReportsOf(s) \cap reports :
    \A n \in ReportsOf(s) \cap reports : r <= n
ProcessQueue(reports) == [s \in Submissions |->
    IF submits[s] = 0 /\ ReportsOf(s) \cap reports # {}
       /\ Shown(FirstOf(s, reports)) \in DOMAIN StatesMap
    THEN FirstOf(s, reports) ELSE submits[s]]

Receive(q) ==
    /\ request[q].answered
    /\ submits' = ProcessQueue(request[q].reports)
    /\ lastJudgingTS' = Max({lastJudgingTS} \cup {report[r].at : r \in request[q].reports})
    /\ request' = RemoveAt(request, q)
    /\ UNCHANGED <<clock, report, viewer, cache, board, flash>>

\* The handler of errors only logs.
Lose(q) ==
    /\ request' = RemoveAt(request, q)
    /\ UNCHANGED <<clock, report, viewer, cache, page, board, flash>>

\* CFlash.update, by a timer of its own.  Teams and tasks come in the order of
\* their ids.  A team without a match raises when its first new task is noted
\* but not yet queued, and ends the update.
NewAcs(T) == {p \in T \X Tasks : board.pair[p].score > 0} \ acTasksIds
Before(p, q) == p[1] < q[1] \/ (p[1] = q[1] /\ p[2] < q[2])
Announce(acs) == \E o \in SetToSeqs(acs) :
    /\ \A i, j \in DOMAIN o : i < j => Before(o[i], o[j])
    /\ flashQueue' = flashQueue \o o

\* slip: what is queued is not noted
AddAcs ==
    /\ NewAcs(Unmatched) = {}
    /\ Announce(NewAcs(Teams))
    /\ UNCHANGED acTasksIds

AddNewAcs ==
    /\ NewAcs(Unmatched) = {}
    /\ acTasksIds' = acTasksIds \cup NewAcs(Teams)
    /\ Announce(NewAcs(Teams))

AddNewAcsRaises == \E p \in NewAcs(Unmatched) :
    LET done == {n \in NewAcs(Teams) : n[1] < p[1]}
    IN  /\ \A n \in NewAcs(Unmatched) \ {p} : Before(p, n)
        /\ acTasksIds' = acTasksIds \cup done \cup {p}
        /\ Announce(done)

FlashUpdate ==
    /\ AddNewAcs \/ AddNewAcsRaises
    /\ UNCHANGED <<clock, report, viewer, cache, request, page, board>>

-----------------------------------------------------------------------------
Init ==
    /\ clock = 1 /\ report = <<>> /\ viewer \in Viewers /\ cache = NoCache
    /\ request = <<>>
    /\ submits = [s \in Submissions |-> 0] /\ lastJudgingTS = 0
    /\ board = EmptyBoard
    /\ acTasksIds = {} /\ flashQueue = <<>>

Next ==
    \/ \E o \in Outcomes : MakeReport(o[1], o[2])
    \/ \E r \in Ids : CommitReport(r)
    \/ Tick \/ ExpireCache
    \/ \E q \in DOMAIN request : Answer(q) \/ Receive(q) \/ Lose(q)
    \/ Poll \/ FlashUpdate

Spec == Init /\ [][Next]_vars

\* The timers go on, not every request is lost, and caches expire.
FairSpec ==
    /\ Spec /\ WF_vars(ExpireCache)
    /\ WF_vars(Poll)
    /\ SF_vars(\E q \in DOMAIN request : Answer(q))
    /\ SF_vars(\E q \in DOMAIN request : Receive(q))

-----------------------------------------------------------------------------
(* Properties *)

Reports == [sub : Submissions, result : STRING, at : Nat, committed : BOOLEAN, late : BOOLEAN]
Counts == [score : Nat, time : Nat]
TypeOK ==
    /\ clock \in Nat /\ lastJudgingTS \in Nat /\ viewer \in Viewers
    /\ report \in Seq(Reports) /\ submits \in [Submissions -> 0 .. Len(report)]
    /\ cache \in [valid : BOOLEAN, reports : SUBSET Ids]
    /\ request \in Seq([from : Nat, answered : BOOLEAN, reports : SUBSET Ids])
    /\ board \in [pair : [Pairs -> [score : {0, 1}, penalty : Nat, time : Nat]],
                  team : [Teams -> Counts], task : [Tasks -> Nat]]
    /\ acTasksIds \subseteq Pairs /\ flashQueue \in Seq(Pairs)

\* Polling misses no submission, however requests overlap and get lost: one
\* that the page does not know, although its report is visible, is in what it
\* asks for next.  Only a report that became visible after ones made more than
\* a second later is missed (late), and one of unknown status.
Readable(s) == \A r \in ReportsOf(s) : Shown(r) \in DOMAIN StatesMap
NothingSkipped == \A r \in Ids :
    report[r].committed /\ ~report[r].late /\ Readable(report[r].sub)
    /\ submits[report[r].sub] = 0 => r \in ReportsSince(From)

\* The standings are those of the rules, whatever was shown before: a task is
\* solved by the first AC, and costs its time and a penalty for every wrong
\* answer before.  Only wrong answers of the same second may count or not.
Attempts(p) == {s \in KnownInTime : <<TeamOf[s], TaskOf[s]>> = p}
Acs(p) == {s \in Attempts(p) : Status(s) = "AC"}
FirstAc(p) == Min({SentAt[s] : s \in Acs(p)})
Wrong(p, times) == Cardinality({s \in Attempts(p) : Status(s) \in Penalised /\ SentAt[s] \in times})
RightPair(b, p) ==
    IF Acs(p) = {} THEN b.pair[p].score = 0 /\ b.pair[p].time = 0
    ELSE /\ b.pair[p].score = 1
         /\ b.pair[p].penalty \in Wrong(p, 0 .. FirstAc(p) - 1) .. Wrong(p, 0 .. FirstAc(p))
         /\ b.pair[p].time = FirstAc(p) + BombPenalty * b.pair[p].penalty
TotalScore(b, S) == MapThenSumSet(LAMBDA p : b.pair[p].score, S)
TotalTime(b, S) == MapThenSumSet(LAMBDA p : b.pair[p].time, S)
RightTotals(b) ==
    /\ \A t \in Teams : /\ b.team[t].score = TotalScore(b, {t} \X Tasks)
                       /\ b.team[t].time = TotalTime(b, {t} \X Tasks)
    /\ \A t \in Tasks : b.task[t] = TotalScore(b, Teams \X {t})
Right(b) == (\A p \in Pairs : RightPair(b, p)) /\ RightTotals(b)
StandingsAreRight == [][Poll => Right(board')]_vars

\* A task is announced once for a team, and the standings never take it back.
FlashesAreTrue ==
    /\ IsInjective(flashQueue)
    /\ \A i \in DOMAIN flashQueue : board.pair[flashQueue[i]].score = 1

\* A solved task comes to the standings, also when requests overlap and get
\* lost, unless its report became visible late or another report of the
\* submission says something else.
Accepted(s) ==
    /\ SentAt[s] <= RoundLength
    /\ \E r \in ReportsOf(s) : report[r].committed /\ ~report[r].late
    /\ \A r \in ReportsOf(s) : Shown(r) = "OK"
Solved(p) == \E s \in Submissions : <<TeamOf[s], TaskOf[s]>> = p /\ Accepted(s)
Published == \A p \in Pairs : Solved(p) ~> (~Solved(p) \/ board.pair[p].score = 1)
=============================================================================
