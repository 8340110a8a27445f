-------------------------- MODULE LiveRanking_proofs --------------------------
(***************************************************************************)
(* Proofs about LiveRanking, for any submissions, viewers, reports and     *)
(* requests: polling misses no report that became visible in time, the     *)
(* standings that are folded from what the page knows are those of the     *)
(* rules, and what is announced is announced once and stays solved.        *)
(***************************************************************************)
EXTENDS LiveRanking, SequenceTheorems, FiniteSetTheorems, TLAPS

-----------------------------------------------------------------------------
(* Numbers and sequences *)

\* A set of numbers has a smallest one, and a largest if it has a bound.
LEMMA Smallest ==
    ASSUME NEW T \in SUBSET Nat, T # {}
    PROVE  \E x \in T : \A y \in T : x <= y
<1>1. PICK x \in T : \A y \in T : <<y, x>> \notin OpToRel(<, Nat)
  BY NatLessThanWellFounded, WFMin
<1>2. ASSUME NEW y \in Nat, NEW z \in Nat, y < z PROVE <<y, z>> \in OpToRel(<, Nat)
  BY <1>2 DEF OpToRel
<1>3. ASSUME NEW y \in T PROVE ~(y < x)
  BY <1>1, <1>2
<1> QED BY <1>3

LEMMA Largest ==
    ASSUME NEW T \in SUBSET Nat, T # {}, NEW b \in Nat, \A x \in T : x <= b
    PROVE  Max(T) \in T /\ \A y \in T : Max(T) >= y
<1> DEFINE U == {b - x : x \in T}
<1>1. U \in SUBSET Nat /\ U # {}
  <2>1. ASSUME NEW x \in T PROVE b - x \in Nat
    <3>1. x \in Nat /\ x <= b
      OBVIOUS
    <3> QED BY <3>1
  <2>2. PICK x \in T : TRUE
    OBVIOUS
  <2>3. b - x \in U
    OBVIOUS
  <2> QED BY <2>1, <2>3
<1>2. PICK z \in U : \A y \in U : z <= y
  BY <1>1, Smallest
<1>3. PICK x \in T : z = b - x
  OBVIOUS
<1>4. ASSUME NEW y \in T PROVE x >= y
  <2>1. z <= b - y /\ x \in Nat /\ y \in Nat
    BY <1>2
  <2> QED BY <1>3, <2>1
<1> QED BY <1>4 DEF Max

\* What is left after a removal was there.
LEMMA Removed ==
    ASSUME NEW S, NEW s \in Seq(S), NEW q \in 1 .. Len(s)
    PROVE  /\ RemoveAt(s, q) \in Seq(S)
           /\ \A i \in DOMAIN RemoveAt(s, q) : \E j \in DOMAIN s : RemoveAt(s, q)[i] = s[j]
<1>1. Len(s) \in Nat /\ \A i \in 1 .. Len(s) : s[i] \in S
  BY LenProperties, ElementOfSeq
<1>2. PICK x, y : x = SubSeq(s, 1, q - 1) /\ y = SubSeq(s, q + 1, Len(s))
  OBVIOUS
<1>3. /\ x \in Seq(S) /\ Len(x) = q - 1
      /\ \A i \in 1 .. q - 1 : x[i] = s[i]
  BY <1>1, <1>2, SubSeqProperties
<1>4. /\ y \in Seq(S) /\ Len(y) = Len(s) - q
      /\ \A i \in 1 .. Len(s) - q : y[i] = s[q + i]
  BY <1>1, <1>2, SubSeqProperties
<1>5. RemoveAt(s, q) = x \o y
  BY <1>2 DEF RemoveAt
<1>6. /\ x \o y \in Seq(S) /\ Len(x \o y) = Len(x) + Len(y)
      /\ \A i \in 1 .. Len(x) + Len(y) : (x \o y)[i] = IF i <= Len(x) THEN x[i] ELSE y[i - Len(x)]
  BY <1>3, <1>4, ConcatProperties
<1>7. ASSUME NEW i \in 1 .. Len(x) + Len(y) PROVE \E j \in 1 .. Len(s) : (x \o y)[i] = s[j]
  <2>1. CASE i <= Len(x)
    <3>1. i \in 1 .. q - 1 /\ i \in 1 .. Len(s)
      BY <1>1, <1>3, <2>1
    <3> QED BY <1>3, <1>6, <2>1, <3>1
  <2>2. CASE i > Len(x)
    <3>1. i - Len(x) \in 1 .. Len(s) - q
      BY <1>1, <1>3, <1>4, <2>2
    <3>2. (x \o y)[i] = s[q + (i - Len(x))] /\ q + (i - Len(x)) \in 1 .. Len(s)
      BY <1>1, <1>3, <1>4, <1>6, <2>2, <3>1
    <3> QED BY <3>2
  <2> QED BY <1>1, <1>3, <2>1, <2>2
<1> QED BY <1>5, <1>6, <1>7, LenProperties

-----------------------------------------------------------------------------
(* Types *)

Requests == [from : Nat, answered : BOOLEAN, reports : SUBSET Ids]

\* The server and the adapter: what the standings are computed from.
PollType ==
    /\ clock \in Nat /\ lastJudgingTS \in Nat /\ viewer \in Viewers
    /\ report \in Seq(Reports) /\ submits \in [Submissions -> 0 .. Len(report)]
    /\ cache \in [valid : BOOLEAN, reports : SUBSET Ids]
    /\ request \in Seq(Requests)
    /\ \A r \in Ids : report[r].at <= clock
    /\ lastJudgingTS <= clock

\* The actions, one by one.
LEMMA LiveSteps ==
    ASSUME [Next]_vars
    PROVE  \/ \E s \in Submissions, result \in STRING : MakeReport(s, result)
           \/ \E r \in Ids : CommitReport(r)
           \/ Tick \/ ExpireCache
           \/ \E q \in DOMAIN request : Answer(q)
           \/ \E q \in DOMAIN request : Receive(q)
           \/ \E q \in DOMAIN request : Lose(q)
           \/ Poll \/ FlashUpdate \/ UNCHANGED vars
<1>1. \A o \in Outcomes : o[1] \in Submissions /\ o[2] \in STRING
  BY LiveRankingAssumption
<1> QED BY <1>1 DEF Next

\* Reports are of their type.
LEMMA ReportFacts ==
    ASSUME PollType
    PROVE  /\ Len(report) \in Nat
           /\ \A r \in Ids : report[r] \in Reports
BY LenProperties, ElementOfSeq DEF PollType, Ids

\* What a step does to the reports: they keep what they say, and new ones are
\* not visible.
ReportsKept ==
    /\ Len(report') \in Nat /\ Len(report) <= Len(report')
    /\ \A r \in Ids : /\ report'[r].sub = report[r].sub
                      /\ report'[r].result = report[r].result
                      /\ report'[r].at = report[r].at
                      /\ report[r].committed =>
                            report'[r].committed /\ report'[r].late = report[r].late
                      /\ ~report[r].committed /\ report'[r].committed /\ ~report'[r].late =>
                            \A n \in Ids : report[n].committed => report[n].at <= report[r].at + 1
    /\ \A r \in Ids' : report'[r].committed => r \in Ids

\* Every step keeps the reports, and the clock does not go back.
LEMMA ReportsStep ==
    ASSUME PollType, [Next]_vars
    PROVE  /\ ReportsKept
           /\ report' \in Seq(Reports)
           /\ clock' \in Nat
           /\ \A r \in Ids' : report'[r].at <= clock'
           /\ clock <= clock' /\ viewer' = viewer
<1> DEFINE Goal == /\ ReportsKept
                   /\ report' \in Seq(Reports)
                   /\ clock' \in Nat
                   /\ \A r \in Ids' : report'[r].at <= clock'
                   /\ clock <= clock' /\ viewer' = viewer
<1>1. ASSUME UNCHANGED <<report, viewer>>, clock' \in Nat, clock <= clock' PROVE Goal
  <2>1. Ids' = Ids
    BY <1>1 DEF Ids
  <2>2. \A r \in Ids : report[r].at \in Nat /\ report[r].at <= clock
    BY ReportFacts DEF Reports, PollType
  <2> QED BY <1>1, <2>1, <2>2, ReportFacts DEF ReportsKept, PollType
<1>2. ASSUME NEW s \in Submissions, NEW result \in STRING, MakeReport(s, result) PROVE Goal
  <2> DEFINE new == [sub |-> s, result |-> result, at |-> clock, committed |-> FALSE, late |-> FALSE]
  <2>1. new \in Reports /\ report' = Append(report, new) /\ UNCHANGED <<clock, viewer>>
    BY <1>2 DEF MakeReport, Reports, PollType
  <2>2. /\ report' \in Seq(Reports) /\ Len(report') = Len(report) + 1
        /\ \A r \in Ids : report'[r] = report[r]
        /\ report'[Len(report) + 1] = new
    BY <2>1, AppendProperties DEF PollType, Ids
  <2>3. \A r \in Ids' : r \in Ids \/ r = Len(report) + 1
    BY <2>2, ReportFacts DEF Ids
  <2>4. \A r \in Ids : report[r].at <= clock
    BY DEF PollType
  <2>5. ReportsKept
    <3>1. ~new.committed
      OBVIOUS
    <3>2. \A r \in Ids' : report'[r].committed => r \in Ids
      BY <2>2, <2>3, <3>1
    <3> HIDE DEF new
    <3> QED BY <2>2, <3>2, ReportFacts DEF ReportsKept
  <2>6. \A r \in Ids' : report'[r].at <= clock
    <3>1. new.at = clock /\ clock <= clock
      BY DEF PollType
    <3> HIDE DEF new
    <3> QED BY <2>2, <2>3, <2>4, <3>1
  <2>7. clock' \in Nat /\ clock' = clock /\ clock <= clock' /\ viewer' = viewer
    BY <2>1 DEF PollType
  <2>8. report' \in Seq(Reports)
    BY <2>2
  <2>9. \A r \in Ids' : report'[r].at <= clock'
    BY <2>6, <2>7
  <2> QED BY <2>5, <2>7, <2>8, <2>9
<1>3. ASSUME NEW q \in Ids, CommitReport(q) PROVE Goal
  <2> DEFINE l == \E n \in Ids : report[n].committed /\ report[n].at > report[q].at + 1
  <2>1. /\ report' = [report EXCEPT ![q] = [report[q] EXCEPT !.committed = TRUE, !.late = l]]
        /\ UNCHANGED <<clock, viewer>> /\ ~report[q].committed
    BY <1>3 DEF CommitReport, PollType
  <2>2. report[q] \in Reports /\ l \in BOOLEAN
    BY ReportFacts
  <2> HIDE DEF l
  <2>3. PICK new \in Reports : /\ new = [report[q] EXCEPT !.committed = TRUE, !.late = l]
                               /\ new.sub = report[q].sub /\ new.result = report[q].result
                               /\ new.at = report[q].at /\ new.committed /\ new.late = l
    <3>1. PICK old \in Reports : old = report[q]
      BY <2>2
    <3>2. PICK new : new = [old EXCEPT !.committed = TRUE, !.late = l]
      OBVIOUS
    <3>3. new \in Reports
      BY <2>2, <3>2 DEF Reports
    <3>4. new.sub = old.sub /\ new.result = old.result /\ new.at = old.at /\ new.committed /\ new.late = l
      BY <3>2 DEF Reports
    <3> QED BY <3>1, <3>2, <3>3, <3>4
  <2>4. /\ report' \in Seq(Reports) /\ Len(report') = Len(report)
        /\ \A r \in Ids : report'[r] = IF r = q THEN new ELSE report[r]
    BY <2>1, <2>3, ExceptSeq DEF PollType, Ids
  <2>5. Ids' = Ids
    BY <2>4 DEF Ids
  <2>6. ~l => \A n \in Ids : report[n].committed => report[n].at <= report[q].at + 1
    BY ReportFacts DEF l, Reports
  <2>7. \A r \in Ids : report[r].at <= clock
    BY DEF PollType
  <2> QED BY <2>1, <2>3, <2>4, <2>5, <2>6, <2>7, ReportFacts DEF ReportsKept, PollType
<1> HIDE DEF Goal
<1>4. Tick => Goal
  BY <1>1 DEF Tick, PollType
<1>5. ExpireCache \/ Poll \/ FlashUpdate \/ UNCHANGED vars => Goal
  BY <1>1 DEF ExpireCache, Poll, FlashUpdate, vars, PollType
<1>6. \A q \in DOMAIN request : Answer(q) \/ Receive(q) \/ Lose(q) => Goal
  BY <1>1 DEF Answer, Receive, Lose, PollType
<1>7. Goal
  BY <1>2, <1>3, <1>4, <1>5, <1>6, LiveSteps
<1> QED BY <1>7 DEF Goal

\* FirstOf is there: the reports of a submission in an answer have a first one.
LEMMA FirstFacts ==
    ASSUME NEW s \in Submissions, NEW R \in SUBSET Ids, ReportsOf(s) \cap R # {}
    PROVE  FirstOf(s, R) \in ReportsOf(s) \cap R
<1>1. ReportsOf(s) \cap R \in SUBSET Nat
  BY DEF ReportsOf, Ids
<1>2. \E r \in ReportsOf(s) \cap R : \A n \in ReportsOf(s) \cap R : r <= n
  BY <1>1, Smallest
<1> QED BY <1>2 DEF FirstOf

\* An answer that is received: its reports, and the newest time.
LEMMA Received ==
    ASSUME PollType, NEW q \in DOMAIN request, Receive(q)
    PROVE  /\ request[q].reports \subseteq Ids
           /\ lastJudgingTS' \in {lastJudgingTS} \cup {report[r].at : r \in request[q].reports}
           /\ lastJudgingTS' \in Nat
<1>1. request[q] \in Requests
  BY LenProperties, ElementOfSeq DEF PollType
<1>2. request[q].reports \subseteq Ids
  BY <1>1 DEF Requests
<1> DEFINE T == {lastJudgingTS} \cup {report[r].at : r \in request[q].reports}
<1>3. T \in SUBSET Nat /\ T # {} /\ \A x \in T : x <= clock
  BY <1>2, ReportFacts DEF PollType, Reports
<1>4. lastJudgingTS' = Max(T)
  BY DEF Receive
<1> HIDE DEF T
<1>5. Max(T) \in T
  BY <1>3, Largest DEF PollType
<1> QED BY <1>2, <1>3, <1>4, <1>5 DEF T

\* Types are kept.
LEMMA PollTypeStep ==
    ASSUME PollType, [Next]_vars
    PROVE  PollType'
<1>1. /\ report' \in Seq(Reports) /\ clock' \in Nat /\ viewer' = viewer /\ clock <= clock'
      /\ \A r \in Ids' : report'[r].at <= clock'
      /\ Len(report) \in Nat /\ Len(report') \in Nat /\ Len(report) <= Len(report')
  BY ReportsStep, ReportFacts DEF ReportsKept
<1>2. Ids \subseteq Ids'
  BY <1>1 DEF Ids
<1>3. Requests \subseteq Requests'
  BY <1>2 DEF Requests
<1>4. \A q \in Seq(Requests) : q \in Seq(Requests')
  BY <1>3, SeqMonotonic
<1> DEFINE Same1 == UNCHANGED page
           Same2 == UNCHANGED request
           Same3 == UNCHANGED cache
           Page == lastJudgingTS' \in Nat /\ lastJudgingTS' <= clock'
                   /\ submits' \in [Submissions -> 0 .. Len(report')]
           Asked == request' \in Seq(Requests')
           Cached == cache' \in [valid : BOOLEAN, reports : SUBSET Ids']
<1>5. Same1 => Page
  BY <1>1 DEF page, PollType
<1>6. Same2 => Asked
  BY <1>4 DEF PollType
<1>7. Same3 => Cached
  BY <1>2 DEF PollType
<1>8. ASSUME NEW q \in DOMAIN request PROVE request[q] \in Requests /\ q \in 1 .. Len(request)
  BY LenProperties, ElementOfSeq DEF PollType
<1>9. ASSUME NEW q \in DOMAIN request, Answer(q) PROVE Page /\ Asked /\ Cached
  <2>1. PICK reports \in {IF viewer # "other" THEN ReportsSince(request[q].from)
                          ELSE IF cache.valid THEN cache.reports ELSE ReportsSince(0)} :
          /\ request' = [request EXCEPT ![q] = [request[q] EXCEPT !.answered = TRUE, !.reports = reports]]
          /\ cache' = IF viewer = "other" THEN [valid |-> TRUE, reports |-> reports] ELSE cache
    BY <1>9 DEF Answer, PollType
  <2>2. reports \subseteq Ids
    BY DEF ReportsSince, PollType
  <2>3. [request[q] EXCEPT !.answered = TRUE, !.reports = reports] \in Requests
    BY <1>8, <2>2 DEF Requests
  <2>4. request' \in Seq(Requests)
    BY <1>8, <2>1, <2>3, ExceptSeq DEF PollType
  <2>5. Same1
    BY <1>9 DEF Answer
  <2> QED BY <1>2, <1>4, <1>5, <2>1, <2>2, <2>4, <2>5 DEF PollType
<1>10. ASSUME NEW q \in DOMAIN request, Receive(q) PROVE Page /\ Asked /\ Cached
  <2>1. request' = RemoveAt(request, q) /\ request' \in Seq(Requests) /\ Same3
    BY <1>8, <1>10, Removed DEF Receive, PollType
  <2>2. UNCHANGED <<clock, report>> /\ submits' = ProcessQueue(request[q].reports)
    BY <1>10 DEF Receive
  <2>3. /\ request[q].reports \subseteq Ids
        /\ lastJudgingTS' \in {lastJudgingTS} \cup {report[r].at : r \in request[q].reports}
        /\ lastJudgingTS' \in Nat
    BY <1>10, Received
  <2>4. lastJudgingTS' <= clock'
    BY <2>2, <2>3 DEF PollType
  <2>5. ASSUME NEW s \in Submissions PROVE ProcessQueue(request[q].reports)[s] \in 0 .. Len(report)
    <3>1. submits[s] \in 0 .. Len(report)
      BY DEF PollType
    <3>2. ReportsOf(s) \cap request[q].reports # {} =>
            FirstOf(s, request[q].reports) \in 0 .. Len(report)
      BY <1>1, <2>3, FirstFacts DEF Ids
    <3> QED BY <3>1, <3>2 DEF ProcessQueue
  <2>6. submits' \in [Submissions -> 0 .. Len(report')]
    BY <2>2, <2>5 DEF ProcessQueue
  <2> QED BY <1>4, <1>7, <2>1, <2>3, <2>4, <2>6
<1>11. ASSUME NEW q \in DOMAIN request, Lose(q) PROVE Page /\ Asked /\ Cached
  <2>1. request' = RemoveAt(request, q) /\ request' \in Seq(Requests) /\ Same1 /\ Same3
    BY <1>8, <1>11, Removed DEF Lose, PollType
  <2> QED BY <1>4, <1>5, <1>7, <2>1
<1>12. ASSUME Poll PROVE Page /\ Asked /\ Cached
  <2>1. [from |-> From, answered |-> FALSE, reports |-> {}] \in Requests
    BY DEF Requests, From, PollType
  <2>2. request' \in Seq(Requests) /\ Same1 /\ Same3
    BY <1>12, <2>1, AppendProperties DEF Poll, PollType
  <2> QED BY <1>4, <1>5, <1>7, <2>2
<1>13. ExpireCache => Same1 /\ Same2 /\ Cached
  BY DEF ExpireCache, NoCache
<1>14. Tick \/ FlashUpdate \/ UNCHANGED vars => Same1 /\ Same2 /\ Same3
  BY DEF Tick, FlashUpdate, vars, page
<1>15. \A s \in Submissions, result \in STRING : MakeReport(s, result) => Same1 /\ Same2 /\ Same3
  BY DEF MakeReport
<1>16. \A r \in Ids : CommitReport(r) => Same1 /\ Same2 /\ Same3
  BY DEF CommitReport
<1> HIDE DEF Same1, Same2, Same3, Page, Asked, Cached
<1>17. Page /\ Asked /\ Cached
  BY <1>5, <1>6, <1>7, <1>9, <1>10, <1>11, <1>12, <1>13, <1>14, <1>15, <1>16, LiveSteps
<1> QED BY <1>1, <1>17 DEF PollType, Page, Asked, Cached

-----------------------------------------------------------------------------
(* What is asked for *)

Visible == {r \in Ids : report[r].committed}

\* Nothing is asked for from a time that no visible report is after.
Behind(from) == from = 0 \/ \E n \in Visible : report[n].at > from

\* A report that the page should get.
Due(r) == /\ report[r].committed /\ ~report[r].late
          /\ Readable(report[r].sub) /\ submits[report[r].sub] = 0

\* An answer has a report, or nothing that was made more than a second later.
Has(reports, r) ==
    r \in reports \/ \A n \in reports : report[n].at <= report[r].at + 1

\* Whatever comes in whatever order brings the report, or leaves it to be asked for.
Promised(r) ==
    /\ report[r].at >= From
    /\ cache.valid => Has(cache.reports, r)
    /\ \A q \in DOMAIN request :
          /\ report[r].at >= request[q].from
          /\ request[q].answered => Has(request[q].reports, r)

Sources ==
    /\ Behind(From)
    /\ cache.reports \subseteq Visible
    /\ \A q \in DOMAIN request : Behind(request[q].from) /\ request[q].reports \subseteq Visible

PollInv == Sources /\ \A r \in Ids : Due(r) => Promised(r)

\* Requests are of their type.
LEMMA RequestFacts ==
    ASSUME PollType, NEW q \in DOMAIN request
    PROVE  /\ q \in 1 .. Len(request) /\ request[q] \in Requests
           /\ request[q].from \in Nat /\ request[q].reports \in SUBSET Ids
           /\ request[q].answered \in BOOLEAN
<1>1. q \in 1 .. Len(request)
  BY LenProperties DEF PollType
<1>2. request[q] \in Requests
  BY <1>1, ElementOfSeq DEF PollType
<1> QED BY <1>1, <1>2 DEF Requests

\* A report that becomes due now is not behind anything that was asked or
\* answered before.
LEMMA NewInTime ==
    ASSUME PollType, Sources, NEW r \in Ids,
           \A n \in Ids : report[n].committed => report[n].at <= report[r].at + 1
    PROVE  Promised(r)
<1>1. \A n \in Ids : report[n].at \in Nat
  BY ReportFacts DEF Reports
<1>2. ASSUME NEW from \in Nat, Behind(from) PROVE report[r].at >= from
  BY <1>1, <1>2 DEF Behind, Visible
<1>3. ASSUME NEW reports \in SUBSET Visible PROVE Has(reports, r)
  BY DEF Has, Visible
<1>4. From \in Nat
  BY DEF From, PollType
<1> QED BY <1>2, <1>3, <1>4, RequestFacts DEF Promised, Sources

\* What the page knows of a submission stays what it knows.
LEMMA KnownKept ==
    ASSUME PollType, [Next]_vars, NEW s \in Submissions, submits[s] # 0
    PROVE  submits'[s] = submits[s]
<1>1. UNCHANGED submits => submits'[s] = submits[s]
  OBVIOUS
<1>2. ASSUME NEW q \in DOMAIN request, Receive(q) PROVE submits'[s] = submits[s]
  <2>1. submits' = ProcessQueue(request[q].reports)
    BY <1>2 DEF Receive
  <2> QED BY <2>1 DEF ProcessQueue
<1>3. \A q \in DOMAIN request : Answer(q) \/ Lose(q) => UNCHANGED submits
  BY DEF Answer, Lose, page
<1>4. Tick \/ ExpireCache \/ Poll \/ FlashUpdate \/ UNCHANGED vars => UNCHANGED submits
  BY DEF Tick, ExpireCache, Poll, FlashUpdate, vars, page
<1>5. \A x \in Submissions, result \in STRING : MakeReport(x, result) => UNCHANGED submits
  BY DEF MakeReport, page
<1>6. \A r \in Ids : CommitReport(r) => UNCHANGED submits
  BY DEF CommitReport, page
<1> QED BY <1>1, <1>2, <1>3, <1>4, <1>5, <1>6, LiveSteps

\* A submission with a report that the page cannot read stays one.
LEMMA ReadableBefore ==
    ASSUME PollType, [Next]_vars, NEW s, Readable(s)'
    PROVE  Readable(s)
<1>1. ReportsKept /\ viewer' = viewer
  BY ReportsStep
<1>2. ASSUME NEW r \in ReportsOf(s) PROVE r \in ReportsOf(s)' /\ Shown(r)' = Shown(r)
  <2>1. r \in Ids /\ r \in Ids' /\ report[r].sub = s
    BY <1>1, ReportFacts DEF ReportsOf, ReportsKept, Ids
  <2>2. report'[r].sub = s /\ report'[r].result = report[r].result
    BY <1>1, <2>1 DEF ReportsKept
  <2> QED BY <1>1, <2>1, <2>2 DEF ReportsOf, Shown
<1> QED BY <1>2 DEF Readable

\* What is due after a step was due before it, or has just become visible.
LEMMA DueBefore ==
    ASSUME PollType, PollInv, [Next]_vars, NEW r \in Ids', Due(r)'
    PROVE  /\ r \in Ids /\ report'[r].at = report[r].at /\ report'[r].sub = report[r].sub
           /\ submits[report[r].sub] = 0 /\ Readable(report[r].sub)
           /\ Promised(r)
<1>1. ReportsKept
  BY ReportsStep
<1>2. r \in Ids
  BY <1>1 DEF ReportsKept, Due
<1>3. report'[r].at = report[r].at /\ report'[r].sub = report[r].sub /\ report[r].sub \in Submissions
  BY <1>1, <1>2, ReportFacts DEF ReportsKept, Reports
<1>4. submits[report[r].sub] = 0
  BY <1>3, KnownKept DEF Due
<1>5. Readable(report[r].sub)
  BY <1>3, ReadableBefore DEF Due
<1>6. CASE report[r].committed
  <2>1. Due(r)
    BY <1>1, <1>2, <1>4, <1>5, <1>6 DEF Due, ReportsKept
  <2> QED BY <1>2, <1>3, <1>4, <1>5, <2>1 DEF PollInv
<1>7. CASE ~report[r].committed
  <2>1. \A n \in Ids : report[n].committed => report[n].at <= report[r].at + 1
    BY <1>1, <1>2, <1>7 DEF ReportsKept, Due
  <2> QED BY <1>2, <1>3, <1>4, <1>5, <2>1, NewInTime DEF PollInv
<1> QED BY <1>6, <1>7

\* What the view answers a request with.
Given(q) == IF viewer # "other" THEN ReportsSince(request[q].from)
            ELSE IF cache.valid THEN cache.reports ELSE ReportsSince(0)

\* An answer has visible reports, and each that was promised.
LEMMA GivenFacts ==
    ASSUME PollType, Sources, NEW q \in DOMAIN request
    PROVE  /\ Given(q) \subseteq Visible
           /\ \A r \in Visible : Promised(r) => Has(Given(q), r)
<1>1. \A n \in Ids : report[n].at \in Nat
  BY ReportFacts DEF Reports
<1>2. \A from : ReportsSince(from) \subseteq Visible
  BY DEF ReportsSince, Visible
<1>3. ASSUME NEW r \in Visible, Promised(r) PROVE Has(Given(q), r)
  <2>1. CASE viewer # "other"
    BY <1>3, <2>1 DEF Given, Has, Promised, ReportsSince, Visible
  <2>2. CASE viewer = "other" /\ cache.valid
    BY <1>3, <2>2 DEF Given, Promised
  <2>3. CASE viewer = "other" /\ ~cache.valid
    <3>1. r \in ReportsSince(0)
      BY <1>1 DEF ReportsSince, Visible
    <3> QED BY <2>3, <3>1 DEF Given, Has
  <2> QED BY <2>1, <2>2, <2>3
<1> QED BY <1>2, <1>3 DEF Given, Sources

\* Where the requests of the next state come from.
LEMMA RequestStep ==
    ASSUME PollType, [Next]_vars, NEW i \in DOMAIN request'
    PROVE  \/ \E q \in DOMAIN request : request'[i] = request[q]
           \/ request'[i] = [from |-> From, answered |-> FALSE, reports |-> {}]
           \/ \E q \in DOMAIN request :
                 /\ Answer(q)
                 /\ request'[i].from = request[q].from
                 /\ request'[i].reports = Given(q)
<1>1. CASE UNCHANGED request
  BY <1>1
<1>2. CASE Poll
  <2> DEFINE new == [from |-> From, answered |-> FALSE, reports |-> {}]
  <2>1. new \in Requests /\ request' = Append(request, new)
    BY <1>2 DEF Poll, Requests, From, PollType
  <2> HIDE DEF new
  <2>2. /\ Len(request') = Len(request) + 1 /\ request' \in Seq(Requests)
        /\ \A j \in 1 .. Len(request) : request'[j] = request[j]
        /\ request'[Len(request) + 1] = new
    BY <2>1, AppendProperties DEF PollType
  <2>3. Len(request) \in Nat /\ DOMAIN request = 1 .. Len(request) /\ i \in 1 .. Len(request) + 1
    BY <2>2, LenProperties DEF PollType
  <2>4. CASE i = Len(request) + 1
    BY <2>2, <2>4 DEF new
  <2>5. CASE i \in 1 .. Len(request)
    BY <2>2, <2>3, <2>5
  <2> QED BY <2>3, <2>4, <2>5
<1>3. ASSUME NEW q \in DOMAIN request, Answer(q)
      PROVE  \E j \in DOMAIN request : \/ request'[i] = request[j]
                                       \/ /\ Answer(j)
                                          /\ request'[i].from = request[j].from
                                          /\ request'[i].reports = Given(j)
  <2>1. request' = [request EXCEPT ![q] = [request[q] EXCEPT !.answered = TRUE, !.reports = Given(q)]]
    BY <1>3 DEF Answer, Given, PollType
  <2>2. i \in DOMAIN request
    BY <2>1
  <2>3. CASE i = q
    <3>1. request'[i] = [request[q] EXCEPT !.answered = TRUE, !.reports = Given(q)]
      BY <2>1, <2>3
    <3>2. request[q] \in Requests
      BY RequestFacts
    <3>3. request'[i].from = request[q].from /\ request'[i].reports = Given(q)
      BY <3>1, <3>2 DEF Requests
    <3> QED BY <1>3, <3>3
  <2>4. CASE i # q
    BY <2>1, <2>2, <2>4
  <2> QED BY <2>3, <2>4
<1>4. ASSUME NEW q \in DOMAIN request, Receive(q) \/ Lose(q)
      PROVE  \E j \in DOMAIN request : request'[i] = request[j]
  <2>1. request' = RemoveAt(request, q) /\ q \in 1 .. Len(request)
    BY <1>4, RequestFacts DEF Receive, Lose
  <2> QED BY <2>1, Removed DEF PollType
<1>5. Tick \/ ExpireCache \/ FlashUpdate \/ UNCHANGED vars => UNCHANGED request
  BY DEF Tick, ExpireCache, FlashUpdate, vars
<1>6. \A x \in Submissions, result \in STRING : MakeReport(x, result) => UNCHANGED request
  BY DEF MakeReport
<1>7. \A r \in Ids : CommitReport(r) => UNCHANGED request
  BY DEF CommitReport
<1> QED BY <1>1, <1>2, <1>3, <1>4, <1>5, <1>6, <1>7, LiveSteps

\* Where the cache of the next state comes from.
LEMMA CacheStep ==
    ASSUME PollType, [Next]_vars
    PROVE  \/ UNCHANGED cache
           \/ cache'.valid = FALSE /\ cache'.reports = {}
           \/ \E q \in DOMAIN request : Answer(q) /\ cache'.reports = Given(q)
<1>1. ASSUME NEW q \in DOMAIN request, Answer(q)
      PROVE  UNCHANGED cache \/ cache'.reports = Given(q)
  BY <1>1 DEF Answer, Given
<1>2. ExpireCache => cache'.valid = FALSE /\ cache'.reports = {}
  BY DEF ExpireCache, NoCache
<1>3. \A q \in DOMAIN request : Receive(q) \/ Lose(q) => UNCHANGED cache
  BY DEF Receive, Lose
<1>4. Tick \/ Poll \/ FlashUpdate \/ UNCHANGED vars => UNCHANGED cache
  BY DEF Tick, Poll, FlashUpdate, vars
<1>5. \A x \in Submissions, result \in STRING : MakeReport(x, result) => UNCHANGED cache
  BY DEF MakeReport
<1>6. \A r \in Ids : CommitReport(r) => UNCHANGED cache
  BY DEF CommitReport
<1> QED BY <1>1, <1>2, <1>3, <1>4, <1>5, <1>6, LiveSteps

\* Only a report that is received changes what is asked for next.
LEMMA FromStep ==
    ASSUME PollType, [Next]_vars
    PROVE  \/ From' = From
           \/ \E q \in DOMAIN request :
                 /\ Receive(q)
                 /\ \E n \in request[q].reports :
                       /\ n \in Ids
                       /\ lastJudgingTS' = report[n].at
<1>1. UNCHANGED lastJudgingTS => From' = From
  BY DEF From
<1>2. ASSUME NEW q \in DOMAIN request, Receive(q)
      PROVE  \/ UNCHANGED lastJudgingTS
             \/ \E n \in request[q].reports : n \in Ids /\ lastJudgingTS' = report[n].at
  BY <1>2, Received
<1>3. \A q \in DOMAIN request : Answer(q) \/ Lose(q) => UNCHANGED lastJudgingTS
  BY DEF Answer, Lose, page
<1>4. Tick \/ Poll \/ ExpireCache \/ FlashUpdate \/ UNCHANGED vars => UNCHANGED lastJudgingTS
  BY DEF Tick, Poll, ExpireCache, FlashUpdate, vars, page
<1>5. \A x \in Submissions, result \in STRING : MakeReport(x, result) => UNCHANGED lastJudgingTS
  BY DEF MakeReport, page
<1>6. \A r \in Ids : CommitReport(r) => UNCHANGED lastJudgingTS
  BY DEF CommitReport, page
<1> QED BY <1>1, <1>2, <1>3, <1>4, <1>5, <1>6, LiveSteps

\* What is visible stays so, with its time.
LEMMA VisibleKept ==
    ASSUME PollType, [Next]_vars, NEW n \in Visible
    PROVE  n \in Visible' /\ report'[n].at = report[n].at
BY ReportsStep, ReportFacts DEF Visible, ReportsKept, Ids

\* Only reports that are visible change what is asked for.
LEMMA SourcesStep ==
    ASSUME PollType, Sources, [Next]_vars
    PROVE  Sources'
<1>1. ASSUME NEW from \in Nat, Behind(from)
      PROVE  from = 0 \/ \E n \in Visible' : report'[n].at > from
  BY <1>1, VisibleKept DEF Behind
<1>2. Visible \subseteq Visible'
  BY VisibleKept
<1>3. From \in Nat /\ From' \in Nat
  BY PollTypeStep DEF From, PollType
<1>4. Behind(From)'
  <2>1. CASE From' = From
    BY <1>1, <1>3, <2>1 DEF Sources, Behind
  <2>2. ASSUME NEW q \in DOMAIN request, NEW n \in request[q].reports, n \in Ids,
               lastJudgingTS' = report[n].at
        PROVE  Behind(From)'
    <3>1. n \in Visible' /\ report'[n].at = report[n].at
      BY <2>2, VisibleKept DEF Sources
    <3>2. report[n].at \in Nat
      BY <2>2, ReportFacts DEF Reports
    <3>3. From' = 0 \/ report'[n].at > From'
      BY <2>2, <3>1, <3>2 DEF From
    <3> QED BY <3>1, <3>3 DEF Behind
  <2> QED BY <2>1, <2>2, FromStep
<1>5. cache'.reports \subseteq Visible'
  BY <1>2, CacheStep, GivenFacts DEF Sources
<1>6. ASSUME NEW i \in DOMAIN request'
      PROVE  Behind(request[i].from)' /\ request'[i].reports \subseteq Visible'
  <2>1. ASSUME NEW q \in DOMAIN request, request'[i].from = request[q].from
        PROVE  Behind(request[i].from)'
    <3>1. request[q].from \in Nat /\ Behind(request[q].from)
      BY RequestFacts DEF Sources
    <3> QED BY <1>1, <2>1, <3>1 DEF Behind
  <2>2. ASSUME NEW q \in DOMAIN request, request'[i] = request[q]
        PROVE  request'[i].reports \subseteq Visible'
    BY <1>2, <2>2 DEF Sources
  <2>3. ASSUME request'[i] = [from |-> From, answered |-> FALSE, reports |-> {}]
        PROVE  Behind(request[i].from)' /\ request'[i].reports \subseteq Visible'
    BY <1>1, <1>3, <2>3 DEF Sources, Behind
  <2>4. ASSUME NEW q \in DOMAIN request, request'[i].reports = Given(q)
        PROVE  request'[i].reports \subseteq Visible'
    BY <1>2, <2>4, GivenFacts
  <2> QED BY <2>1, <2>2, <2>3, <2>4, RequestStep
<1> QED BY <1>4, <1>5, <1>6 DEF Sources

\* A report that was received is not due any more.
LEMMA ReceivedIsKnown ==
    ASSUME PollType, NEW q \in DOMAIN request, Receive(q), NEW r \in request[q].reports,
           r \in Ids, Readable(report[r].sub)
    PROVE  submits'[report[r].sub] # 0
<1> DEFINE s == report[r].sub
           R == request[q].reports
<1>1. s \in Submissions /\ R \in SUBSET Ids /\ r \in ReportsOf(s) \cap R
  BY ReportFacts, RequestFacts DEF Reports, ReportsOf
<1>2. FirstOf(s, R) \in ReportsOf(s) \cap R
  BY <1>1, FirstFacts
<1>3. Shown(FirstOf(s, R)) \in DOMAIN StatesMap
  BY <1>2 DEF Readable
<1>4. FirstOf(s, R) # 0
  BY <1>2 DEF ReportsOf, Ids
<1>5. submits' = ProcessQueue(R)
  BY DEF Receive
<1>6. ProcessQueue(R)[s] = IF submits[s] = 0 THEN FirstOf(s, R) ELSE submits[s]
  BY <1>1, <1>3 DEF ProcessQueue
<1> QED BY <1>4, <1>5, <1>6

\* A report that is due after a step will still come.
LEMMA PromisedStep ==
    ASSUME PollType, PollInv, [Next]_vars, NEW r \in Ids', Due(r)'
    PROVE  Promised(r)'
<1>1. /\ r \in Ids /\ report'[r].at = report[r].at /\ report'[r].sub = report[r].sub
      /\ submits[report[r].sub] = 0 /\ Readable(report[r].sub)
      /\ Promised(r)
  BY DueBefore
<1>2. Sources
  BY DEF PollInv
<1>3. report[r].at \in Nat
  BY <1>1, ReportFacts DEF Reports
<1>4. \A n \in Visible : report'[n].at = report[n].at
  BY VisibleKept
<1>5. ASSUME NEW q \in DOMAIN request, Answer(q) PROVE Has(Given(q), r)
  <2>1. report' = report
    BY <1>5 DEF Answer
  <2>2. r \in Visible
    BY <1>1, <2>1 DEF Visible, Due
  <2> QED BY <1>1, <1>2, <2>2, GivenFacts
<1>6. ASSUME NEW reports \in SUBSET Visible, Has(reports, r)
      PROVE  r \in reports \/ \A n \in reports : report'[n].at <= report'[r].at + 1
  BY <1>1, <1>4, <1>6 DEF Has
<1>7. report'[r].at >= From'
  <2>1. CASE From' = From
    BY <1>1, <2>1 DEF Promised
  <2>2. ASSUME NEW q \in DOMAIN request, Receive(q), NEW n \in request[q].reports, n \in Ids,
               lastJudgingTS' = report[n].at
        PROVE  report'[r].at >= From'
    <3>1. request[q].answered
      BY <2>2 DEF Receive
    <3>2. Has(request[q].reports, r)
      BY <1>1, <3>1 DEF Promised
    <3>3. r \notin request[q].reports
      BY <1>1, <2>2, ReceivedIsKnown DEF Due
    <3>4. report[n].at <= report[r].at + 1 /\ report[n].at \in Nat
      BY <2>2, <3>2, <3>3, ReportFacts DEF Has, Reports
    <3> QED BY <1>1, <1>3, <2>2, <3>4 DEF From
  <2> QED BY <2>1, <2>2, FromStep
<1>8. ASSUME cache'.valid PROVE Has(cache.reports, r)'
  <2>1. CASE UNCHANGED cache
    <3>1. cache.reports \in SUBSET Visible /\ Has(cache.reports, r)
      BY <1>1, <1>2, <1>8, <2>1 DEF Promised, Sources
    <3> QED BY <1>6, <2>1, <3>1 DEF Has
  <2>2. ASSUME NEW q \in DOMAIN request, Answer(q), cache'.reports = Given(q)
        PROVE  Has(cache.reports, r)'
    BY <1>2, <1>5, <1>6, <2>2, GivenFacts DEF Has
  <2> QED BY <1>8, <2>1, <2>2, CacheStep
<1>9. ASSUME NEW i \in DOMAIN request'
      PROVE  /\ report'[r].at >= request'[i].from
             /\ request'[i].answered => Has(request[i].reports, r)'
  <2>1. ASSUME NEW q \in DOMAIN request, request'[i].from = request[q].from
        PROVE  report'[r].at >= request'[i].from
    BY <1>1, <2>1 DEF Promised
  <2>2. ASSUME NEW q \in DOMAIN request, request'[i] = request[q], request'[i].answered
        PROVE  Has(request[i].reports, r)'
    <3>1. request[q].reports \in SUBSET Visible /\ Has(request[q].reports, r)
      BY <1>1, <1>2, <2>2 DEF Promised, Sources
    <3> QED BY <1>6, <2>2, <3>1 DEF Has
  <2>3. ASSUME request'[i] = [from |-> From, answered |-> FALSE, reports |-> {}]
        PROVE  report'[r].at >= request'[i].from /\ ~request'[i].answered
    BY <1>1, <2>3 DEF Promised
  <2>4. ASSUME NEW q \in DOMAIN request, Answer(q), request'[i].reports = Given(q)
        PROVE  Has(request[i].reports, r)'
    BY <1>2, <1>5, <1>6, <2>4, GivenFacts DEF Has
  <2> QED BY <2>1, <2>2, <2>3, <2>4, RequestStep
<1> QED BY <1>7, <1>8, <1>9 DEF Promised

\* The invariant holds.
LEMMA PollInvariant == Spec => [](PollType /\ PollInv)
<1>1. Init => PollType /\ PollInv
  <2> SUFFICES ASSUME Init PROVE PollType /\ PollInv
    OBVIOUS
  <2>1. /\ clock = 1 /\ report = << >> /\ viewer \in Viewers /\ cache = [valid |-> FALSE, reports |-> {}]
        /\ request = << >> /\ submits = [s \in Submissions |-> 0] /\ lastJudgingTS = 0
    BY DEF Init, NoCache
  <2>2. Ids = {}
    BY <2>1 DEF Ids
  <2>3. report \in Seq(Reports) /\ request \in Seq(Requests)
    BY <2>1, EmptySeq
  <2>4. PollType
    BY <2>1, <2>2, <2>3 DEF PollType
  <2>5. From = 0 /\ DOMAIN request = {}
    BY <2>1 DEF From
  <2> QED BY <2>1, <2>2, <2>4, <2>5 DEF PollInv, Sources, Behind
<1>2. PollType /\ PollInv /\ [Next]_vars => PollType' /\ PollInv'
  <2> SUFFICES ASSUME PollType, PollInv, [Next]_vars PROVE PollType' /\ PollInv'
    OBVIOUS
  <2>1. Sources'
    BY SourcesStep DEF PollInv
  <2>2. \A r \in Ids' : Due(r)' => Promised(r)'
    BY PromisedStep
  <2> QED BY <2>1, <2>2, PollTypeStep DEF PollInv
<1> QED BY <1>1, <1>2, PTL DEF Spec

\* Polling misses no report that is visible in time, for any number of reports
\* and of requests that overlap, are answered from the cache, come in any order or
\* get lost.
THEOREM SkipsNothing == Spec => []NothingSkipped
<1>1. PollType /\ PollInv => NothingSkipped
  <2> SUFFICES ASSUME PollType, PollInv, NEW r \in Ids, Due(r) PROVE r \in ReportsSince(From)
    BY DEF NothingSkipped, Due
  <2> QED BY DEF PollInv, Promised, ReportsSince, Due
<1> QED BY <1>1, PollInvariant, PTL
-----------------------------------------------------------------------------
(* Induction, with a set for what is proved: these provers cannot            *)
(* instantiate the library's theorems, which take an operator.               *)

\* A set with 0 that goes on by one has all numbers.
LEMMA NatSet ==
    ASSUME NEW P \in SUBSET Nat, 0 \in P, \A n \in P : n + 1 \in P
    PROVE  P = Nat
<1> SUFFICES ASSUME Nat \ P # {} PROVE FALSE
  OBVIOUS
<1>1. Nat \ P \in SUBSET Nat
  OBVIOUS
<1>2. PICK x \in Nat \ P : \A y \in Nat \ P : x <= y
  BY <1>1, Smallest
<1>3. x - 1 \in Nat /\ x - 1 \in P
  BY <1>2
<1>4. (x - 1) + 1 \in P
  BY <1>3
<1> QED BY <1>2, <1>4

\* The equation of the function that FoldLeft picks.
FoldStep(base, o, n, it) == [s \in SUBSET (1 .. n) |->
    IF s = {} THEN base ELSE ProcessEvent(it[s \ {Max(s)}], o[Max(s)])]

Folded(base, o) == FoldLeft(ProcessEvent, base, o)

\* The newest of some indexes.
LEMMA MaxOfIndexes ==
    ASSUME NEW n \in Nat, NEW s \in SUBSET (1 .. n), s # {}
    PROVE  Max(s) \in s /\ \A i \in s : i <= Max(s)
<1>1. s \in SUBSET Nat /\ \A x \in s : x <= n
  OBVIOUS
<1>2. Max(s) \in s /\ \A i \in s : Max(s) >= i
  BY <1>1, Largest
<1> QED BY <1>1, <1>2

\* There is such a function.
LEMMA FoldExists ==
    ASSUME NEW n \in Nat, NEW base, NEW o
    PROVE  \E it : it = FoldStep(base, o, n, it)
<1> DEFINE P == {k \in Nat : \E it : it = FoldStep(base, o, k, it)}
<1>1. 0 \in P
  <2> DEFINE it == [s \in {{}} |-> base]
  <2>1. SUBSET (1 .. 0) = {{}}
    OBVIOUS
  <2>2. it = FoldStep(base, o, 0, it)
    BY <2>1 DEF FoldStep
  <2> QED BY <2>2
<1>2. ASSUME NEW k \in P PROVE k + 1 \in P
  <2>1. PICK g : g = FoldStep(base, o, k, g)
    OBVIOUS
  <2> DEFINE h == [s \in SUBSET (1 .. k + 1) |->
                      IF k + 1 \in s THEN ProcessEvent(g[s \ {k + 1}], o[k + 1]) ELSE g[s]]
  <2>2. ASSUME NEW s \in SUBSET (1 .. k + 1)
        PROVE  h[s] = IF s = {} THEN base ELSE ProcessEvent(h[s \ {Max(s)}], o[Max(s)])
    <3>1. CASE k + 1 \in s
      <4>1. Max(s) = k + 1
        <5>1. k \in Nat /\ k + 1 \in Nat /\ s # {}
          BY <3>1
        <5> HIDE DEF P, h
        <5>2. Max(s) \in s /\ \A i \in s : i <= Max(s)
          BY <5>1, MaxOfIndexes
        <5>3. Max(s) \in 1 .. k + 1 /\ k + 1 <= Max(s)
          BY <3>1, <5>2
        <5> QED BY <5>1, <5>3
      <4>2. s \ {k + 1} \in SUBSET (1 .. k + 1) /\ k + 1 \notin s \ {k + 1}
        OBVIOUS
      <4>3. h[s \ {k + 1}] = g[s \ {k + 1}]
        BY <4>2
      <4> HIDE DEF h
      <4>4. h[s] = ProcessEvent(g[s \ {k + 1}], o[k + 1])
        BY <3>1 DEF h
      <4> QED BY <3>1, <4>1, <4>3, <4>4
    <3>2. CASE k + 1 \notin s
      <4>1. s \in SUBSET (1 .. k) /\ h[s] = g[s]
        BY <3>2
      <4>2. g[s] = IF s = {} THEN base ELSE ProcessEvent(g[s \ {Max(s)}], o[Max(s)])
        BY <2>1, <4>1 DEF FoldStep
      <4>3. s \ {Max(s)} \in SUBSET (1 .. k + 1) /\ k + 1 \notin s \ {Max(s)}
        BY <3>2
      <4>4. h[s \ {Max(s)}] = g[s \ {Max(s)}]
        BY <4>3
      <4> HIDE DEF h
      <4> QED BY <4>1, <4>2, <4>4
    <3> QED BY <3>1, <3>2
  <2>3. h = FoldStep(base, o, k + 1, h)
    <3>1. DOMAIN h = SUBSET (1 .. k + 1) /\ h = [s \in SUBSET (1 .. k + 1) |-> h[s]]
      OBVIOUS
    <3> HIDE DEF h
    <3> QED BY <2>2, <3>1, Zenon DEF FoldStep
  <2> HIDE DEF h
  <2> QED BY <2>3
<1> HIDE DEF P
<1>3. P = Nat
  <2>1. P \in SUBSET Nat
    BY DEF P
  <2> QED BY <1>1, <1>2, <2>1, NatSet
<1> QED BY <1>3 DEF P

\* A fold goes through the sequence event by event.
LEMMA FoldValues ==
    ASSUME NEW n \in Nat, NEW base, NEW o, DOMAIN o = 1 .. n
    PROVE  \E v : /\ v[0] = base
                  /\ \A k \in 0 .. n - 1 : v[k + 1] = ProcessEvent(v[k], o[k + 1])
                  /\ v[n] = Folded(base, o)
<1>1. PICK g : g = FoldStep(base, o, n, g)
  BY FoldExists
<1>2. PICK it : it = FoldStep(base, o, n, it) /\ Folded(base, o) = it[1 .. n]
  BY <1>1, Zenon DEF Folded, FoldLeft, MapThenFoldSet, FoldStep
<1> DEFINE v == [k \in 0 .. n |-> it[1 .. k]]
<1>3. v[0] = base
  <2>1. 1 .. 0 = {}
    OBVIOUS
  <2> QED BY <1>2, <2>1 DEF FoldStep
<1>4. ASSUME NEW k \in 0 .. n - 1 PROVE v[k + 1] = ProcessEvent(v[k], o[k + 1])
  <2>1. 1 .. k + 1 \in SUBSET (1 .. n) /\ k + 1 \in 1 .. k + 1
    OBVIOUS
  <2>2. Max(1 .. k + 1) = k + 1
    <3>1. Max(1 .. k + 1) \in 1 .. k + 1 /\ k + 1 <= Max(1 .. k + 1)
      BY <2>1, MaxOfIndexes
    <3> QED BY <3>1
  <2>3. (1 .. k + 1) \ {k + 1} = 1 .. k
    OBVIOUS
  <2>4. it[1 .. k + 1] = ProcessEvent(it[(1 .. k + 1) \ {Max(1 .. k + 1)}], o[Max(1 .. k + 1)])
    BY <1>2, <2>1, Zenon DEF FoldStep
  <2>5. v[k + 1] = it[1 .. k + 1] /\ v[k] = it[1 .. k]
    OBVIOUS
  <2> QED BY <2>2, <2>3, <2>4, <2>5
<1>5. v[n] = Folded(base, o)
  BY <1>2
<1> HIDE DEF v
<1> QED BY <1>3, <1>4, <1>5
-----------------------------------------------------------------------------
(* Sums *)

\* The equation of the function that MapThenSumSet picks, and its value.
OneOf(s) == CHOOSE x \in s : TRUE
SumStep(f, S, it) ==
    [s \in SUBSET S |-> IF s = {} THEN 0 ELSE f[OneOf(s)] + it[s \ {OneOf(s)}]]
Total(f, S) == (CHOOSE it : it = SumStep(f, S, it))[S]

\* Taking an element from a set.
LEMMA OneLess ==
    ASSUME NEW S, IsFiniteSet(S), NEW s \in SUBSET S
    PROVE  /\ Cardinality(s) \in Nat /\ Cardinality(s) <= Cardinality(S)
           /\ Cardinality(s) = 0 <=> s = {}
           /\ s # {} => /\ OneOf(s) \in s /\ s \ {OneOf(s)} \in SUBSET S
                        /\ Cardinality(s \ {OneOf(s)}) = Cardinality(s) - 1
<1>1. IsFiniteSet(s) /\ Cardinality(s) <= Cardinality(S)
  BY FS_Subset
<1>2. Cardinality(s) \in Nat /\ (Cardinality(s) = 0 <=> s = {})
  BY <1>1, FS_CardinalityType, FS_EmptySet
<1>3. s # {} => OneOf(s) \in s
  BY DEF OneOf
<1>4. s # {} => Cardinality(s \ {OneOf(s)}) = Cardinality(s) - 1
  BY <1>1, <1>3, FS_RemoveElement
<1> QED BY <1>1, <1>2, <1>3, <1>4

\* What holds of the empty set, and of a set if it holds of it less an element,
\* holds of all subsets of a finite set.
LEMMA SubsetInduction ==
    ASSUME NEW S, IsFiniteSet(S), NEW Q \in SUBSET SUBSET S, {} \in Q,
           \A s \in SUBSET S : s # {} /\ s \ {OneOf(s)} \in Q => s \in Q
    PROVE  Q = SUBSET S
<1> DEFINE P == {k \in Nat : \A s \in SUBSET S : Cardinality(s) = k => s \in Q}
<1>1. 0 \in P
  BY OneLess
<1>2. ASSUME NEW k \in P PROVE k + 1 \in P
  <2>1. ASSUME NEW s \in SUBSET S, Cardinality(s) = k + 1 PROVE s \in Q
    <3>1. k \in Nat /\ \A t \in SUBSET S : Cardinality(t) = k => t \in Q
      OBVIOUS
    <3>2. s # {} /\ s \ {OneOf(s)} \in SUBSET S /\ Cardinality(s \ {OneOf(s)}) = (k + 1) - 1
      BY <2>1, <3>1, OneLess
    <3> QED BY <3>1, <3>2
  <2> QED BY <2>1
<1>3. P = Nat
  <2>1. P \in SUBSET Nat
    OBVIOUS
  <2> HIDE DEF P
  <2> QED BY <1>1, <1>2, <2>1, NatSet
<1>4. \A s \in SUBSET S : Cardinality(s) \in P
  BY <1>3, OneLess
<1> QED BY <1>4

\* There is one such function.
LEMMA SumExists ==
    ASSUME NEW S, IsFiniteSet(S), NEW f
    PROVE  \E it : it = SumStep(f, S, it)
<1> DEFINE Below(k) == {s \in SUBSET S : Cardinality(s) <= k}
           Sums(k, it) == \A s \in Below(k) :
               it[s] = IF s = {} THEN 0 ELSE f[OneOf(s)] + it[s \ {OneOf(s)}]
           P == {k \in Nat : \E it : DOMAIN it = SUBSET S /\ it = [s \in SUBSET S |-> it[s]] /\ Sums(k, it)}
<1>1. 0 \in P
  <2> DEFINE it == [s \in SUBSET S |-> 0]
  <2>1. ASSUME NEW s \in Below(0)
        PROVE  it[s] = IF s = {} THEN 0 ELSE f[OneOf(s)] + it[s \ {OneOf(s)}]
    <3>1. s \in SUBSET S /\ Cardinality(s) <= 0
      OBVIOUS
    <3>2. Cardinality(s) \in Nat /\ (Cardinality(s) = 0 <=> s = {})
      BY <3>1, OneLess
    <3>3. s = {}
      BY <3>1, <3>2
    <3> QED BY <3>3
  <2>2. DOMAIN it = SUBSET S /\ it = [s \in SUBSET S |-> it[s]]
    OBVIOUS
  <2> HIDE DEF it
  <2>3. Sums(0, it)
    BY <2>1
  <2> HIDE DEF Sums
  <2> QED BY <2>2, <2>3
<1>2. ASSUME NEW k \in P PROVE k + 1 \in P
  <2>1. k \in Nat /\ \E it : DOMAIN it = SUBSET S /\ it = [s \in SUBSET S |-> it[s]] /\ Sums(k, it)
    OBVIOUS
  <2>2. PICK g : DOMAIN g = SUBSET S /\ Sums(k, g)
    BY <2>1
  <2> DEFINE h == [s \in SUBSET S |->
                      IF Cardinality(s) = k + 1 THEN f[OneOf(s)] + g[s \ {OneOf(s)}] ELSE g[s]]
  <2>3. ASSUME NEW s \in Below(k + 1)
        PROVE  h[s] = IF s = {} THEN 0 ELSE f[OneOf(s)] + h[s \ {OneOf(s)}]
    <3>0. s \in SUBSET S /\ Cardinality(s) <= k + 1
      OBVIOUS
    <3>1. /\ Cardinality(s) \in Nat /\ (Cardinality(s) = 0 <=> s = {})
          /\ s # {} => /\ s \ {OneOf(s)} \in SUBSET S
                       /\ Cardinality(s \ {OneOf(s)}) = Cardinality(s) - 1
      BY <3>0, OneLess
    <3>2. s # {} => h[s \ {OneOf(s)}] = g[s \ {OneOf(s)}]
      BY <2>1, <3>0, <3>1
    <3>3. CASE Cardinality(s) = k + 1
      <4>1. h[s] = f[OneOf(s)] + g[s \ {OneOf(s)}]
        BY <3>0, <3>3
      <4> HIDE DEF h
      <4> QED BY <2>1, <3>1, <3>2, <3>3, <4>1
    <3>4. CASE Cardinality(s) # k + 1
      <4>1. h[s] = g[s] /\ s \in Below(k)
        BY <2>1, <3>0, <3>1, <3>4
      <4> HIDE DEF h
      <4> QED BY <2>2, <3>2, <4>1
    <3> QED BY <3>3, <3>4
  <2>4. DOMAIN h = SUBSET S /\ h = [s \in SUBSET S |-> h[s]]
    OBVIOUS
  <2> HIDE DEF h
  <2>5. Sums(k + 1, h)
    BY <2>3
  <2> HIDE DEF Sums
  <2> QED BY <2>1, <2>4, <2>5
<1>3. P = Nat
  <2>1. P \in SUBSET Nat
    OBVIOUS
  <2> HIDE DEF P
  <2> QED BY <1>1, <1>2, <2>1, NatSet
<1>4. Cardinality(S) \in P
  BY <1>3, FS_CardinalityType
<1>5. PICK it : it = [s \in SUBSET S |-> it[s]] /\ Sums(Cardinality(S), it)
  BY <1>4
<1>6. \A s \in SUBSET S : s \in Below(Cardinality(S))
  BY OneLess
<1>7. it = SumStep(f, S, it)
  <2>1. \A s \in SUBSET S : it[s] = IF s = {} THEN 0 ELSE f[OneOf(s)] + it[s \ {OneOf(s)}]
    BY <1>5, <1>6
  <2> QED BY <1>5, <2>1, Zenon DEF SumStep
<1> QED BY <1>7

\* Functions with the same values on S have the same sums.
LEMMA SumSame ==
    ASSUME NEW S, IsFiniteSet(S), NEW f, NEW h, \A x \in S : f[x] = h[x],
           NEW i, i = SumStep(f, S, i), NEW j, j = SumStep(h, S, j)
    PROVE  i = j
<1> DEFINE Q == {s \in SUBSET S : i[s] = j[s]}
<1>1. {} \in Q
  BY DEF SumStep
<1>2. ASSUME NEW s \in SUBSET S, s # {}, s \ {OneOf(s)} \in Q PROVE s \in Q
  <2>1. OneOf(s) \in S
    BY <1>2, OneLess
  <2>2. i[s] = f[OneOf(s)] + i[s \ {OneOf(s)}] /\ j[s] = h[OneOf(s)] + j[s \ {OneOf(s)}]
    BY <1>2, Zenon DEF SumStep
  <2> QED BY <1>2, <2>1, <2>2
<1>3. Q = SUBSET S
  <2>1. Q \in SUBSET SUBSET S
    OBVIOUS
  <2> HIDE DEF Q
  <2> QED BY <1>1, <1>2, <2>1, SubsetInduction
<1>4. i = [s \in SUBSET S |-> i[s]] /\ j = [s \in SUBSET S |-> j[s]]
  BY DEF SumStep
<1> QED BY <1>3, <1>4

\* A sum of the standings is the total of a function.
LEMMA TotalFacts ==
    ASSUME NEW S, IsFiniteSet(S), NEW f
    PROVE  \E it : it = SumStep(f, S, it) /\ Total(f, S) = it[S]
BY SumExists, Zenon DEF Total

LEMMA ScoreTotal ==
    ASSUME NEW S, IsFiniteSet(S), NEW b
    PROVE  TotalScore(b, S) = Total([p \in S |-> b.pair[p].score], S)
<1> DEFINE f == [p \in S |-> b.pair[p].score]
           F(h) == [s \in SUBSET S |->
               IF s = {} THEN 0 ELSE b.pair[OneOf(s)].score + h[s \ {OneOf(s)}]]
<1>1. PICK g : g = SumStep(f, S, g) /\ Total(f, S) = g[S]
  BY TotalFacts
<1>2. ASSUME NEW h PROVE F(h) = SumStep(f, S, h)
  <2>1. \A s \in SUBSET S : s # {} => f[OneOf(s)] = b.pair[OneOf(s)].score
    BY OneLess
  <2> HIDE DEF f
  <2> QED BY <2>1 DEF SumStep
<1>3. ASSUME NEW h PROVE h = F(h) <=> h = g
  <2>1. h = SumStep(f, S, h) => h = g
    <3> HIDE DEF f
    <3> QED BY <1>1, SumSame
  <2> HIDE DEF f, F
  <2> QED BY <1>1, <1>2, <2>1
<1>4. TotalScore(b, S) = g[S]
  BY <1>3, Zenon DEF TotalScore, TotalTime, MapThenSumSet, MapThenFoldSet, OneOf
<1> QED BY <1>1, <1>4

LEMMA TimeTotal ==
    ASSUME NEW S, IsFiniteSet(S), NEW b
    PROVE  TotalTime(b, S) = Total([p \in S |-> b.pair[p].time], S)
<1> DEFINE f == [p \in S |-> b.pair[p].time]
           F(h) == [s \in SUBSET S |->
               IF s = {} THEN 0 ELSE b.pair[OneOf(s)].time + h[s \ {OneOf(s)}]]
<1>1. PICK g : g = SumStep(f, S, g) /\ Total(f, S) = g[S]
  BY TotalFacts
<1>2. ASSUME NEW h PROVE F(h) = SumStep(f, S, h)
  <2>1. \A s \in SUBSET S : s # {} => f[OneOf(s)] = b.pair[OneOf(s)].time
    BY OneLess
  <2> HIDE DEF f
  <2> QED BY <2>1 DEF SumStep
<1>3. ASSUME NEW h PROVE h = F(h) <=> h = g
  <2>1. h = SumStep(f, S, h) => h = g
    <3> HIDE DEF f
    <3> QED BY <1>1, SumSame
  <2> HIDE DEF f, F
  <2> QED BY <1>1, <1>2, <2>1
<1>4. TotalTime(b, S) = g[S]
  BY <1>3, Zenon DEF TotalScore, TotalTime, MapThenSumSet, MapThenFoldSet, OneOf
<1> QED BY <1>1, <1>4

\* Nothing sums to 0.
LEMMA TotalZero ==
    ASSUME NEW S, IsFiniteSet(S), NEW f, \A x \in S : f[x] = 0
    PROVE  Total(f, S) = 0
<1>1. PICK i : i = SumStep(f, S, i) /\ Total(f, S) = i[S]
  BY TotalFacts
<1> DEFINE Q == {s \in SUBSET S : i[s] = 0}
<1>2. {} \in Q
  BY <1>1 DEF SumStep
<1>3. ASSUME NEW s \in SUBSET S, s # {}, s \ {OneOf(s)} \in Q PROVE s \in Q
  <2>1. OneOf(s) \in S
    BY <1>3, OneLess
  <2>2. i[s] = f[OneOf(s)] + i[s \ {OneOf(s)}]
    BY <1>1, <1>3, Zenon DEF SumStep
  <2> QED BY <1>3, <2>1, <2>2
<1>4. Q = SUBSET S
  <2>1. Q \in SUBSET SUBSET S
    OBVIOUS
  <2> HIDE DEF Q
  <2> QED BY <1>2, <1>3, <2>1, SubsetInduction
<1> QED BY <1>1, <1>4

\* One that grows makes the sum grow.
LEMMA TotalGrows ==
    ASSUME NEW S, IsFiniteSet(S), NEW f, NEW h, NEW a, NEW d \in Int,
           \A x \in S : f[x] \in Int /\ (x # a => h[x] = f[x]),
           a \in S => h[a] = f[a] + d
    PROVE  /\ Total(f, S) \in Int
           /\ a \in S => Total(h, S) = Total(f, S) + d
           /\ a \notin S => Total(h, S) = Total(f, S)
<1>1. PICK i : i = SumStep(f, S, i) /\ Total(f, S) = i[S]
  BY TotalFacts
<1>2. PICK j : j = SumStep(h, S, j) /\ Total(h, S) = j[S]
  BY TotalFacts
<1> DEFINE Q == {s \in SUBSET S : i[s] \in Int /\ j[s] = i[s] + IF a \in s THEN d ELSE 0}
<1>3. {} \in Q
  BY <1>1, <1>2 DEF SumStep
<1>4. ASSUME NEW s \in SUBSET S, s # {}, s \ {OneOf(s)} \in Q PROVE s \in Q
  <2>1. OneOf(s) \in S /\ OneOf(s) \in s
    BY <1>4, OneLess
  <2>2. i[s] = f[OneOf(s)] + i[s \ {OneOf(s)}] /\ j[s] = h[OneOf(s)] + j[s \ {OneOf(s)}]
    BY <1>1, <1>2, <1>4, Zenon DEF SumStep
  <2>3. /\ i[s \ {OneOf(s)}] \in Int
        /\ j[s \ {OneOf(s)}] = i[s \ {OneOf(s)}] + IF a \in s \ {OneOf(s)} THEN d ELSE 0
    BY <1>4
  <2>4. f[OneOf(s)] \in Int /\ h[OneOf(s)] = f[OneOf(s)] + IF OneOf(s) = a THEN d ELSE 0
    BY <2>1
  <2>5. CASE OneOf(s) = a
    <3>1. a \in s /\ a \notin s \ {OneOf(s)}
      BY <2>1, <2>5
    <3>2. j[s] = f[OneOf(s)] + d + i[s \ {OneOf(s)}]
      BY <2>2, <2>3, <2>4, <2>5, <3>1
    <3> QED BY <2>2, <2>3, <2>4, <3>1, <3>2
  <2>6. CASE OneOf(s) # a
    <3>1. a \in s <=> a \in s \ {OneOf(s)}
      BY <2>6
    <3> QED BY <2>2, <2>3, <2>4, <2>6, <3>1
  <2> QED BY <2>5, <2>6
<1>5. Q = SUBSET S
  <2>1. Q \in SUBSET SUBSET S
    OBVIOUS
  <2> HIDE DEF Q
  <2> QED BY <1>3, <1>4, <2>1, SubsetInduction
<1>6. S \in Q
  BY <1>5
<1> QED BY <1>1, <1>2, <1>6
-----------------------------------------------------------------------------
(* One event *)

PairOf(s) == <<TeamOf[s], TaskOf[s]>>
Points(s) == IF Status(s) = "AC" THEN 1 ELSE 0
Fault(s) == IF Status(s) \in Penalised THEN 1 ELSE 0

Boards == [pair : [Pairs -> [score : {0, 1}, penalty : Nat, time : Nat]],
           team : [Teams -> Counts], task : [Tasks -> Nat]]

\* An event of no pair of the page, or of a solved one, changes nothing.
LEMMA ProcessNothing ==
    ASSUME NEW b, NEW s, PairOf(s) \notin Pairs \/ b.pair[PairOf(s)].score > 0
    PROVE  ProcessEvent(b, s) = b
BY DEF ProcessEvent, PairOf

\* What another event changes.
LEMMA ProcessFacts ==
    ASSUME NEW b \in Boards, NEW s \in Submissions, PairOf(s) \in Pairs,
           b.pair[PairOf(s)].score = 0,
           NEW c, c = ProcessEvent(b, s),
           NEW p, p = PairOf(s), NEW penalty, penalty = b.pair[p].penalty + Fault(s),
           NEW time, time = IF Points(s) = 1 THEN SentAt[s] + penalty * BombPenalty ELSE 0
    PROVE  /\ c \in Boards /\ penalty \in Nat /\ time \in Nat
           /\ \A q \in Pairs : c.pair[q] =
                 IF q = p THEN [score |-> Points(s), penalty |-> penalty, time |-> time]
                 ELSE b.pair[q]
           /\ \A t \in Teams :
                 /\ c.team[t].score = b.team[t].score + IF t = p[1] THEN Points(s) ELSE 0
                 /\ c.team[t].time = b.team[t].time + IF t = p[1] THEN time ELSE 0
           /\ \A t \in Tasks : c.task[t] = b.task[t] + IF t = p[2] THEN Points(s) ELSE 0
<1>1. SentAt[s] \in Nat /\ BombPenalty \in Nat
  BY LiveRankingAssumption
<1>2. b.pair[p] \in [score : {0, 1}, penalty : Nat, time : Nat]
  BY DEF Boards
<1>3. Points(s) \in {0, 1} /\ Fault(s) \in {0, 1}
  BY DEF Points, Fault
<1>4. penalty \in Nat /\ b.pair[p].penalty \in Nat
  BY <1>2, <1>3
<1>5. penalty * BombPenalty \in Nat
  BY <1>1, <1>4
<1>6. time \in Nat
  BY <1>1, <1>5
<1>7. p = <<p[1], p[2]>> /\ p[1] \in Teams /\ p[2] \in Tasks
  BY DEF Pairs
<1>8. b.team[p[1]] \in Counts /\ b.task[p[2]] \in Nat
  BY <1>7 DEF Boards
<1> DEFINE pair == [score |-> Points(s), penalty |-> penalty, time |-> time]
           team == [score |-> b.team[p[1]].score + Points(s), time |-> b.team[p[1]].time + time]
           task == b.task[p[2]] + Points(s)
<1>9. c = [b EXCEPT !.pair = [b.pair EXCEPT ![p] = pair],
                    !.team = [b.team EXCEPT ![p[1]] = team],
                    !.task = [b.task EXCEPT ![p[2]] = task]]
  <2>1. ~(b.pair[p].score > 0)
    BY <1>2
  <2> QED BY <2>1 DEF ProcessEvent, PairOf, Points, Fault
<1>10. /\ pair \in [score : {0, 1}, penalty : Nat, time : Nat]
       /\ team \in Counts /\ task \in Nat
       /\ team.score = b.team[p[1]].score + Points(s) /\ team.time = b.team[p[1]].time + time
  BY <1>3, <1>4, <1>6, <1>8 DEF Counts
<1>14. \A t \in Teams : b.team[t].score \in Nat /\ b.team[t].time \in Nat
  BY DEF Boards, Counts
<1> HIDE DEF pair, team, task
<1>11. /\ c.pair = [b.pair EXCEPT ![p] = pair] /\ c.team = [b.team EXCEPT ![p[1]] = team]
       /\ c.task = [b.task EXCEPT ![p[2]] = task]
       /\ c = [pair |-> c.pair, team |-> c.team, task |-> c.task]
  BY <1>9 DEF Boards
<1>12. /\ c.pair \in [Pairs -> [score : {0, 1}, penalty : Nat, time : Nat]]
       /\ c.team \in [Teams -> Counts] /\ c.task \in [Tasks -> Nat]
  BY <1>7, <1>10, <1>11 DEF Boards
<1>13. c \in Boards
  BY <1>11, <1>12 DEF Boards
<1>15. \A q \in Pairs : c.pair[q] = IF q = p THEN pair ELSE b.pair[q]
  BY <1>11 DEF Boards
<1>16. \A t \in Teams : c.team[t] = IF t = p[1] THEN team ELSE b.team[t]
  BY <1>11 DEF Boards
<1>17. \A t \in Tasks : c.task[t] = IF t = p[2] THEN task ELSE b.task[t]
  BY <1>11 DEF Boards
<1>18. \A t \in Teams :
          /\ c.team[t].score = b.team[t].score + IF t = p[1] THEN Points(s) ELSE 0
          /\ c.team[t].time = b.team[t].time + IF t = p[1] THEN time ELSE 0
  BY <1>10, <1>14, <1>16
<1>19. \A t \in Tasks : c.task[t] = b.task[t] + IF t = p[2] THEN Points(s) ELSE 0
  <2>1. \A t \in Tasks : b.task[t] \in Nat
    BY DEF Boards
  <2> QED BY <1>17, <2>1 DEF task
<1> QED BY <1>4, <1>6, <1>13, <1>15, <1>18, <1>19 DEF pair

\* The pairs of a team and of a task are finitely many.
LEMMA PairsFinite ==
    /\ \A t \in Teams : IsFiniteSet({t} \X Tasks) /\ {t} \X Tasks \subseteq Pairs
    /\ \A t \in Tasks : IsFiniteSet(Teams \X {t}) /\ Teams \X {t} \subseteq Pairs
<1>1. IsFiniteSet(Teams) /\ IsFiniteSet(Tasks)
  BY LiveRankingAssumption
<1>2. \A t : IsFiniteSet({t})
  BY FS_Singleton
<1> QED BY <1>1, <1>2, FS_Product DEF Pairs

\* If one pair changes, the sums over some pairs change with it.
LEMMA SumsChange ==
    ASSUME NEW S \in SUBSET Pairs, IsFiniteSet(S), NEW b \in Boards, NEW c \in Boards,
           NEW p \in Pairs, b.pair[p].score = 0, b.pair[p].time = 0,
           \A q \in Pairs : q # p => c.pair[q] = b.pair[q]
    PROVE  /\ TotalScore(c, S) =
                 TotalScore(b, S) + IF p \in S THEN c.pair[p].score ELSE 0
           /\ TotalTime(c, S) =
                 TotalTime(b, S) + IF p \in S THEN c.pair[p].time ELSE 0
<1> DEFINE bs == [q \in S |-> b.pair[q].score]
           cs == [q \in S |-> c.pair[q].score]
           bt == [q \in S |-> b.pair[q].time]
           ct == [q \in S |-> c.pair[q].time]
<1>1. \A q \in Pairs : /\ b.pair[q].score \in Int /\ b.pair[q].time \in Int
                       /\ c.pair[q].score \in Int /\ c.pair[q].time \in Int
  BY DEF Boards
<1>2. \A q \in S : bs[q] \in Int /\ cs[q] = bs[q] + IF q = p THEN c.pair[p].score ELSE 0
  BY <1>1
<1>3. \A q \in S : bt[q] \in Int /\ ct[q] = bt[q] + IF q = p THEN c.pair[p].time ELSE 0
  BY <1>1
<1>4. Total(cs, S) = Total(bs, S) + IF p \in S THEN c.pair[p].score ELSE 0
  <2> HIDE DEF bs, cs
  <2>1. PICK d \in Int : d = c.pair[p].score
    BY <1>1
  <2>2. /\ \A q \in S : bs[q] \in Int /\ (q # p => cs[q] = bs[q])
        /\ p \in S => cs[p] = bs[p] + d
    BY <1>2, <2>1
  <2>3. /\ Total(bs, S) \in Int
        /\ p \in S => Total(cs, S) = Total(bs, S) + d
        /\ p \notin S => Total(cs, S) = Total(bs, S)
    BY <2>2, TotalGrows
  <2> QED BY <2>1, <2>3
<1>5. Total(ct, S) = Total(bt, S) + IF p \in S THEN c.pair[p].time ELSE 0
  <2> HIDE DEF bt, ct
  <2>1. PICK d \in Int : d = c.pair[p].time
    BY <1>1
  <2>2. /\ \A q \in S : bt[q] \in Int /\ (q # p => ct[q] = bt[q])
        /\ p \in S => ct[p] = bt[p] + d
    BY <1>3, <2>1
  <2>3. /\ Total(bt, S) \in Int
        /\ p \in S => Total(ct, S) = Total(bt, S) + d
        /\ p \notin S => Total(ct, S) = Total(bt, S)
    BY <2>2, TotalGrows
  <2> QED BY <2>1, <2>3
<1>6. /\ TotalScore(b, S) = Total(bs, S)
      /\ TotalScore(c, S) = Total(cs, S)
  BY ScoreTotal
<1>7. /\ TotalTime(b, S) = Total(bt, S)
      /\ TotalTime(c, S) = Total(ct, S)
  BY TimeTotal
<1> QED BY <1>4, <1>5, <1>6, <1>7

\* An event keeps the totals right.
LEMMA SumsStep ==
    ASSUME NEW b \in Boards, RightTotals(b), NEW s \in Submissions,
           \A q \in Pairs : b.pair[q].score = 0 => b.pair[q].time = 0
    PROVE  RightTotals(ProcessEvent(b, s))
<1>1. CASE PairOf(s) \notin Pairs \/ b.pair[PairOf(s)].score > 0
  BY <1>1, ProcessNothing
<1>2. CASE PairOf(s) \in Pairs /\ ~(b.pair[PairOf(s)].score > 0)
  <2>1. PICK p : p = PairOf(s)
    OBVIOUS
  <2>2. p \in Pairs /\ b.pair[p].score = 0 /\ b.pair[p].time = 0
    BY <1>2, <2>1 DEF Boards
  <2>3. PICK c : c = ProcessEvent(b, s)
    OBVIOUS
  <2>4. PICK penalty : penalty = b.pair[p].penalty + Fault(s)
    OBVIOUS
  <2>5. PICK time : time = IF Points(s) = 1 THEN SentAt[s] + penalty * BombPenalty ELSE 0
    OBVIOUS
  <2>6. /\ c \in Boards
        /\ \A q \in Pairs : c.pair[q] =
              IF q = p THEN [score |-> Points(s), penalty |-> penalty, time |-> time]
              ELSE b.pair[q]
        /\ \A t \in Teams :
              /\ c.team[t].score = b.team[t].score + IF t = p[1] THEN Points(s) ELSE 0
              /\ c.team[t].time = b.team[t].time + IF t = p[1] THEN time ELSE 0
        /\ \A t \in Tasks : c.task[t] = b.task[t] + IF t = p[2] THEN Points(s) ELSE 0
    BY <2>1, <2>2, <2>3, <2>4, <2>5, ProcessFacts
  <2>7. c.pair[p].score = Points(s) /\ c.pair[p].time = time
    BY <2>2, <2>6
  <2>8. p = <<p[1], p[2]>> /\ p[1] \in Teams /\ p[2] \in Tasks
    BY <2>2 DEF Pairs
  <2>9. ASSUME NEW t \in Teams
        PROVE  /\ c.team[t].score = TotalScore(c, {t} \X Tasks)
               /\ c.team[t].time = TotalTime(c, {t} \X Tasks)
    <3>1. p \in {t} \X Tasks <=> t = p[1]
      BY <2>8
    <3>2. /\ TotalScore(c, {t} \X Tasks) =
                TotalScore(b, {t} \X Tasks)
                + IF p \in {t} \X Tasks THEN c.pair[p].score ELSE 0
          /\ TotalTime(c, {t} \X Tasks) =
                TotalTime(b, {t} \X Tasks)
                + IF p \in {t} \X Tasks THEN c.pair[p].time ELSE 0
      BY <2>2, <2>6, PairsFinite, SumsChange
    <3> QED BY <2>6, <2>7, <3>1, <3>2 DEF RightTotals
  <2>10. ASSUME NEW t \in Tasks
         PROVE  c.task[t] = TotalScore(c, Teams \X {t})
    <3>1. p \in Teams \X {t} <=> t = p[2]
      BY <2>8
    <3>2. Teams \X {t} \in SUBSET Pairs /\ IsFiniteSet(Teams \X {t})
      BY PairsFinite
    <3>3. TotalScore(c, Teams \X {t}) =
             TotalScore(b, Teams \X {t})
             + IF p \in Teams \X {t} THEN c.pair[p].score ELSE 0
      BY <2>2, <2>6, <3>2, SumsChange
    <3> QED BY <2>6, <2>7, <3>1, <3>3 DEF RightTotals
  <2> QED BY <2>3, <2>9, <2>10 DEF RightTotals
<1> QED BY <1>1, <1>2

\* The board before the first event.
LEMMA EmptyFacts ==
    /\ EmptyBoard \in Boards /\ RightTotals(EmptyBoard)
    /\ \A p \in Pairs : EmptyBoard.pair[p] = [score |-> 0, penalty |-> 0, time |-> 0]
<1>1. /\ EmptyBoard \in Boards
      /\ \A p \in Pairs : EmptyBoard.pair[p] = [score |-> 0, penalty |-> 0, time |-> 0]
      /\ \A t \in Teams : EmptyBoard.team[t].score = 0 /\ EmptyBoard.team[t].time = 0
      /\ \A t \in Tasks : EmptyBoard.task[t] = 0
  BY DEF EmptyBoard, Boards, Counts
<1>2. PICK b : b = EmptyBoard
  OBVIOUS
<1>3. ASSUME NEW S \in SUBSET Pairs, IsFiniteSet(S)
      PROVE  /\ TotalScore(b, S) = 0
             /\ TotalTime(b, S) = 0
  <2> DEFINE f == [p \in S |-> b.pair[p].score]
             h == [p \in S |-> b.pair[p].time]
  <2>1. \A p \in S : b.pair[p] = [score |-> 0, penalty |-> 0, time |-> 0]
    BY <1>1, <1>2
  <2>2. \A p \in S : f[p] = 0 /\ h[p] = 0
    BY <2>1
  <2>3. Total(f, S) = 0 /\ Total(h, S) = 0
    <3> HIDE DEF f, h
    <3> QED BY <1>3, <2>2, TotalZero
  <2> QED BY <1>3, <2>3, ScoreTotal, TimeTotal
<1>4. RightTotals(b)
  BY <1>1, <1>2, <1>3, PairsFinite DEF RightTotals
<1> QED BY <1>1, <1>2, <1>4
-----------------------------------------------------------------------------
(* All events *)

\* The wrong answers of a pair among the first k events.
WrongIn(o, k, p) ==
    {s \in Submissions : /\ \E i \in 1 .. k : o[i] = s
                         /\ PairOf(s) = p /\ Status(s) \in Penalised}

\* The first k events solve the pair with the j-th of them, or do not solve it.
FirstSolves(o, p, j) ==
    /\ PairOf(o[j]) = p /\ Status(o[j]) = "AC"
    /\ \A i \in 1 .. j - 1 : PairOf(o[i]) = p => Status(o[i]) # "AC"
SolvedPair(b, o, p, j) ==
    /\ FirstSolves(o, p, j)
    /\ b.pair[p].score = 1 /\ b.pair[p].penalty = Cardinality(WrongIn(o, j - 1, p))
    /\ b.pair[p].time = SentAt[o[j]] + b.pair[p].penalty * BombPenalty
OpenPair(b, o, k, p) ==
    /\ \A i \in 1 .. k : PairOf(o[i]) = p => Status(o[i]) # "AC"
    /\ b.pair[p].score = 0 /\ b.pair[p].penalty = Cardinality(WrongIn(o, k, p))
    /\ b.pair[p].time = 0

\* The board after k events.
After(b, o, k) ==
    /\ b \in Boards /\ RightTotals(b)
    /\ \A p \in Pairs : OpenPair(b, o, k, p) \/ \E j \in 1 .. k : SolvedPair(b, o, p, j)

Sequence(o, n) ==
    /\ n \in Nat /\ DOMAIN o = 1 .. n /\ \A i \in 1 .. n : o[i] \in Submissions
    /\ \A i, j \in 1 .. n : i # j => o[i] # o[j]

\* One event more is one wrong answer more, or none.
LEMMA WrongGrows ==
    ASSUME NEW n, NEW o, Sequence(o, n), NEW k \in 0 .. n - 1, NEW p
    PROVE  /\ Cardinality(WrongIn(o, k, p)) \in Nat
           /\ PairOf(o[k + 1]) # p => WrongIn(o, k + 1, p) = WrongIn(o, k, p)
           /\ PairOf(o[k + 1]) = p =>
                 Cardinality(WrongIn(o, k + 1, p)) = Cardinality(WrongIn(o, k, p)) + Fault(o[k + 1])
<1>1. IsFiniteSet(WrongIn(o, k, p))
  <2>1. IsFiniteSet(Submissions)
    BY LiveRankingAssumption
  <2>2. WrongIn(o, k, p) \in SUBSET Submissions
    BY DEF WrongIn
  <2> QED BY <2>1, <2>2, FS_Subset
<1>2. Cardinality(WrongIn(o, k, p)) \in Nat
  BY <1>1, FS_CardinalityType
<1>3. n \in Nat /\ k \in Nat /\ k + 1 \in 1 .. n /\ o[k + 1] \in Submissions
  BY DEF Sequence
<1>4. \A s : (\E i \in 1 .. k + 1 : o[i] = s) <=> (\E i \in 1 .. k : o[i] = s) \/ s = o[k + 1]
  <2>1. 1 .. k + 1 = (1 .. k) \cup {k + 1}
    BY <1>3
  <2> QED BY <2>1
<1>5. ASSUME PairOf(o[k + 1]) # p \/ Status(o[k + 1]) \notin Penalised
      PROVE  WrongIn(o, k + 1, p) = WrongIn(o, k, p)
  BY <1>4, <1>5 DEF WrongIn
<1>6. ASSUME PairOf(o[k + 1]) = p, Status(o[k + 1]) \in Penalised
      PROVE  Cardinality(WrongIn(o, k + 1, p)) = Cardinality(WrongIn(o, k, p)) + 1
  <2>1. WrongIn(o, k + 1, p) = WrongIn(o, k, p) \cup {o[k + 1]}
    BY <1>3, <1>4, <1>6 DEF WrongIn
  <2>2. \A i \in 1 .. k : i \in 1 .. n /\ i # k + 1
    BY <1>3
  <2>3. o[k + 1] \notin WrongIn(o, k, p)
    BY <1>3, <2>2 DEF WrongIn, Sequence
  <2> QED BY <1>1, <2>1, <2>3, FS_AddElement
<1> QED BY <1>2, <1>5, <1>6 DEF Fault

\* The next event keeps what is said of the board.
LEMMA AfterStep ==
    ASSUME NEW n, NEW o, Sequence(o, n), NEW k \in 0 .. n - 1, NEW b, After(b, o, k)
    PROVE  After(ProcessEvent(b, o[k + 1]), o, k + 1)
<1>1. PICK s : s = o[k + 1]
  OBVIOUS
<1>2. PICK c : c = ProcessEvent(b, s)
  OBVIOUS
<1>3. s \in Submissions /\ b \in Boards /\ RightTotals(b) /\ k \in Nat
  BY <1>1 DEF Sequence, After
<1>4. \A q \in Pairs : b.pair[q].score = 0 => b.pair[q].time = 0
  BY DEF After, OpenPair, SolvedPair
<1>5. RightTotals(c)
  BY <1>2, <1>3, <1>4, SumsStep
<1>6. /\ 1 .. k \subseteq 1 .. k + 1 /\ k + 1 \in 1 .. k + 1
      /\ \A i \in 1 .. k + 1 : i \in 1 .. k \/ i = k + 1
  BY <1>3
<1>7. ASSUME NEW q \in Pairs, q # PairOf(s), c.pair[q] = b.pair[q]
      PROVE  OpenPair(c, o, k + 1, q) \/ \E j \in 1 .. k + 1 : SolvedPair(c, o, q, j)
  <2>1. OpenPair(b, o, k, q) => OpenPair(c, o, k + 1, q)
    <3>1. WrongIn(o, k + 1, q) = WrongIn(o, k, q)
      BY <1>1, <1>7, WrongGrows
    <3> QED BY <1>1, <1>6, <1>7, <3>1 DEF OpenPair
  <2>2. \A j \in 1 .. k : SolvedPair(b, o, q, j) => SolvedPair(c, o, q, j)
    BY <1>7 DEF SolvedPair
  <2> QED BY <1>6, <2>1, <2>2 DEF After
<1>8. CASE PairOf(s) \notin Pairs
  <2>1. c = b
    BY <1>2, <1>8, ProcessNothing
  <2>2. \A q \in Pairs : q # PairOf(s)
    BY <1>8
  <2> QED BY <1>1, <1>2, <1>3, <1>7, <2>1, <2>2 DEF After
<1>9. CASE PairOf(s) \in Pairs /\ b.pair[PairOf(s)].score > 0
  <2>1. c = b
    BY <1>2, <1>9, ProcessNothing
  <2>2. \E j \in 1 .. k + 1 : SolvedPair(c, o, PairOf(s), j)
    BY <1>6, <1>9, <2>1 DEF After, OpenPair
  <2> QED BY <1>1, <1>2, <1>3, <1>7, <2>1, <2>2 DEF After
<1>10. CASE PairOf(s) \in Pairs /\ ~(b.pair[PairOf(s)].score > 0)
  <2>1. PICK p : p = PairOf(s)
    OBVIOUS
  <2>2. p \in Pairs /\ b.pair[p].score = 0 /\ OpenPair(b, o, k, p)
    BY <1>10, <2>1 DEF After, SolvedPair, Boards
  <2>3. PICK penalty : penalty = b.pair[p].penalty + Fault(s)
    OBVIOUS
  <2>4. PICK time : time = IF Points(s) = 1 THEN SentAt[s] + penalty * BombPenalty ELSE 0
    OBVIOUS
  <2>5. /\ c \in Boards
        /\ \A q \in Pairs : c.pair[q] =
              IF q = p THEN [score |-> Points(s), penalty |-> penalty, time |-> time]
              ELSE b.pair[q]
    BY <1>2, <1>3, <2>1, <2>2, <2>3, <2>4, ProcessFacts
  <2>6. c.pair[p].score = Points(s) /\ c.pair[p].penalty = penalty /\ c.pair[p].time = time
    BY <2>2, <2>5
  <2>7. /\ Cardinality(WrongIn(o, k, p)) \in Nat
        /\ Cardinality(WrongIn(o, k + 1, p)) = Cardinality(WrongIn(o, k, p)) + Fault(s)
    BY <1>1, <2>1, WrongGrows
  <2>8. CASE Status(s) = "AC"
    <3>1. Points(s) = 1 /\ Fault(s) = 0
      BY <2>8 DEF Points, Fault, Penalised
    <3>2. (k + 1) - 1 = k
      BY <1>3
    <3>3. FirstSolves(o, p, k + 1)
      BY <1>1, <2>1, <2>2, <2>8, <3>2 DEF FirstSolves, OpenPair
    <3>4. penalty = Cardinality(WrongIn(o, (k + 1) - 1, p))
      BY <2>2, <2>3, <2>7, <3>1, <3>2 DEF OpenPair
    <3>5. time = SentAt[o[k + 1]] + penalty * BombPenalty
      BY <1>1, <2>4, <3>1
    <3>6. SolvedPair(c, o, p, k + 1)
      BY <2>6, <3>1, <3>3, <3>4, <3>5 DEF SolvedPair
    <3> QED BY <1>1, <1>2, <1>5, <1>6, <1>7, <2>1, <2>5, <3>6 DEF After
  <2>9. CASE Status(s) # "AC"
    <3>1. Points(s) = 0 /\ time = 0
      BY <2>4, <2>9 DEF Points
    <3>2. \A i \in 1 .. k + 1 : PairOf(o[i]) = p => Status(o[i]) # "AC"
      BY <1>1, <1>6, <2>2, <2>9 DEF OpenPair
    <3>3. penalty = Cardinality(WrongIn(o, k + 1, p))
      BY <2>2, <2>3, <2>7 DEF OpenPair
    <3>4. OpenPair(c, o, k + 1, p)
      BY <2>6, <3>1, <3>2, <3>3 DEF OpenPair
    <3> QED BY <1>1, <1>2, <1>5, <1>7, <2>1, <2>5, <3>4 DEF After
  <2> QED BY <2>8, <2>9
<1> QED BY <1>8, <1>9, <1>10

\* The board that getEvents computes.
LEMMA AfterAll ==
    ASSUME NEW n, NEW o, Sequence(o, n)
    PROVE  After(Folded(EmptyBoard, o), o, n)
<1>1. n \in Nat /\ DOMAIN o = 1 .. n
  BY DEF Sequence
<1>2. PICK v : /\ v[0] = EmptyBoard
               /\ \A k \in 0 .. n - 1 : v[k + 1] = ProcessEvent(v[k], o[k + 1])
               /\ v[n] = Folded(EmptyBoard, o)
  <2>1. PICK base : base = EmptyBoard
    OBVIOUS
  <2>2. \E v : /\ v[0] = base
               /\ \A k \in 0 .. n - 1 : v[k + 1] = ProcessEvent(v[k], o[k + 1])
               /\ v[n] = Folded(base, o)
    BY <1>1, FoldValues
  <2> QED BY <2>1, <2>2
<1> DEFINE P == {k \in Nat : k <= n => After(v[k], o, k)}
<1>3. 0 \in P
  <2>1. \A p : WrongIn(o, 0, p) = {}
    BY DEF WrongIn
  <2>2. Cardinality({}) = 0
    BY FS_EmptySet
  <2>3. \A p \in Pairs : OpenPair(v[0], o, 0, p)
    BY <1>2, <2>1, <2>2, EmptyFacts DEF OpenPair
  <2> QED BY <1>2, <2>3, EmptyFacts DEF After
<1>4. ASSUME NEW k \in P PROVE k + 1 \in P
  <2>1. ASSUME k + 1 <= n PROVE After(v[k + 1], o, k + 1)
    <3>1. k \in 0 .. n - 1 /\ After(v[k], o, k)
      BY <1>1, <2>1
    <3> QED BY <1>2, <3>1, AfterStep
  <2> QED BY <2>1
<1>5. P = Nat
  <2>1. P \in SUBSET Nat
    OBVIOUS
  <2> HIDE DEF P
  <2> QED BY <1>3, <1>4, <2>1, NatSet
<1>6. After(v[n], o, n)
  BY <1>1, <1>5
<1> QED BY <1>2, <1>6
\* An order of all known submissions is a sequence of them.
LEMMA OrderFacts ==
    ASSUME NEW o \in InOrder(KnownInTime)
    PROVE  \E n : /\ Sequence(o, n)
                  /\ \A i \in 1 .. n : o[i] \in KnownInTime
                  /\ \A s \in KnownInTime : \E i \in 1 .. n : o[i] = s
                  /\ \A i, j \in 1 .. n : i < j => SentAt[o[i]] <= SentAt[o[j]]
<1> DEFINE K == KnownInTime
           n == Cardinality(K)
<1>1. K \in SUBSET Submissions /\ IsFiniteSet(Submissions)
  BY LiveRankingAssumption DEF KnownInTime
<1>2. IsFiniteSet(K) /\ n \in Nat
  BY <1>1, FS_Subset, FS_CardinalityType
<1>3. /\ o \in [1 .. n -> K] /\ \A i, j \in 1 .. n : i # j => o[i] # o[j]
      /\ \A i, j \in DOMAIN o : i < j => SentAt[o[i]] <= SentAt[o[j]]
  BY DEF InOrder, SetToSeqs
<1>4. IsFiniteSet(1 .. n) /\ Cardinality(1 .. n) = n
  BY <1>2, FS_Interval
<1> HIDE DEF K, n
<1>5. o \in Injection(1 .. n, K)
  BY <1>3 DEF Injection, IsInjective
<1>6. o \in Surjection(1 .. n, K)
  BY <1>2, <1>4, <1>5, FS_Injection DEF n
<1>7. \A s \in K : \E i \in 1 .. n : o[i] = s
  BY <1>6 DEF Surjection
<1>8. Sequence(o, n)
  BY <1>1, <1>2, <1>3 DEF Sequence
<1> QED BY <1>3, <1>7, <1>8 DEF K

\* An earlier time is among the attempts before the first that was accepted.
LEMMA FirstAcIs ==
    ASSUME NEW p, NEW s \in Acs(p), \A a \in Acs(p) : SentAt[s] <= SentAt[a]
    PROVE  FirstAc(p) = SentAt[s] /\ SentAt[s] \in Nat
<1> DEFINE T == {SentAt[a] : a \in Acs(p)}
<1>1. \A a \in Acs(p) : SentAt[a] \in Nat
  BY LiveRankingAssumption DEF Acs, Attempts, KnownInTime
<1>2. SentAt[s] \in T /\ \A y \in T : SentAt[s] <= y
  OBVIOUS
<1>3. T \subseteq Nat
  BY <1>1
<1> HIDE DEF T
<1>4. Min(T) \in T /\ \A y \in T : Min(T) <= y
  BY <1>2 DEF Min
<1>5. Min(T) = SentAt[s]
  <2>1. PICK m : m = Min(T)
    OBVIOUS
  <2>2. m \in Nat /\ SentAt[s] \in Nat /\ m <= SentAt[s] /\ SentAt[s] <= m
    BY <1>2, <1>3, <1>4, <2>1
  <2> QED BY <2>1, <2>2
<1> QED BY <1>1, <1>5 DEF FirstAc, T

\* What is computed for a pair is what the rules say.
LEMMA PairIsRight ==
    ASSUME NEW n, NEW o, Sequence(o, n), NEW b, After(b, o, n), NEW p \in Pairs,
           \A i \in 1 .. n : o[i] \in KnownInTime,
           \A s \in KnownInTime : \E i \in 1 .. n : o[i] = s,
           \A i, j \in 1 .. n : i < j => SentAt[o[i]] <= SentAt[o[j]]
    PROVE  RightPair(b, p) /\ (b.pair[p].score > 0 <=> Acs(p) # {})
<1>0. n \in Nat
  BY DEF Sequence
<1>1. CASE OpenPair(b, o, n, p)
  <2>1. Acs(p) = {}
    BY <1>1 DEF OpenPair, Acs, Attempts, PairOf
  <2> QED BY <1>1, <2>1 DEF RightPair, OpenPair
<1>2. ASSUME NEW j \in 1 .. n, SolvedPair(b, o, p, j)
      PROVE  RightPair(b, p) /\ (b.pair[p].score > 0 <=> Acs(p) # {})
  <2>1. o[j] \in Acs(p)
    BY <1>2 DEF SolvedPair, FirstSolves, Acs, Attempts, PairOf
  <2>2. \A s \in KnownInTime : SentAt[s] \in Nat
    BY LiveRankingAssumption DEF KnownInTime
  <2>3. ASSUME NEW a \in Acs(p) PROVE SentAt[o[j]] <= SentAt[a]
    <3>1. PICK i \in 1 .. n : o[i] = a
      BY DEF Acs, Attempts
    <3>2. ~(i \in 1 .. j - 1)
      BY <1>2, <3>1 DEF SolvedPair, FirstSolves, Acs, Attempts, PairOf
    <3>3. i = j \/ j < i
      BY <1>0, <3>2
    <3> QED BY <2>2, <3>1, <3>3
  <2>4. FirstAc(p) = SentAt[o[j]] /\ SentAt[o[j]] \in Nat
    BY <2>1, <2>3, FirstAcIs
  <2>5. PICK first \in Nat : first = FirstAc(p)
    BY <2>4
  <2> DEFINE A(times) == {s \in Attempts(p) : Status(s) \in Penalised /\ SentAt[s] \in times}
             W == WrongIn(o, j - 1, p)
  <2>6. \A times : IsFiniteSet(A(times)) /\ Wrong(p, times) = Cardinality(A(times))
    <3>1. \A times : A(times) \in SUBSET Submissions
      BY DEF Attempts, KnownInTime
    <3>2. IsFiniteSet(Submissions)
      BY LiveRankingAssumption
    <3> QED BY <3>1, <3>2, FS_Subset DEF Wrong
  <2>7. A(0 .. first - 1) \subseteq W
    <3> SUFFICES ASSUME NEW s \in A(0 .. first - 1) PROVE s \in W
      OBVIOUS
    <3>1. /\ s \in KnownInTime /\ s \in Submissions /\ PairOf(s) = p /\ Status(s) \in Penalised
          /\ SentAt[s] < SentAt[o[j]]
      BY <2>2, <2>4, <2>5 DEF Attempts, PairOf, KnownInTime
    <3>2. PICK i \in 1 .. n : o[i] = s
      BY <3>1
    <3>3. ~(j < i) /\ i # j
      BY <2>2, <2>4, <3>1, <3>2
    <3>4. i \in 1 .. j - 1
      BY <1>0, <3>3
    <3> QED BY <3>1, <3>2, <3>4 DEF WrongIn
  <2>8. W \subseteq A(0 .. first)
    <3> SUFFICES ASSUME NEW s \in W PROVE s \in A(0 .. first)
      OBVIOUS
    <3>1. PICK i \in 1 .. j - 1 : o[i] = s
      BY DEF WrongIn
    <3>2. i \in 1 .. n /\ i < j
      BY <1>0
    <3>3. s \in KnownInTime /\ SentAt[s] <= SentAt[o[j]]
      BY <3>1, <3>2
    <3>4. SentAt[s] \in 0 .. first
      BY <2>2, <2>4, <2>5, <3>3
    <3> QED BY <3>3, <3>4 DEF WrongIn, Attempts, PairOf
  <2> HIDE DEF A, W
  <2>9. /\ Cardinality(A(0 .. first - 1)) <= Cardinality(W) /\ Cardinality(W) <= Cardinality(A(0 .. first))
        /\ Cardinality(W) \in Nat /\ Cardinality(A(0 .. first)) \in Nat
        /\ Cardinality(A(0 .. first - 1)) \in Nat
    <3>1. IsFiniteSet(A(0 .. first)) /\ IsFiniteSet(W)
      BY <2>6, <2>8, FS_Subset
    <3> QED BY <2>6, <2>7, <2>8, <3>1, FS_Subset, FS_CardinalityType
  <2>10. /\ b.pair[p].score = 1 /\ b.pair[p].penalty = Cardinality(W)
         /\ b.pair[p].time = SentAt[o[j]] + b.pair[p].penalty * BombPenalty
    BY <1>2 DEF SolvedPair, W
  <2>11. BombPenalty \in Nat
    BY LiveRankingAssumption
  <2>12. b.pair[p].penalty \in Wrong(p, 0 .. FirstAc(p) - 1) .. Wrong(p, 0 .. FirstAc(p))
    BY <2>5, <2>6, <2>9, <2>10
  <2>13. b.pair[p].time = FirstAc(p) + BombPenalty * b.pair[p].penalty
    BY <2>4, <2>9, <2>10, <2>11
  <2> QED BY <2>1, <2>10, <2>12, <2>13 DEF RightPair
<1> QED BY <1>1, <1>2 DEF After

\* What a poll computes.
LEMMA PollBoard ==
    ASSUME Poll
    PROVE  /\ board' \in Boards /\ Right(board')
           /\ \A p \in Pairs : board'.pair[p].score > 0 <=> Acs(p) # {}
<1>1. PICK o \in InOrder(KnownInTime) : board' = Folded(EmptyBoard, o)
  BY DEF Poll, ModelGetEvents, Folded
<1>2. PICK n : /\ Sequence(o, n)
               /\ \A i \in 1 .. n : o[i] \in KnownInTime
               /\ \A s \in KnownInTime : \E i \in 1 .. n : o[i] = s
               /\ \A i, j \in 1 .. n : i < j => SentAt[o[i]] <= SentAt[o[j]]
  BY OrderFacts
<1>3. PICK b : b = board'
  OBVIOUS
<1>4. After(b, o, n)
  BY <1>1, <1>2, <1>3, AfterAll
<1>5. \A p \in Pairs : RightPair(b, p) /\ (b.pair[p].score > 0 <=> Acs(p) # {})
  BY <1>2, <1>4, PairIsRight
<1> QED BY <1>3, <1>4, <1>5 DEF After, Right

\* The standings are right after every poll, whatever the page has shown before,
\* for any submissions, in whatever order getEvents takes those of one second.
THEOREM StandingsCorrect == Spec => StandingsAreRight
<1>1. [Next]_vars => [Poll => Right(board')]_vars
  BY PollBoard
<1> QED BY <1>1, PTL DEF Spec, StandingsAreRight
-----------------------------------------------------------------------------
(* Announcements *)

\* What the standings show stems from accepted submissions, and what CFlash has
\* noted is shown as solved; what it shows was noted.
FlashType ==
    /\ board \in Boards
    /\ acTasksIds \subseteq Pairs /\ flashQueue \in Seq(Pairs)
FlashInv ==
    /\ \A p \in Pairs : board.pair[p].score > 0 => Acs(p) # {}
    /\ \A p \in acTasksIds : board.pair[p].score > 0
    /\ IsInjective(flashQueue)
    /\ \A i \in DOMAIN flashQueue : flashQueue[i] \in acTasksIds

\* What is accepted stays accepted: the page replaces no event, and reports
\* keep what they say.
LEMMA AcsKept ==
    ASSUME PollType, [Next]_vars, NEW p
    PROVE  Acs(p) \subseteq Acs(p)'
<1> SUFFICES ASSUME NEW s \in Acs(p) PROVE s \in Acs(p)'
  OBVIOUS
<1>1. /\ s \in Submissions /\ submits[s] # 0 /\ SentAt[s] <= RoundLength
      /\ <<TeamOf[s], TaskOf[s]>> = p /\ StatesMap[Shown(submits[s])] = "AC"
  BY DEF Acs, Attempts, KnownInTime, Status
<1>2. submits'[s] = submits[s]
  BY <1>1, KnownKept
<1>3. PICK r \in Ids : r = submits[s]
  <2>1. submits[s] \in 0 .. Len(report) /\ Len(report) \in Nat
    BY <1>1, ReportFacts DEF PollType
  <2> QED BY <1>1, <2>1 DEF Ids
<1>4. report'[r].sub = report[r].sub /\ report'[r].result = report[r].result /\ viewer' = viewer
  BY <1>3, ReportsStep DEF ReportsKept
<1>5. Shown(r)' = Shown(r)
  BY <1>4 DEF Shown
<1>6. Status(s)' = "AC"
  BY <1>1, <1>2, <1>3, <1>5 DEF Status
<1> QED BY <1>1, <1>2, <1>6 DEF Acs, Attempts, KnownInTime

\* Queueing tasks of a set, none of which is queued.
LEMMA AnnounceFacts ==
    ASSUME NEW T \in SUBSET Pairs, flashQueue \in Seq(Pairs), IsInjective(flashQueue),
           \A i \in DOMAIN flashQueue : flashQueue[i] \notin T,
           Announce(T)
    PROVE  /\ flashQueue' \in Seq(Pairs) /\ IsInjective(flashQueue')
           /\ \A i \in DOMAIN flashQueue' :
                 \/ flashQueue'[i] \in T
                 \/ \E j \in DOMAIN flashQueue : flashQueue'[i] = flashQueue[j]
<1>1. PICK o \in SetToSeqs(T) : flashQueue' = flashQueue \o o
  BY DEF Announce
<1>2. IsFiniteSet(T)
  <2>1. IsFiniteSet(Pairs)
    BY LiveRankingAssumption, FS_Product DEF Pairs
  <2> QED BY <2>1, FS_Subset
<1>3. PICK n \in Nat : n = Cardinality(T)
  BY <1>2, FS_CardinalityType
<1>4. o \in [1 .. n -> T] /\ \A i, j \in 1 .. n : i # j => o[i] # o[j]
  BY <1>3 DEF SetToSeqs
<1>5. o \in Seq(Pairs) /\ Len(o) = n
  <2>1. o \in [1 .. n -> Pairs]
    BY <1>4
  <2>2. o \in Seq(Pairs)
    BY <2>1, SeqDef
  <2>3. Len(o) \in Nat /\ 1 .. Len(o) = 1 .. n
    BY <2>1, <2>2, LenProperties
  <2> QED BY <2>2, <2>3
<1>6. PICK q : q = flashQueue
  OBVIOUS
<1>7. q \in Seq(Pairs) /\ Len(q) \in Nat /\ DOMAIN q = 1 .. Len(q)
  BY <1>6, LenProperties
<1>8. /\ q \o o \in Seq(Pairs) /\ DOMAIN (q \o o) = 1 .. Len(q) + n
      /\ \A i \in 1 .. Len(q) + n : (q \o o)[i] = IF i <= Len(q) THEN q[i] ELSE o[i - Len(q)]
  BY <1>5, <1>7, ConcatProperties, LenProperties
<1>9. ASSUME NEW i \in 1 .. Len(q) + n
      PROVE  /\ i <= Len(q) => i \in DOMAIN q /\ (q \o o)[i] = q[i]
             /\ ~(i <= Len(q)) => i - Len(q) \in 1 .. n /\ (q \o o)[i] = o[i - Len(q)]
                                  /\ (q \o o)[i] \in T
  <2>1. ~(i <= Len(q)) => i - Len(q) \in 1 .. n
    BY <1>7
  <2>2. i <= Len(q) => i \in 1 .. Len(q)
    BY <1>7
  <2> QED BY <1>4, <1>7, <1>8, <2>1, <2>2
<1>10. ASSUME NEW i \in 1 .. Len(q) + n, NEW j \in 1 .. Len(q) + n, (q \o o)[i] = (q \o o)[j]
       PROVE  i = j
  <2>1. CASE i <= Len(q) /\ j <= Len(q)
    BY <1>6, <1>9, <1>10, <2>1 DEF IsInjective
  <2>2. CASE ~(i <= Len(q)) /\ ~(j <= Len(q))
    <3>1. i - Len(q) = j - Len(q)
      BY <1>4, <1>9, <1>10, <2>2
    <3> QED BY <1>7, <3>1
  <2>3. ASSUME NEW k \in 1 .. Len(q) + n, NEW l \in 1 .. Len(q) + n,
               k <= Len(q), ~(l <= Len(q)), (q \o o)[k] = (q \o o)[l]
        PROVE  FALSE
    <3>1. k \in DOMAIN flashQueue /\ (q \o o)[k] = flashQueue[k]
      BY <1>6, <1>9, <2>3
    <3>2. (q \o o)[l] \in T
      BY <1>9, <2>3
    <3> QED BY <2>3, <3>1, <3>2
  <2> QED BY <1>10, <2>1, <2>2, <2>3
<1>11. IsInjective(q \o o)
  BY <1>8, <1>10 DEF IsInjective
<1> QED BY <1>1, <1>6, <1>8, <1>9, <1>11

\* A change of the queue notes what it announces.
LEMMA UpdateFacts ==
    ASSUME FlashType, FlashInv, FlashUpdate
    PROVE  \E T \in SUBSET NewAcs(Teams) :
              /\ Announce(T) /\ T \subseteq acTasksIds'
              /\ acTasksIds \subseteq acTasksIds' /\ acTasksIds' \subseteq acTasksIds \cup NewAcs(Teams)
<1>1. CASE AddNewAcs
  BY <1>1 DEF AddNewAcs
<1>2. ASSUME NEW p \in NewAcs(Unmatched), NEW done,
             done = {n \in NewAcs(Teams) : n[1] < p[1]},
             acTasksIds' = acTasksIds \cup done \cup {p}, Announce(done)
      PROVE  \E T \in SUBSET NewAcs(Teams) :
                /\ Announce(T) /\ T \subseteq acTasksIds'
                /\ acTasksIds \subseteq acTasksIds' /\ acTasksIds' \subseteq acTasksIds \cup NewAcs(Teams)
  <2>1. p \in NewAcs(Teams)
    <3>1. Unmatched \subseteq Teams
      BY LiveRankingAssumption
    <3> QED BY <3>1 DEF NewAcs
  <2> QED BY <1>2, <2>1
<1> QED BY <1>1, <1>2 DEF FlashUpdate, AddNewAcsRaises

\* Types and the invariant are kept.
LEMMA FlashStep ==
    ASSUME PollType, FlashType, FlashInv, [Next]_vars
    PROVE  FlashType' /\ FlashInv'
<1>1. \A p : Acs(p) \subseteq Acs(p)'
  BY AcsKept
<1>2. ASSUME UNCHANGED <<board, flash>> PROVE FlashType' /\ FlashInv'
  BY <1>1, <1>2 DEF FlashType, FlashInv, flash
<1>3. ASSUME Poll PROVE FlashType' /\ FlashInv'
  <2>1. board' \in Boards /\ \A p \in Pairs : board'.pair[p].score > 0 <=> Acs(p) # {}
    BY <1>3, PollBoard
  <2>2. UNCHANGED flash
    BY <1>3 DEF Poll
  <2>3. \A p \in acTasksIds : p \in Pairs /\ board'.pair[p].score > 0
    BY <2>1 DEF FlashType, FlashInv
  <2> QED BY <1>1, <2>1, <2>2, <2>3 DEF FlashType, FlashInv, flash
<1>4. ASSUME FlashUpdate PROVE FlashType' /\ FlashInv'
  <2>1. PICK T \in SUBSET NewAcs(Teams) :
           /\ Announce(T) /\ T \subseteq acTasksIds'
           /\ acTasksIds \subseteq acTasksIds' /\ acTasksIds' \subseteq acTasksIds \cup NewAcs(Teams)
    BY <1>4, UpdateFacts
  <2>2. /\ NewAcs(Teams) \subseteq Pairs
        /\ \A p \in NewAcs(Teams) : p \notin acTasksIds /\ board.pair[p].score > 0
    BY DEF NewAcs, Pairs
  <2>3. T \in SUBSET Pairs /\ \A i \in DOMAIN flashQueue : flashQueue[i] \notin T
    BY <2>1, <2>2 DEF FlashInv
  <2>4. /\ flashQueue' \in Seq(Pairs) /\ IsInjective(flashQueue')
        /\ \A i \in DOMAIN flashQueue' :
              \/ flashQueue'[i] \in T
              \/ \E j \in DOMAIN flashQueue : flashQueue'[i] = flashQueue[j]
    BY <2>1, <2>3, AnnounceFacts DEF FlashType, FlashInv
  <2>5. board' = board
    BY <1>4 DEF FlashUpdate
  <2>6. acTasksIds' \subseteq Pairs /\ \A p \in acTasksIds' : board.pair[p].score > 0
    BY <2>1, <2>2 DEF FlashType, FlashInv
  <2>7. \A i \in DOMAIN flashQueue' : flashQueue'[i] \in acTasksIds'
    BY <2>1, <2>4 DEF FlashInv
  <2> QED BY <1>1, <2>4, <2>5, <2>6, <2>7 DEF FlashType, FlashInv
<1>5. \A q \in DOMAIN request : Answer(q) \/ Receive(q) \/ Lose(q) => UNCHANGED <<board, flash>>
  BY DEF Answer, Receive, Lose
<1>6. Tick \/ ExpireCache \/ UNCHANGED vars => UNCHANGED <<board, flash>>
  BY DEF Tick, ExpireCache, vars
<1>7. \A x \in Submissions, result \in STRING : MakeReport(x, result) => UNCHANGED <<board, flash>>
  BY DEF MakeReport
<1>8. \A r \in Ids : CommitReport(r) => UNCHANGED <<board, flash>>
  BY DEF CommitReport
<1> QED BY <1>2, <1>3, <1>4, <1>5, <1>6, <1>7, <1>8, LiveSteps

LEMMA FlashInvariant == Spec => [](PollType /\ FlashType /\ FlashInv)
<1>1. Init => FlashType /\ FlashInv
  <2> SUFFICES ASSUME Init PROVE FlashType /\ FlashInv
    OBVIOUS
  <2>1. board = EmptyBoard /\ acTasksIds = {} /\ flashQueue = << >>
    BY DEF Init
  <2>2. board \in Boards /\ \A p \in Pairs : board.pair[p] = [score |-> 0, penalty |-> 0, time |-> 0]
    BY <2>1, EmptyFacts
  <2>3. \A p \in Pairs : ~(board.pair[p].score > 0)
    BY <2>2
  <2>4. flashQueue \in Seq(Pairs) /\ DOMAIN flashQueue = {}
    BY <2>1, EmptySeq
  <2> QED BY <2>1, <2>2, <2>3, <2>4 DEF FlashType, FlashInv, IsInjective
<1>2. PollType /\ FlashType /\ FlashInv /\ [Next]_vars => FlashType' /\ FlashInv'
  BY FlashStep
<1> QED BY <1>1, <1>2, PollInvariant, PTL DEF Spec

\* The variables of the server, the adapter, the standings and the flashes have
\* their types; the scores of a pair are 0 and 1.
THEOREM TypeCorrect == Spec => []TypeOK
<1>1. PollType /\ FlashType => TypeOK
  BY DEF PollType, FlashType, TypeOK, Boards, Requests
<1> QED BY <1>1, FlashInvariant, PTL

\* No task is announced twice, and what was announced stays in the standings, for
\* any polls that overlap with updates and any teams that CFlash cannot match.
THEOREM FlashesCorrect == Spec => []FlashesAreTrue
<1>1. FlashType /\ FlashInv => FlashesAreTrue
  <2> SUFFICES ASSUME FlashType, FlashInv, NEW i \in DOMAIN flashQueue
               PROVE  board.pair[flashQueue[i]].score = 1
    BY DEF FlashesAreTrue, FlashInv
  <2>1. flashQueue[i] \in Pairs /\ board.pair[flashQueue[i]].score > 0
    BY DEF FlashType, FlashInv
  <2>2. board.pair[flashQueue[i]] \in [score : {0, 1}, penalty : Nat, time : Nat]
    BY <2>1 DEF FlashType, Boards
  <2> QED BY <2>1, <2>2
<1> QED BY <1>1, FlashInvariant, PTL
===============================================================================
