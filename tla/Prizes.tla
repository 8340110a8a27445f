-------------------------------- MODULE Prizes --------------------------------
(***************************************************************************)
(* One prize-giving of a contest (oioioi/prizes).  Administrators save its *)
(* form, in requests that may overlap; saving may reset it, and every      *)
(* prize-giving that has a date is then scheduled: distributed in place,   *)
(* or handed to celery as a task for that date.  prizesmgr_job distributes *)
(* when the task's version is still the version of the row.                *)
(*                                                                         *)
(* A request is one READ COMMITTED transaction (ATOMIC_REQUESTS).  The     *)
(* admin site loads the object and validates its form, updates the contest *)
(* (and so waits for other requests that have), and saves the object.      *)
(***************************************************************************)
EXTENDS Naturals, FiniteSets

CONSTANTS
    Requests,       \* requests that administrators have open
    Workers,        \* celery workers of the prizesmgr queue
    MaxTime,        \* bound: the last date
    MaxVersions     \* bound: values of PrizeGiving.version

ASSUME PrizesAssumption == MaxTime \in Nat \ {0} /\ MaxVersions \in Nat

VARIABLES
    row,            \* the committed PrizeGiving
    awards,         \* the committed PrizeForUser rows, by their distribution
    tasks,          \* prizesmgr_job messages in the broker
    request,        \* the state of each request
    worker,         \* the state of each worker
    now,            \* the clock
    versions,       \* the last version handed out
    mishaps         \* history: what went wrong so far

vars == <<row, awards, tasks, request, worker, now, versions, mishaps>>

\* A date, 0 stands for None.
Dates == 0 .. MaxTime

PrizeGivings == [state : {"NOT_SCHEDULED", "SCHEDULED", "FAILURE", "SUCCESS"},
                 date : Dates, version : Nat]

RequestStates ==
    [pc : {"idle", "redo", "edit", "delete", "deleting", "write", "schedule", "send", "commit"},
     obj : PrizeGivings,        \* the object it works on
     stale : BOOLEAN,           \* history: the row has changed since then
     scheduling : BOOLEAN,      \* schedule() has begun
     locked : BOOLEAN,          \* the request has the lock of the row
     seen : SUBSET Nat,         \* the awards its DELETE has found
     gone : SUBSET Nat,         \* its uncommitted deletions
     new : SUBSET Nat]          \* its uncommitted awards

WorkerStates == [pc : {"idle", "lock", "distribute"}, version : Nat, date : Dates]

NewPrizeGiving == [state |-> "NOT_SCHEDULED", date |-> 0, version |-> 0]
IdleRequest == [pc |-> "idle", obj |-> NewPrizeGiving, stale |-> FALSE,
                scheduling |-> FALSE, locked |-> FALSE, seen |-> {}, gone |-> {}, new |-> {}]
IdleWorker == [pc |-> "idle", version |-> 0, date |-> 0]

\* Every variable holds a value of its column or process.
TypeOK ==
    /\ row \in PrizeGivings
    /\ awards \in SUBSET Nat
    /\ tasks \in SUBSET [version : Nat, date : Dates]
    /\ request \in [Requests -> RequestStates]
    /\ worker \in [Workers -> WorkerStates]
    /\ now \in 1 .. MaxTime
    /\ versions \in Nat
    /\ mishaps \in SUBSET {"overwritten", "raised"}

Init ==
    /\ row = NewPrizeGiving
    /\ awards = {}
    /\ tasks = {}
    /\ request = [r \in Requests |-> IdleRequest]
    /\ worker = [w \in Workers |-> IdleWorker]
    /\ now = 1
    /\ versions = 0
    /\ mishaps = {}

Tick ==
    /\ now < MaxTime
    /\ now' = now + 1
    /\ UNCHANGED <<row, awards, tasks, request, worker, versions, mishaps>>

\* A request that has passed its UPDATE of the contest.
Saving(r) == request[r].pc \notin {"idle", "redo", "edit"}

\* The UPDATE of the contest waits for the requests that have passed theirs.
ContestFree == \A r \in Requests : ~Saving(r)

\* select_for_update() and UPDATE wait for the lock of the row.
RowFree ==
    /\ \A r \in Requests : ~request[r].locked
    /\ \A w \in Workers : worker[w].pc # "distribute"

\* A request that has the lock does not wait for it again.
RowFreeFor(r) == request[r].locked \/ RowFree

\* _change_version()
Fresh == versions + 1
TakeVersion == versions < MaxVersions /\ versions' = Fresh

\* When a transaction commits, the requests that have not locked the row go on
\* with what they loaded (a redo replaces that when it resets the object).
Outdated == [r \in Requests |-> [request[r] EXCEPT
                !.stale = @ \/ request[r].pc \in {"edit", "delete", "deleting", "write"}]]

Becomes(r, state) == request' = [request EXCEPT ![r] = state]

\* Slip, not part of the specification: save() does not delete awards.
SaveKeeping(state) == "write"

\* Where save() begins: it deletes the awards in another state than SUCCESS.
SaveFrom(state) == IF state = "SUCCESS" THEN "write" ELSE "delete"

(***************************************************************************)
(* Slips that the properties below are meant to catch; not part of the     *)
(* specification.                                                          *)
(***************************************************************************)
\* _celery_task_invalid() reads the row without select_for_update().
CheckUnlocked(r) ==
    /\ request[r].pc = "edit" /\ ContestFree
    /\ ~(row.state = "SCHEDULED" /\ row.date # request[r].obj.date)
    /\ Becomes(r, [request[r] EXCEPT !.pc = SaveFrom(request[r].obj.state)])
    /\ UNCHANGED <<row, awards, tasks, worker, now, versions, mishaps>>

\* Changing the date of a prize-giving does not invalidate its task.
NeverInvalid(r) == FALSE

\* The state stays as it was when the distribution is delegated.
DelegateStateless(r) ==
    /\ request[r].pc = "schedule"
    /\ request[r].obj.date > now
    /\ TakeVersion
    /\ Becomes(r, [request[r] EXCEPT !.pc = "delete", !.scheduling = TRUE, !.obj.version = Fresh])
    /\ UNCHANGED <<row, awards, tasks, worker, now, mishaps>>

\* The job does not compare versions.
LockAnyRow(w) ==
    /\ worker[w].pc = "lock" /\ RowFree
    /\ worker' = [worker EXCEPT ![w].pc = "distribute"]
    /\ UNCHANGED <<row, awards, tasks, request, now, versions, mishaps>>

(***************************************************************************)
(* PrizeGivingForm.save(), PrizeGiving.update()                            *)
(***************************************************************************)
\* The form is posted with "redo" ...
Redo(r) ==
    /\ request[r].pc = "idle"
    /\ Becomes(r, [IdleRequest EXCEPT !.pc = "redo"])
    /\ UNCHANGED <<row, awards, tasks, worker, now, versions, mishaps>>

\* ... and calls update(force_reset=True, date=timezone.now()).
ForceReset(r) ==
    /\ request[r].pc = "redo" /\ ContestFree
    /\ TakeVersion
    /\ Becomes(r, [request[r] EXCEPT !.pc = SaveFrom("NOT_SCHEDULED"),
                      !.obj = [state |-> "NOT_SCHEDULED", date |-> now, version |-> Fresh]])
    /\ UNCHANGED <<row, awards, tasks, worker, now, mishaps>>

\* The form is posted without: the object gets the date of the form.
Edit(r, date) ==
    /\ request[r].pc = "idle"
    /\ Becomes(r, [IdleRequest EXCEPT !.pc = "edit", !.obj = [row EXCEPT !.date = date]])
    /\ UNCHANGED <<row, awards, tasks, worker, now, versions, mishaps>>

\* _celery_task_invalid() locks the row and compares the editable of its
\* essential parameters, the date, with the object.
TaskInvalid(r) == row.state = "SCHEDULED" /\ row.date # request[r].obj.date

CheckValid(r) ==
    /\ request[r].pc = "edit" /\ ContestFree /\ RowFree
    /\ ~TaskInvalid(r)
    /\ Becomes(r, [request[r] EXCEPT !.pc = SaveFrom(request[r].obj.state), !.locked = TRUE])
    /\ UNCHANGED <<row, awards, tasks, worker, now, versions, mishaps>>

CheckInvalid(r) ==
    /\ request[r].pc = "edit" /\ ContestFree /\ RowFree
    /\ TaskInvalid(r)
    /\ TakeVersion
    /\ Becomes(r, [request[r] EXCEPT !.pc = SaveFrom("NOT_SCHEDULED"),
                      !.locked = TRUE,
                      !.obj = [@ EXCEPT !.state = "NOT_SCHEDULED", !.version = Fresh]])
    /\ UNCHANGED <<row, awards, tasks, worker, now, mishaps>>

(***************************************************************************)
(* PrizeGiving.save()                                                      *)
(***************************************************************************)
\* The DELETE of the related awards takes its snapshot ...
FindAwards(r) ==
    /\ request[r].pc = "delete"
    /\ Becomes(r, [request[r] EXCEPT !.pc = "deleting", !.seen = awards \ request[r].gone])
    /\ UNCHANGED <<row, awards, tasks, worker, now, versions, mishaps>>

\* ... and deletes what is left of it.
DeleteAwards(r) ==
    /\ request[r].pc = "deleting"
    /\ Becomes(r, [request[r] EXCEPT !.pc = "write", !.seen = {},
                                     !.gone = @ \cup (request[r].seen \cap awards)])
    /\ UNCHANGED <<row, awards, tasks, worker, now, versions, mishaps>>

\* What follows the UPDATE: save_related() looks for prize-givings that have
\* a date and are NOT_SCHEDULED; schedule() sends the task after its save().
AfterWrite(q) ==
    IF q.scheduling THEN IF q.obj.state = "SCHEDULED" THEN "send" ELSE "commit"
    ELSE IF q.obj.state = "NOT_SCHEDULED" /\ q.obj.date # 0 THEN "schedule" ELSE "commit"

Write(r) ==
    /\ request[r].pc = "write" /\ RowFreeFor(r)
    /\ Becomes(r, [request[r] EXCEPT !.pc = AfterWrite(request[r]), !.locked = TRUE,
                                     !.stale = FALSE])
    /\ mishaps' = mishaps \cup (IF request[r].stale THEN {"overwritten"} ELSE {})
    /\ UNCHANGED <<row, awards, tasks, worker, now, versions>>

(***************************************************************************)
(* PrizesAdminMixin.save_related(), PrizeGiving.schedule()                 *)
(***************************************************************************)
Delegate(r) ==
    /\ request[r].pc = "schedule"
    /\ request[r].obj.date > now
    /\ TakeVersion
    /\ Becomes(r, [request[r] EXCEPT !.pc = SaveFrom("SCHEDULED"),
                      !.scheduling = TRUE,
                      !.obj = [@ EXCEPT !.state = "SCHEDULED", !.version = Fresh]])
    /\ UNCHANGED <<row, awards, tasks, worker, now, mishaps>>

\* The message leaves before the request commits.
SendTask(r) ==
    /\ request[r].pc = "send"
    /\ tasks' = tasks \cup {[version |-> request[r].obj.version, date |-> request[r].obj.date]}
    /\ Becomes(r, [request[r] EXCEPT !.pc = "commit"])
    /\ UNCHANGED <<row, awards, worker, now, versions, mishaps>>

DistributeInPlace(r) ==
    /\ request[r].pc = "schedule"
    /\ request[r].obj.date <= now
    /\ TakeVersion
    /\ Becomes(r, [request[r] EXCEPT !.pc = SaveFrom("SUCCESS"),
                      !.scheduling = TRUE, !.new = {Fresh},
                      !.obj = [state |-> "SUCCESS", date |-> now, version |-> Fresh]])
    /\ UNCHANGED <<row, awards, tasks, worker, now, mishaps>>

\* AssignmentNotFound
FailInPlace(r) ==
    /\ request[r].pc = "schedule"
    /\ request[r].obj.date <= now
    /\ TakeVersion
    /\ Becomes(r, [request[r] EXCEPT !.pc = SaveFrom("FAILURE"),
                      !.scheduling = TRUE,
                      !.obj = [state |-> "FAILURE", date |-> 0, version |-> Fresh]])
    /\ UNCHANGED <<row, awards, tasks, worker, now, mishaps>>

Commit(r) ==
    /\ request[r].pc = "commit"
    /\ row' = request[r].obj
    /\ awards' = (awards \ request[r].gone) \cup request[r].new
    /\ request' = [Outdated EXCEPT ![r] = IdleRequest]
    /\ UNCHANGED <<tasks, worker, now, versions, mishaps>>

\* The request fails: an error page, a lost connection, or the database
\* chooses it to resolve a deadlock.
Rollback(r) ==
    /\ request[r].pc # "idle"
    /\ Becomes(r, IdleRequest)
    /\ UNCHANGED <<row, awards, tasks, worker, now, versions, mishaps>>

(***************************************************************************)
(* prizesmgr_job                                                           *)
(***************************************************************************)
Receive(w, t) ==
    /\ worker[w].pc = "idle"
    /\ t \in tasks /\ t.date <= now
    /\ tasks' = tasks \ {t}
    /\ worker' = [worker EXCEPT ![w] = [pc |-> "lock", version |-> t.version, date |-> t.date]]
    /\ UNCHANGED <<row, awards, request, now, versions, mishaps>>

SkipTask(w) ==
    /\ worker[w].pc = "lock" /\ RowFree
    /\ row.version # worker[w].version
    /\ worker' = [worker EXCEPT ![w] = IdleWorker]
    /\ UNCHANGED <<row, awards, tasks, request, now, versions, mishaps>>

LockRow(w) ==
    /\ worker[w].pc = "lock" /\ RowFree
    /\ row.version = worker[w].version
    /\ worker' = [worker EXCEPT ![w].pc = "distribute"]
    /\ UNCHANGED <<row, awards, tasks, request, now, versions, mishaps>>

Distribute(w) ==
    /\ worker[w].pc = "distribute"
    /\ TakeVersion
    /\ row' = [row EXCEPT !.state = "SUCCESS", !.version = Fresh]
    /\ awards' = awards \cup {Fresh}
    /\ request' = Outdated
    /\ worker' = [worker EXCEPT ![w] = IdleWorker]
    /\ UNCHANGED <<tasks, now, mishaps>>

\* AssignmentNotFound: the save() of the FAILURE deletes awards.
FailDistribution(w) ==
    /\ worker[w].pc = "distribute"
    /\ \A r \in Requests : request[r].gone \cap awards = {}
    /\ TakeVersion
    /\ row' = [state |-> "FAILURE", date |-> 0, version |-> Fresh]
    /\ awards' = {}
    /\ request' = Outdated
    /\ worker' = [worker EXCEPT ![w] = IdleWorker]
    /\ UNCHANGED <<tasks, now, mishaps>>

\* Another exception, or the death of the worker: nothing tries again.
WorkerRaises(w) ==
    /\ worker[w].pc # "idle"
    /\ worker' = [worker EXCEPT ![w] = IdleWorker]
    /\ mishaps' = mishaps \cup {"raised"}
    /\ UNCHANGED <<row, awards, tasks, request, now, versions>>

RequestNext(r) ==
    \/ Redo(r)
    \/ ForceReset(r)
    \/ \E date \in Dates : Edit(r, date)
    \/ CheckValid(r)
    \/ CheckInvalid(r)
    \/ FindAwards(r)
    \/ DeleteAwards(r)
    \/ Write(r)
    \/ Delegate(r)
    \/ SendTask(r)
    \/ DistributeInPlace(r)
    \/ FailInPlace(r)
    \/ Commit(r)
    \/ Rollback(r)

WorkerNext(w) ==
    \/ \E t \in tasks : Receive(w, t)
    \/ SkipTask(w)
    \/ LockRow(w)
    \/ Distribute(w)
    \/ FailDistribution(w)
    \/ WorkerRaises(w)

Next ==
    \/ Tick
    \/ \E r \in Requests : RequestNext(r)
    \/ \E w \in Workers : WorkerNext(w)

Spec == Init /\ [][Next]_vars

-----------------------------------------------------------------------------
(* Properties *)

\* "PrizeGiving can have related PrizeForUsers in 'SUCCESS' state only"
\* (PrizeGiving.save): also when forms saved at the same time, distributions
\* and rollbacks overlap.
AwardsOnlyInSuccess == awards # {} => row.state = "SUCCESS"

\* A prize-giving that was given a date is never left NOT_SCHEDULED: the
\* request that saves it also schedules or distributes it.
DatedIsScheduled == row.state = "NOT_SCHEDULED" => row.date = 0

\* A SCHEDULED prize-giving still has the task that will distribute it on its
\* date, unless a form was saved over a row changed since it was loaded, or a
\* distribution raised.
Ahead == tasks \cup {[version |-> worker[w].version, date |-> worker[w].date] :
                        w \in {v \in Workers : worker[v].pc # "idle"}}
ScheduledHasTask ==
    row.state = "SCHEDULED" /\ mishaps = {}
        => [version |-> row.version, date |-> row.date] \in Ahead

\* A task sent for one date never distributes a prize-giving that was moved to
\* another one, unless a form was saved over a changed row.
TaskKeepsDate == \A w \in Workers :
    worker[w].pc = "distribute" /\ "overwritten" \notin mishaps => row.date = worker[w].date

\* The users hold what one distribution gave them, unless a form was saved
\* over a changed row.
AwardedOnce == "overwritten" \notin mishaps => Cardinality(awards) <= 1
=============================================================================
