# Verification of OIOIOI

OIOIOI is a web application that runs programming contests: contestants submit
programs, evaluation jobs judge them on many machines, results are aggregated
into rankings, and prizes are distributed.  Most of it is Django code that
edits database rows in one request at a time.  What is hard, and what this
project is about, is the part where web requests, celery workers and daemons
change the same rows at the same time: jobs that wait for results from outside,
reports and results that several jobs update, rankings that are recalculated
while their data changes, tests that are replaced while programs are judged on
them, and tasks that are scheduled for a date that somebody moves; and pages
that are kept up to date by messages and polls that come late, twice or never.

The modules are TLA+, checked with TLC on small instances, with proofs for
TLAPS.  Paths below are relative to `src/oioioi/`.

| Module | What it models | Checked by | Proofs |
|---|---|---|---|
| `EvalMgr`, `JobLifecycle` | the evaluation manager, and what it promises | `EvalMgr_jobs`, `EvalMgr_admin` | `EvalMgr_proofs` |
| `Reports` | the reports of one submission | `Reports_overlap` | `Reports_proofs` |
| `Rejudging` | rejudges while the tests are replaced | `Rejudging_all` | `Rejudging_proofs` |
| `UserResults` | a user's results on three levels | `UserResults_race` | `UserResults_proofs` |
| `Rankings` | stored rankings and `rankingsd` | `Rankings_safety`, `Rankings_live` | `Rankings_proofs` |
| `Prizes` | a prize-giving and its distribution | `Prizes_admins` | `Prizes_proofs` |
| `NotifServer`, `Notifications` | the notifications server, and the pages that use it | `Notif_tabs`, `Notif_live`, `Notif_forwarded` | `Notifications_proofs` |
| `LiveRanking` | the live standings page and the view it polls | `LiveRanking_page` | `LiveRanking_proofs` |

Each `MC*` module only supplies what a configuration cannot write: recipes,
functions and symmetry sets.  The run expected to end in a violation is the
disagreement between code and documentation in the table under *Findings*.

## Inventory

| Component | State | Operations | What is hard |
|---|---|---|---|
| evalmgr (`evalmgr`, `sioworkers`, `workers`) | `QueuedJob`, `SavedEnviron`, celery messages, requests at the evaluators | `delay_environ`, `evalmgr_job`, transfers and resumptions, error handlers, the queue page | results that come late, twice or together; messages sent before a commit; rows changed by administrators; dying workers |
| reports (`programs/handlers.py`, `problems/controllers.py`) | `SubmissionReport.status`, `Submission.score`, `auto_rejudges` | `make_report`, `update_report_statuses`, `update_submission_score`, error reports, automatic rejudges | evaluations of one submission that overlap |
| rejudging and tests (`programs/handlers.py`, `contests/views.py`, `problems/handlers.py`) | `Test`, `TestReport`, `needs_rejudge` | collecting, judging and keeping tests, rejudging all, re-uploading | tests replaced between two phases of a job |
| results of users (`contests/controllers.py`) | `UserResultForProblem`, `ForRound`, `ForContest`, `Submission.kind` | updating level by level, changing kinds | updates that overlap, stale objects saved |
| rankings (`rankings`) | `Ranking`, `RankingRecalc`, `RankingPage` | invalidating, recalculating, showing pages | a recalculation overtaken by changes or by another one |
| prizes (`prizes`) | `PrizeGiving`, `PrizeForUser`, scheduled tasks | save, redo, schedule, distribute | tasks for a date that was changed, forms saved over newer rows |
| packages (`problems`) | `ProblemPackage`, `Problem` | upload, unpack, save the status | a package deleted or confirmed while it is unpacked |
| suspendjudge | `SuspendedProblem`, jobs in state SUSPENDED | suspend, resume, rejudge | a job that looks at the flag just before it is cleared |
| zeus | requests to the external judge | send with retries, receive grades | retried requests, repeated callbacks |
| scoresreveal, testrun, mailsubmit, submission limits | rows counted against a limit | reveal, test run, accept, submit | a limit or a state checked before it is used |
| notifications (`notifications`, `base/notification.py`) | the server's sockets, users, workers and unacknowledged messages; a page's list, badge and local storage; a queue of the broker for every user | log in and out, deliver, acknowledge, send again, reconnect; receive, click, reload | acknowledgments without an id, logins that wait for OIOIOI, a broker or a process that goes |
| live ranking (`livedata`, `liveranking`) | a page's events, newest judging time, standings and flashes; a cached answer | poll, answer, receive, fold, flash | answers that overlap, come from a cache or not at all; reports visible after newer ones |
| balloons (`balloons`) | `BalloonDelivery`, the panel's last id | create when judged, poll, mark delivered | deliveries that commit after ones with larger ids |
| participants, teams, questions, contests' administration, portals, forum, newsfeed, statistics, exports, live views, base and others | rows edited by a request | forms and pages | one transaction each, no protocol |
| filetracker, celery, compilers and judging machines | outside of the database | I/O | other programs, seen only through their callers |

How they interact: `judge()` (a submission, a rejudge, an error handler) builds
an environ and calls `delay_environ` in the transaction of its request; celery
workers run `evalmgr_job`, whose phases are the handlers of `programs` and
`contests`; transfers park the environ until `sioworkersd` or Zeus report
results to a daemon or a callback, which call `delay_environ` again.  The last
phases update the statuses of reports, the score of the submission, the results
of the user, and invalidate the rankings, which `rankingsd` polls.  Packages are
unpacked by another celery task, which replaces tests and raises the flag
`needs_rejudge`.

In all modules the database is PostgreSQL in READ COMMITTED, as the code
requires; requests are transactions (`ATOMIC_REQUESTS`), and phases of jobs are
transactions of their own where the code says `transaction.atomic`.  A
statement that reads a row and a later one that writes it are separate steps
unless a lock covers both.  `Model.save()` writes every column of the object
loaded before.

## EvalMgr: the evaluation manager

*State.* `queue` is the table `QueuedJob` (`"absent"` is a job without row),
`saved` the table `SavedEnviron`, `messages` the celery messages, `sent` the
requests at the evaluators.  `worker` are celery workers in `evalmgr_job`,
`caller` transactions in `delay_environ` (a judging request, the daemon
`start_receive_from_workers`, the Zeus callback), `admin` the rows a page of
the queue has loaded.  `pos` counts the phases gone from `env['recipe']`.

*Actions.* `Begin`, `Deliver`, `CallerSends` and `Commit` are the two ways into
`delay_environ`; `Receive`, `MarkProgress`, `RunPhase`, `SaveEnviron`,
`SendRequest`, `SendRaises`, `UndoSave`, `PhaseRaises`, `HandleError`, `Finish`
the loop of `evalmgr_job`.  `mark_job_state` reads a row without locking it and
saves it later: its reading is part of the step before (`seen`), its writing of
`MarkProgress`, `CallerSends` and `SaveEnviron`, and a cancellation may come
between.  `LoadForCancel`, `SaveCancelled` and `DeleteSelected` are the queue
page, `Crash` and `Rollback` a dying worker and a transaction that rolls back
after its message has left.

*A transfer that raises.*  A phase of a recipe is a handler, or a transfer to
sioworkersd or to Zeus.  The two differ when sending raises: the transfer function
of sioworkers has by then deleted `recipe` and `error_handlers` from the environ
that `evalmgr_job` holds (`sioworkers/handlers.py:22`), so once `UndoSave` has taken
back the parked environ nothing runs any more and the row stays `WAITING`; that of
Zeus leaves them, and `HandleError` removes the row (`KeepsHandlers`).  The history
variable `dropped` has the jobs that ended like that.  Results that resumed the
environ before it was taken back carry the job on, and it is not dropped.

*Abstractions.* `celery_task_id` and the foreign key to the submission are left
out, nothing depends on them.  The synchronous evaluator of tests is a request
answered before the call returns.  Two callers never meet on a new row because
every job has its own uuid.  Deleting a row with its `SavedEnviron` is one step.

*Runs.* `EvalMgr_jobs`: two jobs with one transfer each, two workers, two
receiving transactions, every result delivered up to twice, transfers that
raise before and after the evaluator has the request.  Two jobs are enough for
one job to take another's message, row or lock; two processes of a kind for
every race in the code, which is between two.  `EvalMgr_admin`: one job with a
transfer to Zeus and one to sioworkersd, so that results of the first can meet the environ of the second,
while each kind of disturbance (cancel, delete, crash, rollback) happens once,
in every order.

- `OneExecutor`: a job is carried on in one place: one message, worker, caller
  or parked environ.
- `ResumeMatchesTransfer`: results resume the transfer they answer.  It is why
  `SavedEnviron` has its own key, not the job's.
- `SaveNeverConflicts`: saving an environ never meets one left over, unless a
  caller rolled back (then it does, and the phase raises).
- `NoPhaseTwice`: no phase is executed a second time, until such a rollback.
- `NothingStranded`: unless a worker dies, every row that is not cancelled, and
  not of a dropped job, has somebody who goes on with the job, and the answer to every parked environ is
  still to come, is being asked for or is being used.  It is what has to be true
  at every moment for `LeavesQueue`, and it is checked and proved with
  cancellations, deletions, rollbacks and failed transfers, without fairness.
- `ImplementsLifecycle`, `ImplementsFairLifecycle`: the manager implements
  `JobLifecycle`, in which a job is new, then active with its phases in order,
  then ended for good.  The refinement maps a job to *active* while anything
  could still carry it on.
- `LeavesQueue`: every job finally leaves the queue for good, or is dropped.

*Fairness.* Weak fairness of every worker and caller (processes are restarted by
supervisor and statements return), of the broker's next message, and of the first delivery
of each result; only in the run without crashes, because a crashed worker's job
is lost: celery acknowledges a message before it is executed.

*Not covered.* A cancellation between the two halves of `mark_job_state` is
overwritten and the job runs on, although `evaluation.rst` says that cancelled
jobs are dropped; and `remove_from_queue` can re-create the row of a job that has
ended, which stays in the queue as Cancelled.  Both are behaviours of the model,
and what is proved holds in spite of them; no property says they do not happen.

## Reports: overlapping evaluations of one submission

`report` is the table of reports in the order of their creation, `eval` the
evaluations.  Each statement of `_activate_newest_report` is a step: the
`SELECT ... FOR UPDATE` has a snapshot (`ChooseLatest`) and a lock
(`LockLatest`), the `UPDATE` a snapshot (`SnapshotActive`) and one step for
each row (`Supersede`), which is looked at again if it was locked.
`CommitStatuses` publishes `on` and `off`.  `ReadStatus`, `ReadScore` and
`SaveScore` are `update_submission_score`, `Raises`, `FindsSeveral` and
`WorkerDies` what can go wrong, `LoadForRejudge` and `SaveRejudge` the automatic
rejudge.  HIDDEN, FULL and USER_OUTS reports are left out (groups of their own
with the same code).

`Reports_overlap`: three evaluations with INITIAL and NORMAL reports, two at a
time (`MaxAtOnce`), with two failures.  A group that was activated always has an
active report (`SomeActive`), the newest report is activated when all is done
(`NewestActivated`), and an evaluation that ran alone repairs what overlapping
ones left, score included (`AloneRepairs`; `alone` is a history variable).  A
transfer that raises, and runs no error handlers, comes before a report is made or
after its activation: it is an evaluation that ends early.  Three
evaluations are needed so that two overlap and a third repairs.

## Rejudging: tests that are replaced

`tests` are the rows of `Test` of one problem of a contest and the upload they
are from; a re-upload (`Upload`) commits as a whole, because
`save_operation_status` runs it in one transaction, and raises `needs_rejudge`.
`view` is the request that rejudges all submissions: it finds them
(`OpenRejudgeAll`) and commits their evaluations and the lowered flag
(`CommitRejudgeAll`), or rolls back although messages have left.  Evaluations
queued by a transaction do not run before it ends, because their `QueuedJob` rows
are new and unique.  An evaluation reads what was used, what is new and what
the tests are in separate statements (`ReadUsed`, `SelectNew`, `Fetch`, or
`CollectFull`), judges and looks up what is kept (`Judge`), and reports
(`MakeReport`).  The foreign keys from test reports to tests are checked when
the report commits: a report on tests that were replaced fails, gets a FAILURE
report (`MakeErrorReport`) and is rejudged once (`AttemptRejudge`).  So is any phase
that raises (`Raise`), except a transfer: the environ has no error handlers then,
and there is neither a report nor a rejudge (`TransferRaises`, as in EvalMgr).

Rows remember the upload they were judged on.  `JudgedOnCurrent` says that a new
report shows results on the present tests only; `FlagIsHonest` that while the
flag is down, a submission with results on old tests is about to be rejudged;
`AllRejudged` that it really is in the end (weak fairness of every queued
evaluation, for the reasons given for EvalMgr).  The two flag properties except
submissions that are `lapsed`, until all are rejudged the next time: one of which an
evaluation was lost, with its worker, with an error handler that raised or with a
transfer that raised; and one that is `Missed` by a re-upload committing while a
request rejudges all submissions, since that request's full-row save overwrites the
raised flag and the submission, made and judged after the request found the others,
stays judged on old tests without the flag.  What happens to one submission excuses
no other, and no evaluation that fails with its error handlers is excused.  `JudgedOnCurrent` rests on the
`KeyError` described under *Findings*: with the missing `stderr` repaired alone, a NEW
rejudge after a re-upload would put old results beside new ones (this is its
mutant).

`Rejudging_all` has one submission: submissions share nothing but the tests, the
flag and the request, which may have found this one or not.  Two names of tests
let a rejudge keep one and judge the other; two uploads come before and after
the rejudge of all; three evaluations are queued by the submission, a request and
a failure; one phase or transfer raises or one worker dies.  That a loss excuses
its own submission only is in the proof, which is for any number of them.

The model has one report per evaluation (Reports has the kinds), all tests
active, and no scores.

## UserResults: three levels of results

`kind` and `score` are columns of the submissions, `problem`, `round` and
`contest` the aggregated rows.  A judging (`LoadSubmission` ... `SaveContest`)
updates each level in a transaction of its own, with the row locked before the
level below is read; a request that changes a kind (`OpenRequest` ... `Commit`)
does all levels in one transaction and keeps its locks.  Because all take them
in the order problem, round, contest, there is no deadlock, which the runs check
too.

`UserResults_race`: two judgings and a request over three submissions, two
problems, a normal and a trial round, one score and none (2.3 million states).
`ProblemsSettle`, `RoundsSettle` and `ContestSettles`: a row that no judging has
yet to update holds the aggregate of the level below, whatever has overlapped.
With one
score TLC tells a row with a score from one without; that the right one among several
scores is taken is what the theorems add, which hold for any set of scores.

## Rankings: pages that are recalculated

The contents of results and pages are abstracted to the number of the newest
change they include: `results`, `announced` (the newest change whose
invalidation is done), `data` of every ranking.  Dates are compared only with
the cooldown and with each other: `cooling`, `dated` and `earlier` are the order
of dates instead of clocks.  `UpdateResults` and `Invalidate` are the two steps
of a judging, `Choose`, `Start`, `Build` and `Save` the loop of `rankingsd`,
`LoadRanking`, `ReadPage` and `Leave` a request that shows a page; each is one row-locked
transaction.  A daemon that dies leaves an abandoned recalculation.

`Rankings_safety`: two keys, two daemons, one writer, one viewer, two changes and
a daemon or a writer dying (1.6 million states).  `UpToDateIncludesAnnounced`: a
ranking that calls itself up to date includes every announced change;
`ShownIsRecent`: so does a page shown without the note that it is outdated,
although mark and page are read by separate queries; `PagesNeverGoBack`: a
recalculation that was overtaken replaces nothing.
`Rankings_live`: every announced change is published, if daemons loop, clocks
advance and writers finish (weak fairness of each; the daemon sleeps and
polls in an endless loop under supervisor).  It has one daemon, as supervisor
starts one: two may take the ranking from each other for ever, if it is
invalidated and has cooled down before either has saved.

A daemon that dies leaves the ranking to the next one: `RankingRecalc` is simply
replaced.  Two changes are enough for one to be announced before and one after a
recalculation has read the results.

## Prizes: scheduled distributions

`row` is one `PrizeGiving`, `awards` its `PrizeForUser` rows, each with the
distribution that made it, `tasks` the celery tasks with their dates, `request`
the forms being saved and `worker` the workers in `prizesmgr_job`.  `Redo`,
`Edit` and `ForceReset` start the saving of a form from an object loaded before,
`CheckValid` and `CheckInvalid` are `update()`, `FindAwards`, `DeleteAwards` and
`Write` `save()`, `Delegate`, `SendTask` and `DistributeInPlace` `schedule()`.
Requests are serialised by their `UPDATE` of the contest, which the admin page
saves before its inline forms; a worker takes only the lock of the prize-giving.
Versions are dates of change, taken as numbers; the threshold of one minute
between scheduling and distributing in place is "later than now".

`Prizes_admins`: two requests, one worker, two dates, four versions, with failing
distributions, raising workers and rollbacks (2.1 million states).
`AwardsOnlyInSuccess` and `DatedIsScheduled` hold without condition;
`ScheduledHasTask` unless a form was saved over a row changed since it was
loaded or a distribution raised, `TaskKeepsDate` and `AwardedOnce` unless such a
form was saved.  `mishaps` records these; both happen in the code.

## Notifications: a server between queues and browsers

`NotifServer` is the node process.  `sockets`, `users`, `asking` and `cached` are
`auth.js`, `worker`, `unack` (the keys of `unackMessages` in their order),
`context`, `rabbit_ready` and `workers_connected` are `queuemanager.js`, `wire`
the packets on their way to a browser.  `queue` and `inflight` are the broker.  A
callback of node runs to its end, so it is one step: `Deliver` is the 'data'
event with the emission to all sockets, `AuthAnswered` the answer of OIOIOI with
the subscription and the retransmission, `Disconnect` the logout with the closing
of the worker, whose 'close' event is `WorkerClosed`; `AckNots` is the whole loop
over the ids of a packet.  `AckRaises` is the same packet when the worker is
closed: `ack()` raises and the process ends.  `ContextClosed`, `InitContext` and
`ContextReady` are the loss of the broker and the new context.

`Notifications` adds the pages of one user's browser, which share its local
storage: each connects, loses its connection, is reloaded, takes the packets in
their order (`OnAuthenticate`, `OnMessageReceived`, `OnAcknowledgeCompleted`) and
is clicked (`AcknowledgeMessages`).  A packet to the server is handled in the step
that sends it; only the first packet of a socket waits (`greeting`).

*External.* A worker of rabbit.js takes the messages of its queue in order and
without a limit, `ack()` takes its oldest one, `close()` gives the others back and
is followed by 'close', `ack()` on a closed worker raises; acknowledgments in the
buffers of a lost connection are lost (`MaxUnsent`).  Packets of a socket arrive in
their order or not at all.  Supervisor starts the process again
(`deployment/supervisord.conf.template`).  Message bodies are JSON with an id, as
the only publisher writes them.

*Runs.* `Notif_tabs` has two messages, and two pages with one socket each and no
fault, or one page with two sockets (it reconnects or is reloaded) and one fault:
the broker is lost with or without CONNECTION-FORCED, the broker is restarted and
has lost its messages, or the process ends.  Two messages are what an
acknowledgment can confuse; two sockets of a user are what a retransmission can
miss.  `Notif_live` is the second layout with one message.

- `Mirror`: what the server holds for a user is, in this order, what the broker
  waits for.  `acknowledge()` compares an id with the first key and `ack()` names
  none, so everything rests on it.
- `ReadWasShown`: what was acknowledged was named by, and had reached, a page of
  its user.  `AckedIsGone`: it does not come again.
- `NothingMissed`: a socket that is logged in has or will get all that the server
  holds, although messages may come while its login is answered.
- `HonestBadge`, `LogsInOrSays`: a page that is not logged in says so, and in the
  end it is one or the other.  `CountsNew`: retransmissions are not counted twice.
- `Arrives`: a page that is logged in gets what waits, while its user has a worker.

*Fairness.* Weak fairness of the events of the broker and of node, of the answers
of OIOIOI (requests end, with an error if need be) and of the packets a page
receives.  None of clicks, publications, reloads or faults.

*Not claimed.* After a 'close' without CONNECTION-FORCED no user is subscribed
again; a login answered after its socket has closed leaves a worker that nobody
reads; the answer to a click stores messages that the server has not accepted, or
that came later, as read.  All three are behaviours of the model.

## LiveRanking: standings that are folded again from polls

*State.* `submits` and `lastJudgingTS` are the adapter's (the report that each
submission was stored from instead of its fields), `board` the model's counts of
pairs, teams and tasks, `acTasksIds` and `flashQueue` those of the flashes; the
queue keeps what was shown.  `request` are the AJAX calls in the order they were
sent, `cache` what `livedata_events_view` keeps for everyone but administrators
and observers, `report` the reports in the order of `creation_date`, which is
the second `clock` shows when a judging inserts one, and `committed` when others
see it.

*Actions.* `Poll` is the timer: `adapter.getEvents` sends a request from the
newest time known, less a second, and `model.getEvents` folds what earlier
answers have left.  `Answer` is the view, `Receive` the handler of success with
`processQueue`, `Lose` the handler of errors, `FlashUpdate` the other timer.  The
event START comes first in every answer, so the adapter's queue is empty when the
handler ends.  Sorting by time leaves the order within a second open, as the
`sort` of browsers may and the order of properties does.

*Run.* `LiveRanking_page`: an administrator or another viewer, two requests at a
time, which may answer in any order, two reports (two of one submission, or of
two), three seconds (a report is late when it is visible more than one second
after a newer one), and four submissions: a wrong and a right one of a second, and
a wrong and a frozen right one of a team whose name the flashes cannot shorten,
which may be judged SE first, a status the page does not know.

- `NothingSkipped`: a visible report that the page lacks is in what it asks for
  next, however requests overlap and get lost.  Excluded are late reports
  (`late`): the page never asks for them again until it is loaded anew.
- `StandingsAreRight`: the fold is what the rules say of the submissions the page
  knows: first accepted ones, penalties for wrong ones before, sums for teams and
  tasks.
- `FlashesAreTrue`: a task is announced once, and stays solved.
- `Published`: a solved task comes to the standings.

*Fairness.* Weak for the timer and the expiry of the cache; strong for answers and
their reception, because any request may be lost but not all of them.

*Not claimed.* A rejudge never reaches an open page: the stored event has no
`judgingTS` to compare with (`CAdapter.js:187`), and of an answer with both reports
the older one is taken, although the note at `CAdapter.js:239` says that the one
with the highest `judgingTimestamp` is current.  A team whose name has no match
loses its flash and ends that update for the teams after it.  What is drawn, the
time a flash is shown and the emptying of a long queue are left out, and so are
teams and tasks that join later: both are loaded once.

## Findings

| Run | What the code does |
|---|---|
| `Notif_forwarded` | A page that logs in between the last logout of its user and the worker's `close` event finds the worker in `workers` and makes none: nothing is forwarded to it until it is connected again. |

Six more behaviours of the models have no run of their own, because a
conditional property says what remains true in spite of them:

- A transfer to sioworkersd deletes `error_handlers` from the worker's own environ
  before it sends (`sioworkers/handlers.py:22`).  When sending raises none of them
  runs, although `evalmgr_job` is documented to call them whenever a phase raises
  (`evalmgr/tasks.py:290`) and `create_environ` gives every job one that removes its
  row: the row stays `WAITING`, and there is no FAILURE report and no automatic
  rejudge.  `LeavesQueue` and `NothingStranded` except such a job (`dropped`),
  `FlagIsHonest` and `AllRejudged` its submission (`lapsed`); without the exception
  TLC refutes each of them.
- Two overlapping evaluations leave two ACTIVE reports, since the second `UPDATE`
  does not see the row that the first one activated, and `get()` raises in the next
  update (`problems/controllers.py:243`).  `AloneRepairs`: an evaluation on its own
  repairs it.
- A partial rejudge with a test to keep always fails: `make_report` wants the
  `stderr` of a result that was not run (`programs/handlers.py:506`).
  `JudgedOnCurrent` and `AllRejudged` hold with these failures.
- A redo deletes the awards it sees before it waits for a worker's lock, and
  distributes on top of the worker's awards (`prizes/models.py:249`).
  `AwardedOnce` excludes it by `mishaps`.
- A judging loads the submission and saves all of it (`programs/controllers.py:305`):
  a change of kind committed in between is lost.  `ProblemsSettle` and the levels
  above hold for the kinds that the submissions are left with.
- The live page keeps the first result of a submission; see *LiveRanking*.

## Proofs

The theorems hold for every value of the constants that satisfies the named
assumptions of the modules; they use no bound of the runs.

- `EvalMgr_proofs`.  `TypeCorrect` by `TypeInv`, which adds that a worker about to
  send a request knows its id.  `ResumeCorrect` by `IdInv`: ids are fresh, and a
  worker about to send has the id of the environ it saved; without it a new
  request could reuse an id.  `OneExecutorCorrect` by `ExecInv` (jobs not yet begun
  have no message, row or environ) and `HoldsRow` (whoever is about to mark or
  consume holds the lock that keeps others out).  It holds until a calling
  transaction rolls back after its message left, since then the environ is there
  again while the message runs.  `SaveCorrect` and `NoPhaseTwiceCorrect` by
  `PhaseInv`, up to the same rollback: whoever may go on with a job is exactly as
  far as its executed phases, and once PROGRESS is marked the transaction that
  resumed it is over and its environ deleted.  `LifecycleCorrect`, the refinement
  of `JobLifecycle` by initial states and steps, holds with rollbacks too, because
  it allows a phase to be repeated: `NoneAhead` (nobody is beyond the executed
  phases) and `FreshIsInactive` are enough.  `StrandsNothing` holds with rollbacks
  too; a worker's death breaks it, and the row of a job is excepted whose transfer to
  sioworkersd raised (`dropped`).  `RowsCarried` is stronger than the
  property: a worker that is sending does not count, since it leaves without a
  look at the row.  A transaction that ends hands the row over, because its message
  or the worker that took it waits for the row (`MessageWaits`), or leaves none,
  because the job was untouched when it began (`StartInv`).  `Answered` says that
  a transaction that has taken an environ was given an answer, so that a rollback
  makes the evaluator repeat it.
- `Reports_proofs`.  `TypeCorrect`, `KeepsActive`, `NewestShown`,
  `AloneRepairsAll`.  `AllSound` says what an evaluation holds: its reports are of
  its group and uncommitted until it commits (`Sound`); a row that it takes from
  ACTIVE gets a successor in the same transaction, or is about to (`Replaced`); and
  two evaluations never insert the same report (`Distinct`).  `KeepsActive`
  follows from it, because a row that another transaction locks is looked at again
  after the wait.  `NewestShown` adds that while the newest report is INACTIVE an
  evaluation has yet to activate one as new (`Covered`).  `AloneRepairsAll` adds,
  stage by stage, what the snapshots of an evaluation say that is alone
  (`AloneInv`).
- `Rejudging_proofs`. `TypeCorrect`, `JudgedCorrect`, `FlagCorrect`, for finitely
  many submissions. `JudgedCorrect` needs that an evaluation judges tests that it
  has fetched (`JudgesFetched`): names that were not are not in the tests.
  `FlagIsHonest` is not inductive: a report on old tests may be the newest without
  being active yet, an evaluation may hold rows that an upload has made old, and a
  submission made after the request found the others must not be on old tests when
  the request lowers the flag. `StaleIsRejudged`, `StaleIsUnderWay` and
  `LateIsCurrent` say each of them, of every submission that is not lapsed; a step
  that loses an evaluation must leave them true of all others.
- `Rankings_proofs`.  `TypeCorrect`, `UpToDateCorrect`, `OneRecalculationCorrect`,
  `PagesCorrect`, `ShownCorrect`.  `UpToDate` alone is not inductive: a daemon about to save
  must have read results that include what was announced unless the ranking was
  invalidated again (`ReadRecently`), a recalculation must belong to one running
  daemon (`Owned`), and numbers must be bounded by the newest change.
  `ShownCorrect` adds that a request which found the ranking up to date will read
  pages at least as recent as it promised (`Promised`): pages only grow.
- `UserResults_proofs`.  `ProblemsCorrect`, `RoundsCorrect`, `ContestCorrect`.  A
  judging is *ahead* of a row when it has yet to lock it.  Unless one is, whoever
  holds the row has computed the right value and a free row has the right value:
  locks exclude each other, what is computed is right, and the property, per
  level.  The proofs need only that a sum depends on the function it is given, so
  that types are stated over any set of values (`Shape`), which is all the module
  needs of a type invariant.
- `Prizes_proofs`.  `TypeCorrect`, `AwardsCorrect`, `ScheduledCorrect` by one
  invariant: requests that save are serialised and exclude distributing workers
  (`Serialised`), and how far a request is says which object it has and what it
  has found and deleted (`Flows`).  `HasTaskCorrect`, `DateCorrect` and
  `AwardedCorrect` by `Tracking`: fresh versions are in no task; a request that
  nobody has overtaken keeps a task's version only with the task's date, and
  deletes every award that it does not give; a distributing worker has the row
  alone, in its task's version.
- `Notifications_proofs`, about the server alone, with any clients. `MirrorHolds`,
  `OnlyNamedAcked`, `AckedStaysGone`, `NoLoginMisses` by one invariant:
  acknowledged, unacknowledged and queued messages of a user are one sequence
  without repetitions of messages that were sent to him (`Placed`), a worker that
  is not open holds nothing and one that is has a ready context (`Attached`), and
  only sockets that were connected log in (`Connected`). `Mirror` alone is not
  inductive: `unackMessages` is an object, and a key that is there already keeps
  its place, so a message delivered twice to a worker would break the order;
  `Placed` excludes it.
- `Notifications_proofs`, about the whole. `PagesAreClients`: the pages implement
  the server with arbitrary clients, so that the theorems above hold of the whole.
  `ReadWasReceived` adds that what a page has as unconfirmed was received and
  `BadgeCountsNew` that it is without repetitions and part of the list, for any
  number of pages and sockets. `BadgeIsHonest` adds that whatever positive answer
  or message is on its way goes to a socket that is logged in (`OkIsLoggedIn`),
  that the two maps of `auth.js` agree (`LoginsMatch`) and that no two pages have
  the same socket (`PagesApart`): only then can a page not clear the `!` of a
  refused login.
- `LiveRanking_proofs`.  `SkipsNothing` by `PollInv`.  That the page asks for the
  report next is not inductive, because an older answer may come first: every request
  that is under way, every answer and the cache bring a report that is due, or
  nothing made more than a second after it (`Promised`), and all they have was
  visible (`Sources`), so that a report which becomes visible in time is behind none
  of them.
- `LiveRanking_proofs`, about what is shown, for finitely many submissions, teams
  and tasks (the server lists them, and sums and the order of announcements have
  no meaning otherwise).  `StandingsCorrect`: the standings after a poll are those
  of the rules.  `processEvent` is folded over the known submissions in the order of
  time, so the proof is an induction over the length of that order (`AfterAll`):
  after n events a pair is solved if an accepted submission of it is among them,
  its penalty counts the wrong ones up to the first accepted one (`AfterStep`), and
  the sums of teams and tasks are the sums of their pairs (`SumsStep`).
  `PairIsRight` turns the positions of that order into the times of the rules.
  `FlashesCorrect` by `FlashInv`: what the standings show stems from an accepted
  submission, which stays one (`AcsKept`), what is noted is shown, and what is
  announced is noted.  `TypeCorrect` comes with both.

  The induction theorems of the library take the statement as a parameter, which
  these provers cannot instantiate.  Here a set takes its place: `NatSet` says that
  a set of numbers with 0 and with the successors of its elements has them all,
  `SubsetInduction` the same of finite sets, and each induction is over the set of
  the numbers, or sets, for which its statement holds.  That the folds of the
  community modules have values, and which, is `FoldExists` and `FoldValues`; sums
  are `SumExists`, `ScoreTotal`, `TimeTotal` and `TotalGrows`.

Checked by TLC only: all liveness (`LeavesQueue`, `AnnouncedIsPublished`,
`AllRejudged`, `LogsInOrSays`, `Arrives`, `Published` and the fair refinement),
which these provers cannot do.  Every safety property of the runs is proved: for
most of the liveness properties one of them says that whatever has to happen is
still under way (`NothingStranded`, `UpToDateIncludesAnnounced`, `FlagIsHonest`,
`HonestBadge`, `NothingMissed`, `NothingSkipped`).  Type correctness of EvalMgr,
Reports, Rejudging, Prizes and the notifications is proved and not run, and so is
`OneRecalculation`.

## Plan

Done: EvalMgr, Reports, Rejudging, UserResults, Rankings, Prizes, Notifications
and LiveRanking, in the order of their weight in the life of a submission. Next:

1. `SuspendJudge`: a job that looks at the flag, an administrator who resumes and
   rejudges, and a job that marks itself SUSPENDED afterwards; and the rejudge
   that deletes rows of running jobs.  Composes with the row states of EvalMgr.
2. `Packages`: unpacking and its status, confirmation, deletion of a package that
   is being unpacked.
3. `Zeus`: retried requests, repeated callbacks, replaced test sets; uses EvalMgr's
   `Deliver`.
4. `Balloons`: deliveries created while first solvers are waited for, and panels
   that poll by the largest id and mark deliveries.
5. `Limits`: submission limits, revealed scores and accepted mails, checked before
   they are used.
6. `Scoring`: the scorers of tests and groups as operators, against definitions
   by sets (`threshold_linear_test_scorer` at its limits, `min_group_scorer`).

## Not modelled

- Pages, forms and content that are read and written in one transaction
  (portals, forum, newsfeed, participants, teams, contests' administration), and
  what only reads (statistics, exports, dashboards): there is no protocol.
- Files, compilers, judging machines, mail, Zeus' own side: other programs, seen
  only through their callers.
- Most JavaScript of the repository is libraries it carries along (jquery,
  jquery-ui, bootstrap, moment, d3, tree.jquery, marked, highlight and others).
  They are not this system and are not modelled, which leaves a small part of the
  JavaScript lines to model: the notifications server, its pages and the live
  standings are. Of the rest, drawing has no state that matters, the polls of
  questions and statuses only replace what they show, and the timeline, the
  pickers, the portals' tree and the clock handle one user's clicks in one page.
