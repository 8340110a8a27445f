------------------------------ MODULE EvalMgr ------------------------------
(***************************************************************************)
(* The evaluation manager of OIOIOI (oioioi/evalmgr).  A job is an environ *)
(* that celery workers execute phase by phase; a "transfer" phase parks it *)
(* in the SavedEnviron table until an external evaluator (sioworkersd or   *)
(* Zeus) reports results, and its state is published in QueuedJob.         *)
(*                                                                         *)
(* Processes: celery workers running evalmgr_job, transactions that call   *)
(* delay_environ (web requests that judge a submission, the daemon         *)
(* receive_from_workers, the Zeus callback) and administrators using the   *)
(* queue page.  The database is PostgreSQL in READ COMMITTED, and          *)
(* mark_job_state reads a QueuedJob row without locking it, so its read    *)
(* and its write are separate actions.                                     *)
(***************************************************************************)
EXTENDS Naturals, Sequences, FiniteSets

CONSTANTS
    Jobs,              \* environs made by create_environ, one uuid each
    Workers,           \* celery worker processes
    Callers,           \* transactions calling delay_environ concurrently
    Recipe,            \* the phases of a job: handlers, and transfers by evaluator
    MaxReplies,        \* bound: deliveries of one result by the evaluator
    Disturbances,      \* which disturbances happen
    MaxDisturbances    \* bound: how many of each kind in a behaviour

Phases == {"handler", "sioworkers", "zeus"}

ASSUME JobsAssumption == Jobs # {}
ASSUME RecipeAssumption == Recipe \in Seq(Phases)
ASSUME BoundAssumption ==
    /\ MaxReplies \in Nat \ {0}
    /\ MaxDisturbances \in Nat
    /\ Disturbances \subseteq {"rollback", "crash", "cancel", "delete"}

VARIABLES
    queue,      \* QueuedJob: the committed state of every job's row
    saved,      \* SavedEnviron: the committed rows
    nextId,     \* the next SavedEnviron id
    messages,   \* celery messages in the broker
    nextTask,   \* the next celery task id
    worker,     \* the local state of each worker process
    caller,     \* the local state of each transaction in delay_environ
    sent,       \* requests held by the external evaluator
    admin,      \* rows a remove_from_queue request has loaded
    fresh,      \* jobs not yet handed to delay_environ
    ran,        \* history: the last phase of the job that was executed
    dropped,    \* history: jobs that ended without their error handlers
    spent       \* how many disturbances of each kind have happened

tables == <<queue, saved, nextId>>
broker == <<messages, nextTask>>
history == <<ran, dropped>>
vars == <<tables, broker, worker, caller, sent, admin, fresh, history, spent>>

RowStates == {"absent", "QUEUED", "PROGRESS", "WAITING", "CANCELLED"}
Positions == 0 .. Len(Recipe)

\* `pos` phases of the job are gone from env['recipe']; `seen` is the row
\* state read by mark_job_state; `sid` is environ['saved_environ_id'].
WorkerStates == [pc : {"idle", "mark", "run", "save", "send", "undo", "error"},
                 job : Jobs, pos : Positions, seen : RowStates, sid : Nat]
CallerStates == [pc : {"idle", "mark", "sent"}, job : Jobs, pos : Positions,
                 err : BOOLEAN, seen : RowStates, sid : Nat]
SavedRows == [id : Nat \ {0}, job : Jobs, pos : Positions]
Messages == [task : Nat, job : Jobs, pos : Positions, err : BOOLEAN]
Requests == [id : Nat \ {0}, job : Jobs, pos : Positions, left : 0 .. MaxReplies]

SomeJob == CHOOSE j \in Jobs : TRUE
IdleWorker == [pc |-> "idle", job |-> SomeJob, pos |-> 0, seen |-> "absent",
               sid |-> 0]
IdleCaller == [pc |-> "idle", job |-> SomeJob, pos |-> 0, err |-> FALSE,
               seen |-> "absent", sid |-> 0]

\* Every variable holds a value of its table, queue or process.
TypeOK ==
    /\ queue \in [Jobs -> RowStates]
    /\ saved \subseteq SavedRows
    /\ nextId \in Nat \ {0}
    /\ messages \subseteq Messages
    /\ nextTask \in Nat
    /\ worker \in [Workers -> WorkerStates]
    /\ caller \in [Callers -> CallerStates]
    /\ sent \subseteq Requests
    /\ admin \subseteq Jobs
    /\ fresh \subseteq Jobs
    /\ ran \in [Jobs -> Positions]
    /\ dropped \subseteq Jobs
    /\ spent \in [Disturbances -> Nat]

Init ==
    /\ queue = [j \in Jobs |-> "absent"]
    /\ saved = {}
    /\ nextId = 1
    /\ messages = {}
    /\ nextTask = 0
    /\ worker = [w \in Workers |-> IdleWorker]
    /\ caller = [c \in Callers |-> IdleCaller]
    /\ sent = {}
    /\ admin = {}
    /\ fresh = Jobs
    /\ ran = [j \in Jobs |-> 0]
    /\ dropped = {}
    /\ spent = [d \in Disturbances |-> 0]

(***************************************************************************)
(* Locks.  A transaction of delay_environ keeps its uncommitted write of   *)
(* the QueuedJob row until it commits, and the row lock that _resume_job   *)
(* takes on the SavedEnviron row it consumes.                              *)
(***************************************************************************)
RowLocked(j) == \E c \in Callers : caller[c].pc = "sent" /\ caller[c].job = j
NoEnvLock(id) == FALSE   \* slip: _resume_job without select_for_update
EnvLocked(id) == \E c \in Callers : caller[c].pc # "idle" /\ caller[c].sid = id
Deletable(j) ==
    /\ ~RowLocked(j)
    /\ \A s \in saved : s.job = j => ~EnvLocked(s.id)

\* Deleting a QueuedJob row cascades to its SavedEnviron.
DeleteRow(j) ==
    /\ queue' = [queue EXCEPT ![j] = "absent"]
    /\ saved' = {s \in saved : s.job # j}
    /\ UNCHANGED nextId

\* What get_or_create and the state test of mark_job_state lead to, given
\* the row state p.seen that was read: delete the cancelled row; read again,
\* because another transaction inserted the row; or write the new state,
\* inserting the row when it is gone (Model.save updates, then inserts).
Dropped(p) == p.seen = "CANCELLED" /\ ~RowLocked(p.job)
Conflicts(p) == p.seen = "absent" /\ queue[p.job] # "absent"
Marked(p) ==
    /\ p.seen # "CANCELLED"
    /\ p.seen = "absent" => queue[p.job] = "absent"
    /\ ~RowLocked(p.job)

(***************************************************************************)
(* Slips of the kind the properties below are meant to catch; they are not *)
(* part of the specification.                                              *)
(***************************************************************************)
\* _resume_job that forgets to delete the SavedEnviron it loaded.
CommitKeepingSaved(c) ==
    /\ caller[c].pc = "sent"
    /\ queue' = [queue EXCEPT ![caller[c].job] = "QUEUED"]
    /\ caller' = [caller EXCEPT ![c] = IdleCaller]
    /\ UNCHANGED <<saved, nextId, broker, worker, sent, admin, fresh, history, spent>>

\* receive_from_workers that drops reports of errors of the evaluator.
DeliverResultsOnly(c, t, e) ==
    /\ caller[c].pc = "idle"
    /\ t.left > 0
    /\ sent' = (sent \ {t}) \cup {[t EXCEPT !.left = @ - 1]}
    /\ \/ \E s \in saved :
            /\ s.id = t.id /\ ~e
            /\ caller' = [caller EXCEPT ![c] =
                            [pc |-> "mark", job |-> s.job, pos |-> s.pos, err |-> e,
                             seen |-> queue[s.job], sid |-> s.id]]
       \/ e /\ UNCHANGED caller
    /\ UNCHANGED <<tables, broker, worker, admin, fresh, history, spent>>

\* Model of SavedEnviron with queued_job as its primary key.
SaveUnderJobKey(w) ==
    LET j == worker[w].job
    IN  /\ worker[w].pc = "save"
        /\ Marked(worker[w])
        /\ queue' = [queue EXCEPT ![j] = "WAITING"]
        /\ saved' = {s \in saved : s.job # j} \cup {[id |-> 1, job |-> j, pos |-> worker[w].pos]}
        /\ worker' = [worker EXCEPT ![w].pc = "send", ![w].sid = 1]
        /\ UNCHANGED <<nextId, broker, caller, sent, admin, fresh, history, spent>>

\* evalmgr_job that takes the phases from the end of the recipe.
RunLastPhase(w) ==
    /\ worker[w].pc = "run"
    /\ worker[w].pos < Len(Recipe)
    /\ ran' = [ran EXCEPT ![worker[w].job] = Len(Recipe)]
    /\ worker' = [worker EXCEPT ![w].pos = Len(Recipe)]
    /\ UNCHANGED <<tables, broker, caller, sent, admin, fresh, dropped, spent>>

\* remove_queuedjob_on_error missing from the error handlers.
ErrorKeepsRow(w) ==
    /\ worker[w].pc = "error"
    /\ worker' = [worker EXCEPT ![w] = IdleWorker]
    /\ UNCHANGED <<tables, broker, caller, sent, admin, fresh, history, spent>>

(***************************************************************************)
(* delay_environ, always inside a transaction.                             *)
(***************************************************************************)
\* A request judges a new job (its job_id is unused, so no other transaction
\* can insert the row): read the QueuedJob row of the job.
Begin(c, j) ==
    /\ caller[c].pc = "idle"
    /\ j \in fresh
    /\ fresh' = fresh \ {j}
    /\ caller' = [caller EXCEPT ![c] =
                    [pc |-> "mark", job |-> j, pos |-> 0, err |-> FALSE,
                     seen |-> queue[j], sid |-> 0]]
    /\ UNCHANGED <<tables, broker, worker, sent, admin, history, spent>>

\* The evaluator delivers results for saved_environ_id t.id, or an error of
\* its own (e).  _resume_job locks the SavedEnviron row and takes the environ
\* out of it; without such a row the results are ignored.
Deliver(c, t, e) ==
    /\ caller[c].pc = "idle"
    /\ t.left > 0
    /\ ~EnvLocked(t.id)
    /\ sent' = (sent \ {t}) \cup {[t EXCEPT !.left = @ - 1]}
    /\ \/ \E s \in saved :
            /\ s.id = t.id
            /\ caller' = [caller EXCEPT ![c] =
                            [pc |-> "mark", job |-> s.job, pos |-> s.pos, err |-> e,
                             seen |-> queue[s.job], sid |-> s.id]]
       \/ /\ \A s \in saved : s.id # t.id
          /\ UNCHANGED caller
    /\ UNCHANGED <<tables, broker, worker, admin, fresh, history, spent>>

\* mark_job_state finds the job cancelled: its row goes, and so does the
\* SavedEnviron that was taken.
CallerDropped(c) ==
    /\ caller[c].pc = "mark"
    /\ Dropped(caller[c])
    /\ \A s \in saved : s.job = caller[c].job /\ EnvLocked(s.id) => s.id = caller[c].sid
    /\ DeleteRow(caller[c].job)
    /\ caller' = [caller EXCEPT ![c] = IdleCaller]
    /\ UNCHANGED <<broker, worker, sent, admin, fresh, history, spent>>

\* The row is written (not committed) and the celery message is sent.
CallerSends(c) ==
    /\ caller[c].pc = "mark"
    /\ Marked(caller[c])
    /\ messages' = messages \cup
            {[task |-> nextTask, job |-> caller[c].job, pos |-> caller[c].pos,
              err |-> caller[c].err]}
    /\ nextTask' = nextTask + 1
    /\ caller' = [caller EXCEPT ![c].pc = "sent"]
    /\ UNCHANGED <<tables, worker, sent, admin, fresh, history, spent>>

Commit(c) ==
    /\ caller[c].pc = "sent"
    /\ queue' = [queue EXCEPT ![caller[c].job] = "QUEUED"]
    /\ saved' = {s \in saved : s.id # caller[c].sid}
    /\ caller' = [caller EXCEPT ![c] = IdleCaller]
    /\ UNCHANGED <<nextId, broker, worker, sent, admin, fresh, history, spent>>

(***************************************************************************)
(* evalmgr_job on a celery worker.                                         *)
(***************************************************************************)
\* The task starts.  An environ with an 'error' from the evaluator raises
\* before the job is marked; otherwise the QueuedJob row is read.
Receive(w, m) ==
    /\ worker[w].pc = "idle"
    /\ messages' = messages \ {m}
    /\ worker' = [worker EXCEPT ![w] =
                    [pc |-> IF m.err THEN "error" ELSE "mark", job |-> m.job,
                     pos |-> m.pos, seen |-> queue[m.job], sid |-> 0]]
    /\ UNCHANGED <<tables, nextTask, caller, sent, admin, fresh, history, spent>>

\* Both states a worker marks: "mark" for PROGRESS, "save" for WAITING.
Marking(w) == worker[w].pc \in {"mark", "save"}

\* A cancelled job: the row is deleted and Ignore ends the task.
WorkerDropped(w) ==
    /\ Marking(w)
    /\ Dropped(worker[w])
    /\ Deletable(worker[w].job)
    /\ DeleteRow(worker[w].job)
    /\ worker' = [worker EXCEPT ![w] = IdleWorker]
    /\ UNCHANGED <<broker, caller, sent, admin, fresh, history, spent>>

WorkerConflicts(w) ==
    /\ Marking(w)
    /\ Conflicts(worker[w])
    /\ worker' = [worker EXCEPT ![w].seen = queue[worker[w].job]]
    /\ UNCHANGED <<tables, broker, caller, sent, admin, fresh, history, spent>>

MarkProgress(w) ==
    /\ worker[w].pc = "mark"
    /\ Marked(worker[w])
    /\ queue' = [queue EXCEPT ![worker[w].job] = "PROGRESS"]
    /\ worker' = [worker EXCEPT ![w].pc = "run"]
    /\ UNCHANGED <<saved, nextId, broker, caller, sent, admin, fresh, history, spent>>

After(pos) == IF Recipe[pos] = "handler" THEN "run" ELSE "save"

\* The next phase runs; a handler that called transfer_job leads to
\* _transfer_job, which first reads the QueuedJob row.
RunPhase(w) ==
    LET j == worker[w].job
        pos == worker[w].pos + 1
    IN  /\ worker[w].pc = "run"
        /\ pos <= Len(Recipe)
        /\ ran' = [ran EXCEPT ![j] = IF @ < pos THEN pos ELSE @]
        /\ worker' = [worker EXCEPT ![w] = [@ EXCEPT !.pos = pos, !.pc = After(pos),
                                                     !.seen = queue[j]]]
        /\ UNCHANGED <<tables, broker, caller, sent, admin, fresh, dropped, spent>>

PhaseRaises(w) ==
    /\ worker[w].pc = "run"
    /\ worker[w].pos < Len(Recipe)
    /\ worker' = [worker EXCEPT ![w].pc = "error"]
    /\ UNCHANGED <<tables, broker, caller, sent, admin, fresh, history, spent>>

\* One transaction marks the row WAITING and saves the environ.  The
\* SavedEnviron of a job is unique: a second one is an IntegrityError.
SaveEnviron(w) ==
    LET j == worker[w].job
        mine == {s \in saved : s.job = j}
    IN  /\ worker[w].pc = "save"
        /\ Marked(worker[w])
        /\ \A s \in mine : ~EnvLocked(s.id)
        /\ IF mine = {}
           THEN /\ queue' = [queue EXCEPT ![j] = "WAITING"]
                /\ saved' = saved \cup {[id |-> nextId, job |-> j, pos |-> worker[w].pos]}
                /\ nextId' = nextId + 1
                /\ worker' = [worker EXCEPT ![w].pc = "send", ![w].sid = nextId]
           ELSE /\ worker' = [worker EXCEPT ![w].pc = "error"]
                /\ UNCHANGED tables
        /\ UNCHANGED <<broker, caller, sent, admin, fresh, history, spent>>

Request(w) == [id |-> worker[w].sid, job |-> worker[w].job,
               pos |-> worker[w].pos, left |-> MaxReplies]

\* transfer_func, outside any transaction: the evaluator takes the request.
SendRequest(w) ==
    /\ worker[w].pc = "send"
    /\ sent' = sent \cup {Request(w)}
    /\ worker' = [worker EXCEPT ![w] = IdleWorker]
    /\ UNCHANGED <<tables, broker, caller, admin, fresh, history, spent>>

\* transfer_func raises; the evaluator may have taken the request all the
\* same (the answer was lost, or came too late).
SendRaises(w, received) ==
    /\ worker[w].pc = "send"
    /\ sent' = IF received THEN sent \cup {Request(w)} ELSE sent
    /\ worker' = [worker EXCEPT ![w].pc = "undo"]
    /\ UNCHANGED <<tables, broker, caller, admin, fresh, history, spent>>

\* The transfer_func of sioworkers deletes 'recipe' and 'error_handlers' from
\* the environ, the worker's own, before it sends; that of Zeus keeps them.
KeepsHandlers(pos) == Recipe[pos] = "zeus"

\* _transfer_job deletes the SavedEnviron, unless results have resumed it by
\* now, and raises again; the error handlers run if there still are any.
\* Otherwise the task ends here, and so does the job that was taken back.
UndoSave(w) ==
    LET taken == {s \in saved : s.id = worker[w].sid}
    IN  /\ worker[w].pc = "undo"
        /\ ~EnvLocked(worker[w].sid)
        /\ saved' = saved \ taken
        /\ \/ /\ KeepsHandlers(worker[w].pos)
              /\ worker' = [worker EXCEPT ![w].pc = "error", ![w].sid = 0]
              /\ UNCHANGED dropped
           \/ /\ ~KeepsHandlers(worker[w].pos)
              /\ worker' = [worker EXCEPT ![w] = IdleWorker]
              /\ dropped' = dropped \cup {s.job : s \in taken}
        /\ UNCHANGED <<queue, nextId, broker, caller, sent, admin, fresh, ran, spent>>

\* _run_error_handlers on an environ that has its handlers:
\* remove_queuedjob_on_error comes first; those after it do not touch the
\* tables of evalmgr.
HandleError(w) ==
    /\ worker[w].pc = "error"
    /\ Deletable(worker[w].job)
    /\ DeleteRow(worker[w].job)
    /\ worker' = [worker EXCEPT ![w] = IdleWorker]
    /\ UNCHANGED <<broker, caller, sent, admin, fresh, history, spent>>

\* The recipe is empty: _job_finished.
Finish(w) ==
    /\ worker[w].pc = "run"
    /\ worker[w].pos = Len(Recipe)
    /\ Deletable(worker[w].job)
    /\ DeleteRow(worker[w].job)
    /\ worker' = [worker EXCEPT ![w] = IdleWorker]
    /\ UNCHANGED <<broker, caller, sent, admin, fresh, history, spent>>

(***************************************************************************)
(* Administrators: the queue page lists rows that are not CANCELLED.       *)
(***************************************************************************)
Listed(j) == queue[j] \notin {"absent", "CANCELLED"}

Disturb(kind) ==
    /\ kind \in Disturbances
    /\ spent[kind] < MaxDisturbances
    /\ spent' = [spent EXCEPT ![kind] = @ + 1]

\* remove_from_queue evaluates its queryset, then saves each loaded object.
LoadForCancel(j) ==
    /\ Listed(j)
    /\ Disturb("cancel")
    /\ admin' = admin \cup {j}
    /\ UNCHANGED <<tables, broker, worker, caller, sent, fresh, history>>

SaveCancelled(j) ==
    /\ j \in admin
    /\ ~RowLocked(j)
    /\ queue' = [queue EXCEPT ![j] = "CANCELLED"]
    /\ admin' = admin \ {j}
    /\ UNCHANGED <<saved, nextId, broker, worker, caller, sent, fresh, history, spent>>

\* delete_selected.
DeleteSelected(j) ==
    /\ Listed(j)
    /\ Deletable(j)
    /\ Disturb("delete")
    /\ DeleteRow(j)
    /\ UNCHANGED <<broker, worker, caller, sent, admin, fresh, history>>

(***************************************************************************)
(* Failures.  A transaction rolls back with the request it is part of, but *)
(* the celery message is gone; a result delivery that was not answered is  *)
(* repeated.  A worker that dies takes its acknowledged message with it.   *)
(***************************************************************************)
Rollback(c) ==
    /\ caller[c].pc # "idle"
    /\ Disturb("rollback")
    /\ sent' = {IF t.id = caller[c].sid /\ t.left < MaxReplies
                THEN [t EXCEPT !.left = @ + 1] ELSE t : t \in sent}
    /\ caller' = [caller EXCEPT ![c] = IdleCaller]
    /\ UNCHANGED <<tables, broker, worker, admin, fresh, history>>

Crash(w) ==
    /\ worker[w].pc # "idle"
    /\ Disturb("crash")
    /\ worker' = [worker EXCEPT ![w] = IdleWorker]
    /\ UNCHANGED <<tables, broker, caller, sent, admin, fresh, history>>

CallerNext(c) ==
    \/ CallerDropped(c)
    \/ CallerSends(c)
    \/ Commit(c)

WorkerNext(w) ==
    \/ WorkerDropped(w)
    \/ WorkerConflicts(w)
    \/ MarkProgress(w)
    \/ RunPhase(w)
    \/ PhaseRaises(w)
    \/ SaveEnviron(w)
    \/ SendRequest(w)
    \/ \E received \in BOOLEAN : SendRaises(w, received)
    \/ UndoSave(w)
    \/ HandleError(w)
    \/ Finish(w)

AdminNext(j) == LoadForCancel(j) \/ SaveCancelled(j) \/ DeleteSelected(j)

\* Nothing is left to do: every job was handed over and all is at rest.
Quiet ==
    /\ fresh = {} /\ messages = {} /\ admin = {}
    /\ \A t \in sent : t.left = 0
    /\ \A w \in Workers : worker[w].pc = "idle"
    /\ \A c \in Callers : caller[c].pc = "idle"

Next ==
    \/ \E c \in Callers, j \in fresh : Begin(c, j)
    \/ \E c \in Callers, t \in sent, e \in BOOLEAN : Deliver(c, t, e)
    \/ \E c \in Callers : CallerNext(c) \/ Rollback(c)
    \/ \E w \in Workers, m \in messages : Receive(w, m)
    \/ \E w \in Workers : WorkerNext(w) \/ Crash(w)
    \/ \E j \in Jobs : AdminNext(j)
    \/ Quiet /\ UNCHANGED vars

Spec == Init /\ [][Next]_vars

(***************************************************************************)
(* Fairness: celery workers and the receiving processes keep running, the  *)
(* broker hands every message to a free worker, and the evaluator delivers *)
(* each result at least once.                                              *)
(***************************************************************************)
Fairness ==
    /\ \A c \in Callers : WF_vars(CallerNext(c))
    /\ \A w \in Workers : WF_vars(WorkerNext(w))
    /\ WF_vars(\E w \in Workers, m \in messages : Receive(w, m))
    /\ WF_vars(\E c \in Callers, t \in sent, e \in BOOLEAN :
                    t.left = MaxReplies /\ Deliver(c, t, e))

FairSpec == Spec /\ Fairness

(***************************************************************************)
(* Properties.                                                             *)
(***************************************************************************)
\* What stands for the right to go on with job j: its message in the broker,
\* a worker executing it, a transaction about to send the first message, or
\* a SavedEnviron that no uncommitted transaction has consumed.
Consumed(id) == \E c \in Callers : caller[c].pc = "sent" /\ caller[c].sid = id
MessageTokens(j) == {<<"message", m>> : m \in {m \in messages : m.job = j}}
WorkerTokens(j) == {<<"worker", w>> : w \in {w \in Workers :
        worker[w].pc \in {"mark", "run", "save"} /\ worker[w].job = j}}
CallerTokens(j) == {<<"caller", c>> : c \in {c \in Callers :
        caller[c].pc = "mark" /\ caller[c].job = j /\ caller[c].sid = 0}}
SavedTokens(j) == {<<"saved", s>> : s \in {s \in saved :
        s.job = j /\ ~Consumed(s.id)}}
Tokens(j) == MessageTokens(j) \cup WorkerTokens(j) \cup CallerTokens(j)
                \cup SavedTokens(j)

\* A job never runs in two places at once: at most one worker, message,
\* starting transaction or parked environ carries it on.  (Late, repeated
\* and concurrent deliveries of results all go through _resume_job.)
OneExecutor == \A j \in Jobs : \A t, u \in Tokens(j) : t = u

\* Results only ever resume the environ that was saved for the request they
\* answer, never one saved by a later transfer of the same job, which is why
\* SavedEnviron has a key of its own (comment on SavedEnviron in models.py).
ResumeMatchesTransfer ==
    /\ \A t \in sent, s \in saved : t.id = s.id => t.job = s.job /\ t.pos = s.pos
    /\ \A r, s \in saved : r.id = s.id => r = s

\* Saving the environ for a transfer never meets a SavedEnviron left over
\* from an earlier transfer of the job, unless a transaction rolled back after
\* its message was sent.
RolledBack == "rollback" \in Disturbances /\ spent["rollback"] > 0
SaveNeverConflicts == ~RolledBack =>
    \A w \in Workers : worker[w].pc = "save" /\ worker[w].seen # "CANCELLED"
        => \A s \in saved : s.job # worker[w].job

\* Work is going on for j somewhere, error handling included, or a transaction
\* that has consumed its environ may still roll back.
Active(j) ==
    \/ \E m \in messages : m.job = j
    \/ \E s \in saved : s.job = j
    \/ \E w \in Workers : worker[w].job = j /\ worker[w].pc # "idle"
    \/ \E c \in Callers : caller[c].job = j /\ caller[c].pc = "mark"

\* Unless a worker dies or a transfer raises that stripped the environ of its
\* error handlers (dropped), no job stays in the queue with nobody to go on
\* with it: whoever carried it on last has handed it over or deleted its row.
\* Only a cancelled row may be left behind.  For a parked environ, also after
\* such a transfer, the evaluator still owes an answer, is about to be asked,
\* or a transaction is consuming it.
Crashed == "crash" \in Disturbances /\ spent["crash"] > 0
Awaited(s) ==
    \/ \E t \in sent : t.id = s.id /\ t.left > 0
    \/ \E w \in Workers : worker[w].pc \in {"send", "undo"} /\ worker[w].sid = s.id
    \/ EnvLocked(s.id)
NothingStranded == ~Crashed =>
    /\ \A j \in Jobs : queue[j] \notin {"absent", "CANCELLED"} => Active(j) \/ j \in dropped
    /\ \A s \in saved : Awaited(s)

Lifecycle == INSTANCE JobLifecycle WITH
    PhaseCount <- Len(Recipe),
    status <- [j \in Jobs |-> IF j \in fresh THEN "new"
                              ELSE IF Active(j) THEN "active" ELSE "ended"],
    done <- ran

\* Phases run one after another, none is skipped, and a job that has ended is
\* never taken up again, whatever late results, cancellations and deletions
\* of its row do.
ImplementsLifecycle == Lifecycle!LifecycleSpec

\* With fair scheduling every job also ends.
ImplementsFairLifecycle == Lifecycle!FairLifecycle

\* "handler functions would be run in order they're listed" (evalmgr_job), and
\* across workers, transfers and resumptions none is executed a second time,
\* until a transaction rolls back after its message was sent.
NoPhaseTwice == [][~RolledBack =>
    \A w \in Workers : RunPhase(w) => ran[worker[w].job] < worker'[w].pos]_vars

\* Every job handed to the evaluation manager finally leaves the queue for
\* good, whether its phases and transfers succeed, raise or are answered
\* late, with one exception: a transfer to sioworkersd raises before its
\* results came, when no error handler is left to remove the row.
LeavesQueue == \A j \in Jobs : j \notin fresh ~> (j \in dropped \/ [](queue[j] = "absent"))
=============================================================================
