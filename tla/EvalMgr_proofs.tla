--------------------------- MODULE EvalMgr_proofs ---------------------------
(***************************************************************************)
(* Proofs about EvalMgr, for any jobs, workers, callers and recipe: results*)
(* resume the transfer they answer, a job is carried on in one place, saves*)
(* of environs never conflict, no phase is executed twice, every job goes  *)
(* through the states of JobLifecycle, and no job is stranded but by a     *)
(* crash or a transfer that raises without error handlers.                 *)
(***************************************************************************)
EXTENDS EvalMgr, TLAPS

\* A worker that is about to send a request knows its SavedEnviron id.
SendingHasId == \A w \in Workers : worker[w].pc \in {"send", "undo"} => worker[w].sid # 0

TypeInv == TypeOK /\ SendingHasId

LEMMA SomeJobIsJob == SomeJob \in Jobs
  BY JobsAssumption DEF SomeJob

LEMMA RecipeFacts == Len(Recipe) \in Nat /\ 0 \in Positions
  BY RecipeAssumption DEF Positions

LEMMA IdleTyped == IdleWorker \in WorkerStates /\ IdleCaller \in CallerStates
  BY SomeJobIsJob, RecipeFacts
  DEF IdleWorker, IdleCaller, WorkerStates, CallerStates, RowStates

LEMMA DeleteRowTyped ==
  ASSUME TypeInv, NEW j \in Jobs, DeleteRow(j)
  PROVE  /\ queue' \in [Jobs -> RowStates]
         /\ saved' \subseteq SavedRows
         /\ nextId' \in Nat \ {0}
  BY DEF TypeInv, TypeOK, DeleteRow, RowStates

LEMMA TypeInvStep == TypeInv /\ [Next]_vars => TypeInv'
<1> SUFFICES ASSUME TypeInv, [Next]_vars PROVE TypeInv'
  OBVIOUS
<1> USE DEF TypeInv, TypeOK, SendingHasId, tables, broker, history
<1>1. CASE UNCHANGED vars
  BY <1>1 DEF vars
<1>2. ASSUME NEW c \in Callers, NEW j \in fresh, Begin(c, j) PROVE TypeInv'
  BY <1>2, RecipeFacts DEF Begin, CallerStates
<1>3. ASSUME NEW c \in Callers, NEW t \in sent, NEW e \in BOOLEAN, Deliver(c, t, e)
      PROVE TypeInv'
  <2>1. sent' \subseteq Requests
    BY <1>3, BoundAssumption DEF Deliver, Requests
  <2>2. caller' \in [Callers -> CallerStates]
    BY <1>3 DEF Deliver, CallerStates, SavedRows
  <2> QED BY <1>3, <2>1, <2>2 DEF Deliver
<1>4. ASSUME NEW c \in Callers, CallerDropped(c) PROVE TypeInv'
  BY <1>4, IdleTyped, DeleteRowTyped DEF CallerDropped, CallerStates
<1>6. ASSUME NEW c \in Callers, CallerSends(c) PROVE TypeInv'
  BY <1>6 DEF CallerSends, CallerStates, Messages
<1>7. ASSUME NEW c \in Callers, Commit(c) PROVE TypeInv'
  BY <1>7, IdleTyped DEF Commit, RowStates
<1>8. ASSUME NEW c \in Callers, Rollback(c) PROVE TypeInv'
  BY <1>8, IdleTyped, BoundAssumption DEF Rollback, Disturb, Requests
<1>9. ASSUME NEW w \in Workers, NEW m \in messages, Receive(w, m) PROVE TypeInv'
  BY <1>9 DEF Receive, Messages, WorkerStates
<1>10. ASSUME NEW w \in Workers, WorkerDropped(w) PROVE TypeInv'
  BY <1>10, IdleTyped, DeleteRowTyped DEF WorkerDropped, WorkerStates, IdleWorker
<1>11. ASSUME NEW w \in Workers, WorkerConflicts(w) PROVE TypeInv'
  BY <1>11 DEF WorkerConflicts, WorkerStates
<1>12. ASSUME NEW w \in Workers, MarkProgress(w) PROVE TypeInv'
  BY <1>12 DEF MarkProgress, WorkerStates, RowStates
<1>13. ASSUME NEW w \in Workers, RunPhase(w) PROVE TypeInv'
  <2>1. ran' \in [Jobs -> Positions]
    BY <1>13, RecipeFacts DEF RunPhase, WorkerStates, Positions
  <2>2. worker' \in [Workers -> WorkerStates]
    <3>1. worker[w].pos + 1 \in Positions
      BY <1>13, RecipeFacts DEF RunPhase, WorkerStates, Positions
    <3>2. After(worker[w].pos + 1) \in {"run", "save"}
      BY DEF After
    <3>3. QED
      BY <1>13, <3>1, <3>2 DEF RunPhase, WorkerStates
  <2>3. SendingHasId'
    <3>1. \A x \in Workers \ {w} : worker'[x] = worker[x]
      BY <1>13 DEF RunPhase
    <3>2. worker'[w].pc \in {"run", "save"}
      BY <1>13 DEF RunPhase, WorkerStates, After
    <3>3. QED
      BY <3>1, <3>2
  <2>4. UNCHANGED <<tables, broker, caller, sent, admin, fresh, dropped, spent>>
    BY <1>13 DEF RunPhase
  <2>5. QED
    BY <2>1, <2>2, <2>3, <2>4
<1>14. ASSUME NEW w \in Workers, PhaseRaises(w) PROVE TypeInv'
  BY <1>14 DEF PhaseRaises, WorkerStates
<1>15. ASSUME NEW w \in Workers, SaveEnviron(w) PROVE TypeInv'
  BY <1>15 DEF SaveEnviron, WorkerStates, RowStates, SavedRows
<1>16. ASSUME NEW w \in Workers, SendRequest(w) PROVE TypeInv'
  BY <1>16, IdleTyped, BoundAssumption
  DEF SendRequest, Request, WorkerStates, Requests, IdleWorker
<1>17. ASSUME NEW w \in Workers, NEW received \in BOOLEAN, SendRaises(w, received)
       PROVE TypeInv'
  BY <1>17, BoundAssumption DEF SendRaises, Request, WorkerStates, Requests
<1>18. ASSUME NEW w \in Workers, UndoSave(w) PROVE TypeInv'
  BY <1>18, IdleTyped DEF UndoSave, WorkerStates, SavedRows, IdleWorker
<1>19. ASSUME NEW w \in Workers, HandleError(w) PROVE TypeInv'
  BY <1>19, IdleTyped, DeleteRowTyped DEF HandleError, WorkerStates, IdleWorker
<1>20. ASSUME NEW w \in Workers, Finish(w) PROVE TypeInv'
  BY <1>20, IdleTyped, DeleteRowTyped DEF Finish, WorkerStates, IdleWorker
<1>21. ASSUME NEW w \in Workers, Crash(w) PROVE TypeInv'
  BY <1>21, IdleTyped DEF Crash, Disturb, IdleWorker
<1>22. ASSUME NEW j \in Jobs, LoadForCancel(j) PROVE TypeInv'
  BY <1>22 DEF LoadForCancel, Disturb
<1>23. ASSUME NEW j \in Jobs, SaveCancelled(j) PROVE TypeInv'
  BY <1>23 DEF SaveCancelled, RowStates
<1>24. ASSUME NEW j \in Jobs, DeleteSelected(j) PROVE TypeInv'
  BY <1>24, DeleteRowTyped DEF DeleteSelected, Disturb
<1>25. QED
  BY <1>1, <1>2, <1>3, <1>4, <1>6, <1>7, <1>8, <1>9, <1>10, <1>11, <1>12,
     <1>13, <1>14, <1>15, <1>16, <1>17, <1>18, <1>19, <1>20, <1>21, <1>22, <1>23,
     <1>24 DEF Next, CallerNext, WorkerNext, AdminNext, Quiet

\* Every table, message and process holds a value of its type, always.
THEOREM TypeCorrect == Spec => []TypeOK
<1>1. Init => TypeInv
  BY IdleTyped, RecipeFacts
  DEF Init, TypeInv, TypeOK, SendingHasId, IdleWorker, RowStates
<1>2. QED
  BY <1>1, TypeInvStep, PTL DEF Spec, TypeInv

(***************************************************************************)
(* Results resume only the environ that was saved for their request.       *)
(***************************************************************************)
\* SavedEnviron ids are handed out once: a row, a request and a worker that
\* sends the request, or takes it back, agree on what an id stands for.
IdInv ==
    /\ \A s \in saved : s.id < nextId
    /\ \A t \in sent : t.id < nextId
    /\ \A w \in Workers : worker[w].sid < nextId
    /\ \A w \in Workers, s \in saved :
            worker[w].pc \in {"send", "undo"} /\ s.id = worker[w].sid
                => s.job = worker[w].job /\ s.pos = worker[w].pos
    /\ ResumeMatchesTransfer

\* Actions that create neither a row nor a request preserve IdInv.
LEMMA IdInvShrink ==
  ASSUME TypeInv, IdInv, UNCHANGED nextId, saved' \subseteq saved,
         \A t \in sent' : \E u \in sent : t.id = u.id /\ t.job = u.job /\ t.pos = u.pos,
         \A w \in Workers : worker'[w] = worker[w]
                \/ (/\ worker'[w].pc \notin {"send", "undo"}
                    /\ worker'[w].sid \in {0, worker[w].sid})
  PROVE  IdInv'
  BY DEF TypeInv, TypeOK, IdInv, ResumeMatchesTransfer, SavedRows, Requests

LEMMA IdInvStep == TypeInv /\ TypeInv' /\ IdInv /\ [Next]_vars => IdInv'
<1> SUFFICES ASSUME TypeInv, TypeInv', IdInv, [Next]_vars PROVE IdInv'
  OBVIOUS
<1> USE DEF tables, broker, history
<1>1. CASE UNCHANGED vars
  BY <1>1, IdInvShrink DEF vars
<1>2. ASSUME NEW c \in Callers, NEW j \in fresh, Begin(c, j) PROVE IdInv'
  BY <1>2, IdInvShrink DEF Begin
<1>3. ASSUME NEW c \in Callers, NEW t \in sent, NEW e \in BOOLEAN, Deliver(c, t, e)
      PROVE IdInv'
  BY <1>3, IdInvShrink DEF Deliver, TypeInv, TypeOK, Requests
<1>4. ASSUME NEW c \in Callers, CallerNext(c) PROVE IdInv'
  BY <1>4, IdInvShrink
  DEF CallerNext, CallerDropped, CallerSends, Commit, DeleteRow
<1>5. ASSUME NEW c \in Callers, Rollback(c) PROVE IdInv'
  BY <1>5, IdInvShrink DEF Rollback, TypeInv, TypeOK, Requests
<1>6. ASSUME NEW w \in Workers, NEW m \in messages, Receive(w, m) PROVE IdInv'
  BY <1>6, IdInvShrink DEF Receive, TypeInv, TypeOK
<1>7. ASSUME NEW w \in Workers, WorkerDropped(w) \/ HandleError(w) \/ Finish(w)
      PROVE IdInv'
  BY <1>7, IdInvShrink
  DEF WorkerDropped, HandleError, Finish, DeleteRow, TypeInv, TypeOK, IdleWorker
<1>8. ASSUME NEW w \in Workers, WorkerConflicts(w) PROVE IdInv'
  BY <1>8, IdInvShrink DEF WorkerConflicts, Marking, TypeInv, TypeOK, WorkerStates
<1>9. ASSUME NEW w \in Workers, MarkProgress(w) \/ PhaseRaises(w) PROVE IdInv'
  BY <1>9, IdInvShrink DEF MarkProgress, PhaseRaises, TypeInv, TypeOK, WorkerStates
<1>10. ASSUME NEW w \in Workers, RunPhase(w) PROVE IdInv'
  <2>1. After(worker[w].pos + 1) \notin {"send", "undo"}
    BY DEF After
  <2>2. \A x \in Workers : worker'[x] = worker[x]
            \/ (/\ worker'[x].pc \notin {"send", "undo"}
                /\ worker'[x].sid = worker[x].sid)
    BY <1>10, <2>1 DEF RunPhase, TypeInv, TypeOK, WorkerStates
  <2>3. UNCHANGED <<nextId, saved, sent>>
    BY <1>10 DEF RunPhase
  <2>4. QED
    BY <2>2, <2>3, IdInvShrink
<1>11. ASSUME NEW w \in Workers, SaveEnviron(w) PROVE IdInv'
  BY <1>11 DEF SaveEnviron, IdInv, ResumeMatchesTransfer, TypeInv, TypeOK,
               SavedRows, WorkerStates, Requests
<1>12. ASSUME NEW w \in Workers, SendRequest(w) PROVE IdInv'
  BY <1>12 DEF SendRequest, Request, IdInv, ResumeMatchesTransfer, TypeInv, TypeOK,
               SavedRows, WorkerStates, Requests, IdleWorker
<1>13. ASSUME NEW w \in Workers, NEW received \in BOOLEAN, SendRaises(w, received)
       PROVE IdInv'
  BY <1>13 DEF SendRaises, Request, IdInv, ResumeMatchesTransfer, TypeInv, TypeOK,
               SavedRows, WorkerStates, Requests
<1>14. ASSUME NEW w \in Workers, UndoSave(w) PROVE IdInv'
  BY <1>14, IdInvShrink DEF UndoSave, TypeInv, TypeOK, WorkerStates, IdleWorker
<1>15. ASSUME NEW w \in Workers, Crash(w) PROVE IdInv'
  BY <1>15, IdInvShrink DEF Crash, IdleWorker, TypeInv, TypeOK
<1>16. ASSUME NEW j \in Jobs, AdminNext(j) PROVE IdInv'
  BY <1>16, IdInvShrink
  DEF AdminNext, LoadForCancel, SaveCancelled, DeleteSelected, DeleteRow
<1>17. QED
  BY <1>1, <1>2, <1>3, <1>4, <1>5, <1>6, <1>7, <1>8, <1>9, <1>10, <1>11, <1>12,
     <1>13, <1>14, <1>15, <1>16 DEF Next, WorkerNext, Quiet

\* Whatever is lost, repeated, late, cancelled, deleted or rolled back,
\* results never resume the environ of another transfer.
THEOREM ResumeCorrect == Spec => []ResumeMatchesTransfer
<1>1. Init => TypeInv /\ IdInv
  BY IdleTyped, RecipeFacts
  DEF Init, TypeInv, TypeOK, SendingHasId, IdInv, ResumeMatchesTransfer,
      IdleWorker, RowStates
<1>2. IdInv => ResumeMatchesTransfer
  BY DEF IdInv
<1>3. QED
  BY <1>1, <1>2, TypeInvStep, IdInvStep, PTL DEF Spec

(***************************************************************************)
(* The row locks of transactions that resume a job.                        *)
(***************************************************************************)
\* A transaction that resumes a job holds the row it took the environ from...
RowHeld ==
    \A c \in Callers : caller[c].pc # "idle" /\ caller[c].sid # 0
        => \E s \in saved : s.id = caller[c].sid /\ s.job = caller[c].job

\* ... and no other transaction holds it.
HeldOnce ==
    \A c, d \in Callers :
        (/\ caller[c].pc # "idle" /\ caller[d].pc # "idle"
         /\ caller[c].sid = caller[d].sid /\ caller[c].sid # 0)  =>  c = d

HoldsRow == RowHeld /\ HeldOnce

LEMMA HoldsRowInit == Init => HoldsRow
  BY DEF Init, HoldsRow, RowHeld, HeldOnce, IdleCaller

\* No locked row goes, and transactions only end.
LEMMA HoldsRowKept ==
  ASSUME HoldsRow, \A s \in saved : EnvLocked(s.id) => s \in saved',
         \A c \in Callers : caller'[c] = caller[c] \/ caller'[c].pc = "idle"
  PROVE  HoldsRow'
  BY DEF HoldsRow, RowHeld, HeldOnce, EnvLocked

\* A transaction that ends takes with it at most the row it holds.
LEMMA HoldsRowEnd ==
  ASSUME TypeInv, HoldsRow, NEW c \in Callers, caller[c].pc # "idle",
         caller' = [caller EXCEPT ![c] = IdleCaller],
         \A s \in saved : EnvLocked(s.id) => s \in saved' \/ s.id = caller[c].sid
  PROVE  HoldsRow'
<1>1. \A d \in Callers : caller'[d].pc # "idle" => d # c /\ caller'[d] = caller[d]
  BY DEF TypeInv, TypeOK, IdleCaller
<1>2. ASSUME NEW d \in Callers, d # c, caller[d].pc # "idle", caller[d].sid # 0
      PROVE \E s \in saved' : s.id = caller[d].sid /\ s.job = caller[d].job
  <2>1. PICK s \in saved : s.id = caller[d].sid /\ s.job = caller[d].job
    BY <1>2 DEF HoldsRow, RowHeld
  <2>2. caller[c].sid # caller[d].sid
    BY <1>2 DEF HoldsRow, HeldOnce
  <2>3. EnvLocked(s.id)
    BY <1>2, <2>1 DEF EnvLocked
  <2>4. QED
    BY <2>1, <2>2, <2>3
<1>3. RowHeld'
  BY <1>1, <1>2 DEF RowHeld
<1>4. HeldOnce'
  BY <1>1 DEF HoldsRow, HeldOnce
<1>5. QED
  BY <1>3, <1>4 DEF HoldsRow

LEMMA HoldsRowStep == TypeInv /\ IdInv /\ HoldsRow /\ [Next]_vars => HoldsRow'
<1> SUFFICES ASSUME TypeInv, IdInv, HoldsRow, [Next]_vars PROVE HoldsRow'
  OBVIOUS
<1> USE DEF tables, broker, history
<1>1. CASE UNCHANGED vars
  BY <1>1, HoldsRowKept DEF vars
<1>2. ASSUME NEW c \in Callers, NEW j \in fresh, Begin(c, j) PROVE HoldsRow'
  BY <1>2 DEF Begin, HoldsRow, RowHeld, HeldOnce, TypeInv, TypeOK
<1>3. ASSUME NEW c \in Callers, NEW t \in sent, NEW e \in BOOLEAN, Deliver(c, t, e)
      PROVE HoldsRow'
  BY <1>3 DEF Deliver, HoldsRow, RowHeld, HeldOnce, EnvLocked, TypeInv, TypeOK, SavedRows
<1>4. ASSUME NEW c \in Callers, CallerSends(c) PROVE HoldsRow'
  BY <1>4 DEF CallerSends, HoldsRow, RowHeld, HeldOnce, TypeInv, TypeOK, CallerStates
<1>5. ASSUME NEW c \in Callers, CallerDropped(c) PROVE HoldsRow'
  BY <1>5, HoldsRowEnd DEF CallerDropped, DeleteRow
<1>6. ASSUME NEW c \in Callers, Commit(c) PROVE HoldsRow'
  BY <1>6, HoldsRowEnd DEF Commit
<1>7. ASSUME NEW c \in Callers, Rollback(c) PROVE HoldsRow'
  BY <1>7, HoldsRowKept DEF Rollback, TypeInv, TypeOK, IdleCaller
<1>8. ASSUME NEW w \in Workers, NEW m \in messages, Receive(w, m) PROVE HoldsRow'
  BY <1>8, HoldsRowKept DEF Receive
<1>9. ASSUME NEW w \in Workers, WorkerNext(w) \/ Crash(w) PROVE HoldsRow'
  <2>1. UNCHANGED caller
    BY <1>9 DEF WorkerNext, WorkerDropped, WorkerConflicts, MarkProgress, RunPhase,
           PhaseRaises, SaveEnviron, SendRequest, SendRaises, UndoSave, HandleError,
           Finish, Crash
  <2>2. \A s \in saved : EnvLocked(s.id) => s \in saved'
    BY <1>9 DEF WorkerNext, WorkerDropped, WorkerConflicts, MarkProgress, RunPhase,
           PhaseRaises, SaveEnviron, SendRequest, SendRaises, UndoSave, HandleError,
           Finish, Crash, DeleteRow, Deletable
  <2>3. QED
    BY <2>1, <2>2, HoldsRowKept
<1>10. ASSUME NEW j \in Jobs, AdminNext(j) PROVE HoldsRow'
  BY <1>10, HoldsRowKept
  DEF AdminNext, LoadForCancel, SaveCancelled, DeleteSelected, DeleteRow, Deletable
<1>11. QED
  BY <1>1, <1>2, <1>3, <1>4, <1>5, <1>6, <1>7, <1>8, <1>9, <1>10
  DEF Next, CallerNext, Quiet

(***************************************************************************)
(* A job never runs in two places at once, until a transaction of          *)
(* delay_environ rolls back after it has sent its celery message.          *)
(***************************************************************************)
\* Nothing has been done yet for a job that nobody has handed over.
FreshIsUntouched == \A j \in fresh : Tokens(j) = {}

ExecInv == FreshIsUntouched /\ OneExecutor

LEMMA TokenKinds ==
  ASSUME NEW j, NEW x
  PROVE  x \in Tokens(j) <=>
            \/ \E m \in messages : m.job = j /\ x = <<"message", m>>
            \/ \E w \in Workers : /\ worker[w].pc \in {"mark", "run", "save"}
                                  /\ worker[w].job = j /\ x = <<"worker", w>>
            \/ \E c \in Callers : /\ caller[c].pc = "mark" /\ caller[c].sid = 0
                                  /\ caller[c].job = j /\ x = <<"caller", c>>
            \/ \E s \in saved : s.job = j /\ ~Consumed(s.id) /\ x = <<"saved", s>>
  BY DEF Tokens, MessageTokens, WorkerTokens, CallerTokens, SavedTokens

\* Steps after which every job has at most the tokens it had before.
LEMMA TokensShrink ==
  ASSUME ExecInv, fresh' \subseteq fresh, fresh \subseteq Jobs,
         \A j \in Jobs : Tokens(j)' \subseteq Tokens(j)
  PROVE  ExecInv'
  BY DEF ExecInv, FreshIsUntouched, OneExecutor

\* Steps that hand the right to go on with job j over to a new holder.
LEMMA TokensMove ==
  ASSUME ExecInv, fresh' \subseteq fresh, fresh \subseteq Jobs,
         NEW j \in Jobs, NEW x, j \notin fresh',
         \A i \in Jobs \ {j} : Tokens(i)' \subseteq Tokens(i),
         \A y \in Tokens(j)' : y = x
  PROVE  ExecInv'
  BY DEF ExecInv, FreshIsUntouched, OneExecutor

\* The tokens of the workers do not grow, nothing else moves.
LEMMA WorkerShrink ==
  ASSUME TypeInv, ExecInv, UNCHANGED <<messages, caller, fresh>>, saved' \subseteq saved,
         \A w \in Workers : worker'[w].pc \in {"mark", "run", "save"} =>
            worker[w].pc \in {"mark", "run", "save"} /\ worker'[w].job = worker[w].job
  PROVE  ExecInv'
<1>1. \A j \in Jobs : Tokens(j)' \subseteq Tokens(j)
  BY DEF Tokens, MessageTokens, WorkerTokens, CallerTokens, SavedTokens, Consumed
<1>2. QED
  BY <1>1, TokensShrink DEF TypeInv, TypeOK

LEMMA ExecInvBegin ==
  ASSUME TypeInv, ExecInv, NEW c \in Callers, NEW j \in fresh, Begin(c, j)
  PROVE  ExecInv'
<1> USE DEF tables, broker, history
<1>1. \A i \in Jobs \ {j} : Tokens(i)' = Tokens(i)
  BY DEF Begin, Tokens, MessageTokens, WorkerTokens, CallerTokens, SavedTokens,
         Consumed, TypeInv, TypeOK
<1>2. \A x \in Tokens(j)' : x \in Tokens(j) \/ x = <<"caller", c>>
  BY DEF Begin, Tokens, MessageTokens, WorkerTokens, CallerTokens, SavedTokens,
         Consumed, TypeInv, TypeOK
<1>3. QED
  BY <1>1, <1>2
  DEF Begin, ExecInv, FreshIsUntouched, OneExecutor, TypeInv, TypeOK

LEMMA ExecInvDeliver ==
  ASSUME TypeInv, ExecInv, NEW c \in Callers, NEW t \in sent, NEW e \in BOOLEAN,
         Deliver(c, t, e)
  PROVE  ExecInv'
<1> USE DEF tables, broker, history
<1>1. \A j \in Jobs : Tokens(j)' \subseteq Tokens(j)
  BY DEF Deliver, Tokens, MessageTokens, WorkerTokens, CallerTokens, SavedTokens,
         Consumed, TypeInv, TypeOK, SavedRows
<1>2. QED
  BY <1>1, TokensShrink DEF Deliver, TypeInv, TypeOK

\* A transaction that is about to send the message of a job has the right to.
LEMMA MarkingHasToken ==
  ASSUME TypeInv, HoldsRow, NEW c \in Callers, caller[c].pc = "mark"
  PROVE  \/ caller[c].sid = 0 /\ <<"caller", c>> \in Tokens(caller[c].job)
         \/ \E s \in saved : /\ s.id = caller[c].sid /\ s.job = caller[c].job
                             /\ caller[c].sid # 0 /\ ~Consumed(s.id)
                             /\ <<"saved", s>> \in Tokens(caller[c].job)
<1>1. CASE caller[c].sid = 0
  BY <1>1, TokenKinds
<1>2. CASE caller[c].sid # 0
  <2>1. PICK s \in saved : s.id = caller[c].sid /\ s.job = caller[c].job
    BY <1>2 DEF HoldsRow, RowHeld
  <2>2. ~Consumed(s.id)
    BY <1>2, <2>1 DEF Consumed, HoldsRow, HeldOnce
  <2>3. QED
    BY <1>2, <2>1, <2>2, TokenKinds
<1>3. QED
  BY <1>1, <1>2

LEMMA ExecInvCallerSends ==
  ASSUME TypeInv, HoldsRow, ExecInv, NEW c \in Callers, CallerSends(c)
  PROVE  ExecInv'
<1>0. PICK j \in Jobs, m \in messages' :
            j = caller[c].job /\ m.job = j /\ messages' = messages \cup {m}
  BY DEF CallerSends, TypeInv, TypeOK, CallerStates
<1>1. /\ caller[c].pc = "mark" /\ caller'[c].pc = "sent" /\ caller'[c].sid = caller[c].sid
      /\ \A d \in Callers \ {c} : caller'[d] = caller[d]
      /\ UNCHANGED <<saved, worker, fresh>>
  BY DEF CallerSends, tables, history, TypeInv, TypeOK, CallerStates
<1>2. \A i \in Jobs \ {j} : Tokens(i)' \subseteq Tokens(i)
  BY <1>0, <1>1 DEF Tokens, MessageTokens, WorkerTokens, CallerTokens, SavedTokens,
         Consumed
<1>3. \A x \in Tokens(j)' : x \in Tokens(j) \/ x = <<"message", m>>
  BY <1>0, <1>1 DEF Tokens, MessageTokens, WorkerTokens, CallerTokens, SavedTokens,
         Consumed
<1>4. PICK y \in Tokens(j) : y \notin Tokens(j)'
  <2>1. <<"caller", c>> \notin Tokens(j)'
    BY <1>1 DEF Tokens, MessageTokens, WorkerTokens, CallerTokens, SavedTokens
  <2>2. ASSUME NEW s \in saved, s.id = caller[c].sid
        PROVE <<"saved", s>> \notin Tokens(j)'
    <3>1. Consumed(s.id)'
      BY <1>1, <2>2 DEF Consumed
    <3>2. QED
      BY <3>1 DEF Tokens, MessageTokens, WorkerTokens, CallerTokens, SavedTokens
  <2>3. QED
    BY <1>0, <1>1, <2>1, <2>2, MarkingHasToken
<1>5. \A x \in Tokens(j)' : x = <<"message", m>>
  BY <1>3, <1>4 DEF ExecInv, OneExecutor
<1>6. j \notin fresh
  BY <1>4 DEF ExecInv, FreshIsUntouched
<1>7. QED
  BY <1>1, <1>2, <1>5, <1>6, TokensMove DEF TypeInv, TypeOK

LEMMA ExecInvCallerDropped ==
  ASSUME TypeInv, ExecInv, NEW c \in Callers, CallerDropped(c)
  PROVE  ExecInv'
<1>1. /\ caller[c].pc = "mark"
      /\ caller' = [caller EXCEPT ![c] = IdleCaller]
      /\ saved' \subseteq saved
      /\ UNCHANGED <<messages, worker, fresh>>
  BY DEF CallerDropped, DeleteRow, broker, history
<1>2. \A id : Consumed(id)' <=> Consumed(id)
  BY <1>1 DEF Consumed, TypeInv, TypeOK, IdleCaller
<1>3. \A j \in Jobs : Tokens(j)' \subseteq Tokens(j)
  BY <1>1, <1>2 DEF Tokens, MessageTokens, WorkerTokens, CallerTokens, SavedTokens,
         TypeInv, TypeOK, IdleCaller
<1>4. QED
  BY <1>1, <1>3, TokensShrink DEF TypeInv, TypeOK

LEMMA ExecInvCommit ==
  ASSUME TypeInv, ExecInv, NEW c \in Callers, Commit(c)
  PROVE  ExecInv'
<1>1. /\ caller[c].pc = "sent"
      /\ caller' = [caller EXCEPT ![c] = IdleCaller]
      /\ saved' = {s \in saved : s.id # caller[c].sid}
      /\ UNCHANGED <<messages, worker, fresh>>
  BY DEF Commit, broker, history
<1>2. \A s \in saved' : Consumed(s.id)' <=> Consumed(s.id)
  BY <1>1 DEF Consumed, TypeInv, TypeOK, IdleCaller
<1>3. \A j \in Jobs : Tokens(j)' \subseteq Tokens(j)
  BY <1>1, <1>2 DEF Tokens, MessageTokens, WorkerTokens, CallerTokens, SavedTokens,
         TypeInv, TypeOK, IdleCaller
<1>4. QED
  BY <1>1, <1>3, TokensShrink DEF TypeInv, TypeOK

LEMMA ExecInvReceive ==
  ASSUME TypeInv, ExecInv, NEW w \in Workers, NEW m \in messages, Receive(w, m)
  PROVE  ExecInv'
<1>1. /\ worker[w].pc = "idle"
      /\ messages' = messages \ {m}
      /\ \A v \in Workers \ {w} : worker'[v] = worker[v]
      /\ worker'[w].job = m.job
      /\ UNCHANGED <<caller, fresh, saved>>
  BY DEF Receive, tables, history, TypeInv, TypeOK
<1>2. m.job \in Jobs
  BY DEF TypeInv, TypeOK, Messages
<1>3. \A j \in Jobs \ {m.job} : Tokens(j)' \subseteq Tokens(j)
  BY <1>1 DEF Tokens, MessageTokens, WorkerTokens, CallerTokens, SavedTokens, Consumed
<1>4. \A x \in Tokens(m.job)' : x \in Tokens(m.job) \/ x = <<"worker", w>>
  BY <1>1 DEF Tokens, MessageTokens, WorkerTokens, CallerTokens, SavedTokens, Consumed
<1>5. <<"message", m>> \in Tokens(m.job) /\ <<"message", m>> \notin Tokens(m.job)'
  BY <1>1 DEF Tokens, MessageTokens, WorkerTokens, CallerTokens, SavedTokens
<1>6. \A x \in Tokens(m.job)' : x = <<"worker", w>>
  BY <1>2, <1>4, <1>5 DEF ExecInv, OneExecutor
<1>7. m.job \notin fresh
  BY <1>5 DEF ExecInv, FreshIsUntouched
<1>8. QED
  BY <1>1, <1>2, <1>3, <1>6, <1>7, TokensMove DEF TypeInv, TypeOK

LEMMA ExecInvSaveEnviron ==
  ASSUME TypeInv, ExecInv, NEW w \in Workers, SaveEnviron(w)
  PROVE  ExecInv'
<1>0. PICK j \in Jobs, s \in [id : {nextId}, job : Jobs, pos : Positions] :
            j = worker[w].job /\ s = [id |-> nextId, job |-> j, pos |-> worker[w].pos]
  BY DEF TypeInv, TypeOK, WorkerStates
<1>1. /\ worker[w].pc = "save"
      /\ \A v \in Workers \ {w} : worker'[v] = worker[v]
      /\ worker'[w].pc \in {"send", "error"}
      /\ saved \subseteq saved' /\ saved' \subseteq saved \cup {s}
      /\ UNCHANGED <<messages, caller, fresh>>
  BY <1>0 DEF SaveEnviron, tables, broker, history, TypeInv, TypeOK, WorkerStates
<1>2. \A i \in Jobs \ {j} : Tokens(i)' \subseteq Tokens(i)
  BY <1>0, <1>1 DEF Tokens, MessageTokens, WorkerTokens, CallerTokens, SavedTokens, Consumed
<1>3. \A x \in Tokens(j)' : x \in Tokens(j) \/ x = <<"saved", s>>
  BY <1>0, <1>1 DEF Tokens, MessageTokens, WorkerTokens, CallerTokens, SavedTokens, Consumed
<1>4. <<"worker", w>> \in Tokens(j) /\ <<"worker", w>> \notin Tokens(j)'
  BY <1>0, <1>1 DEF Tokens, MessageTokens, WorkerTokens, CallerTokens, SavedTokens
<1>5. \A x \in Tokens(j)' : x = <<"saved", s>>
  BY <1>3, <1>4 DEF ExecInv, OneExecutor
<1>6. j \notin fresh
  BY <1>4 DEF ExecInv, FreshIsUntouched
<1>7. QED
  BY <1>1, <1>2, <1>5, <1>6, TokensMove DEF TypeInv, TypeOK

LEMMA ExecInvWorker ==
  ASSUME TypeInv, ExecInv, NEW w \in Workers,
         \/ WorkerDropped(w) \/ WorkerConflicts(w) \/ MarkProgress(w) \/ RunPhase(w)
         \/ PhaseRaises(w) \/ SendRequest(w) \/ UndoSave(w) \/ HandleError(w)
         \/ Finish(w) \/ Crash(w) \/ \E received \in BOOLEAN : SendRaises(w, received)
  PROVE  ExecInv'
<1> USE DEF tables, broker, history
<1>1. UNCHANGED <<messages, caller, fresh>> /\ saved' \subseteq saved
  BY DEF WorkerDropped, WorkerConflicts, MarkProgress, RunPhase, PhaseRaises,
         SendRequest, UndoSave, HandleError, Finish, Crash, SendRaises, DeleteRow
<1>2. \A v \in Workers \ {w} : worker'[v] = worker[v]
  BY DEF WorkerDropped, WorkerConflicts, MarkProgress, RunPhase, PhaseRaises,
         SendRequest, UndoSave, HandleError, Finish, Crash, SendRaises,
         TypeInv, TypeOK
<1>3. worker'[w].pc \in {"mark", "run", "save"} =>
        worker[w].pc \in {"mark", "run", "save"} /\ worker'[w].job = worker[w].job
  <2>1. CASE RunPhase(w)
    BY <2>1 DEF RunPhase, After, TypeInv, TypeOK, WorkerStates
  <2>2. CASE WorkerConflicts(w)
    BY <2>2 DEF WorkerConflicts, Marking, TypeInv, TypeOK, WorkerStates
  <2>3. CASE MarkProgress(w) \/ PhaseRaises(w) \/ UndoSave(w)
             \/ \E received \in BOOLEAN : SendRaises(w, received)
    BY <2>3 DEF MarkProgress, PhaseRaises, UndoSave, SendRaises, TypeInv, TypeOK,
                WorkerStates, IdleWorker
  <2>4. CASE WorkerDropped(w) \/ SendRequest(w) \/ HandleError(w) \/ Finish(w) \/ Crash(w)
    BY <2>4 DEF WorkerDropped, SendRequest, HandleError, Finish, Crash, IdleWorker,
                TypeInv, TypeOK
  <2>5. QED
    BY <2>1, <2>2, <2>3, <2>4
<1>4. QED
  BY <1>1, <1>2, <1>3, WorkerShrink

LEMMA ExecInvAdmin ==
  ASSUME TypeInv, ExecInv, NEW j \in Jobs, AdminNext(j)
  PROVE  ExecInv'
<1>1. UNCHANGED <<messages, caller, fresh, worker>> /\ saved' \subseteq saved
  BY DEF AdminNext, LoadForCancel, SaveCancelled, DeleteSelected, DeleteRow, tables, broker, history
<1>2. QED
  BY <1>1, WorkerShrink

LEMMA ExecInvStep ==
  TypeInv /\ HoldsRow /\ ExecInv /\ [Next]_vars /\ ~RolledBack' => ExecInv'
<1> SUFFICES ASSUME TypeInv, HoldsRow, ExecInv, [Next]_vars, ~RolledBack' PROVE ExecInv'
  OBVIOUS
<1>1. CASE UNCHANGED vars
  <2>1. UNCHANGED <<messages, caller, fresh, worker, saved>>
    BY <1>1 DEF vars, tables, broker, history
  <2>2. QED
    BY <2>1, WorkerShrink
<1>2. CASE \E c \in Callers, j \in fresh : Begin(c, j)
  BY <1>2, ExecInvBegin
<1>3. CASE \E c \in Callers, t \in sent, e \in BOOLEAN : Deliver(c, t, e)
  BY <1>3, ExecInvDeliver
<1>4. CASE \E c \in Callers : CallerNext(c)
  BY <1>4, ExecInvCallerDropped, ExecInvCallerSends,
     ExecInvCommit DEF CallerNext
<1>5. CASE \E c \in Callers : Rollback(c)
  BY <1>5 DEF Rollback, Disturb, RolledBack, TypeInv, TypeOK
<1>6. CASE \E w \in Workers, m \in messages : Receive(w, m)
  BY <1>6, ExecInvReceive
<1>7. CASE \E w \in Workers : WorkerNext(w) \/ Crash(w)
  BY <1>7, ExecInvWorker, ExecInvSaveEnviron DEF WorkerNext
<1>8. CASE \E j \in Jobs : AdminNext(j)
  BY <1>8, ExecInvAdmin
<1>9. QED
  BY <1>1, <1>2, <1>3, <1>4, <1>5, <1>6, <1>7, <1>8 DEF Next, Quiet

\* What has been rolled back stays so.
LEMMA RolledBackStays == TypeInv /\ [Next]_vars /\ ~RolledBack' => ~RolledBack
<1> SUFFICES ASSUME TypeInv, [Next]_vars, RolledBack PROVE RolledBack'
  OBVIOUS
<1>1. ASSUME NEW kind, Disturb(kind) PROVE RolledBack'
  BY <1>1 DEF Disturb, RolledBack, TypeInv, TypeOK
<1>2. UNCHANGED spent \/ \E kind \in Disturbances : Disturb(kind)
  BY DEF Next, vars, CallerNext, WorkerNext, AdminNext, Quiet, Begin, Deliver,
     CallerDropped, CallerSends, Commit, Rollback, Receive, WorkerDropped,
     WorkerConflicts, MarkProgress, RunPhase, PhaseRaises, SaveEnviron, SendRequest,
     SendRaises, UndoSave, HandleError, Finish, Crash, LoadForCancel, SaveCancelled,
     DeleteSelected, Disturb
<1>3. CASE UNCHANGED spent
  BY <1>3 DEF RolledBack
<1>4. QED
  BY <1>1, <1>2, <1>3

LEMMA NothingAtFirst == Init => TypeInv /\ IdInv /\ HoldsRow /\ ExecInv
<1> SUFFICES ASSUME Init PROVE TypeInv /\ IdInv /\ HoldsRow /\ ExecInv
  OBVIOUS
<1>1. TypeInv /\ IdInv
  BY IdleTyped, RecipeFacts
  DEF Init, TypeInv, TypeOK, SendingHasId, IdInv, ResumeMatchesTransfer,
      IdleWorker, RowStates
<1>2. \A j : Tokens(j) = {}
  BY DEF Init, Tokens, MessageTokens, WorkerTokens, CallerTokens, SavedTokens,
         IdleWorker, IdleCaller
<1>3. QED
  BY <1>1, <1>2, HoldsRowInit DEF ExecInv, FreshIsUntouched, OneExecutor

\* At most one worker, message, starting transaction or parked environ
\* carries a job on, whatever crashes, cancellations, deletions, failed
\* transfers and late or repeated results happen, unless a transaction of
\* delay_environ was rolled back.
THEOREM OneExecutorCorrect == Spec => [](~RolledBack => OneExecutor)
<1>1. ExecInv => OneExecutor
  BY DEF ExecInv
<1>2. TypeInv /\ HoldsRow /\ (~RolledBack => ExecInv) /\ [Next]_vars
            => (~RolledBack => ExecInv)'
  BY ExecInvStep, RolledBackStays
<1>3. QED
  BY <1>1, <1>2, NothingAtFirst, TypeInvStep, IdInvStep, HoldsRowStep, PTL DEF Spec

(***************************************************************************)
(* No phase is executed twice and no SavedEnviron is left over.            *)
(***************************************************************************)
\* Whoever may go on with a job is as far as the job has been executed, a
\* transaction that resumes one has the recipe it found in the row...
UpToRan ==
    /\ \A m \in messages : m.pos = ran[m.job]
    /\ \A w \in Workers : worker[w].pc \in {"mark", "run", "save"}
            => worker[w].pos = ran[worker[w].job]
    /\ \A c \in Callers : caller[c].pc = "mark" /\ caller[c].sid = 0
            => caller[c].pos = ran[caller[c].job]
    /\ \A s \in saved : ~Consumed(s.id) => s.pos = ran[s.job]
    /\ \A c \in Callers, s \in saved : caller[c].pc = "mark" /\ s.id = caller[c].sid
            => s.pos = caller[c].pos
    /\ \A j \in fresh : ran[j] = 0

\* ... and once a worker has marked its job PROGRESS, the transaction that
\* resumed it is over and its SavedEnviron is gone.
NothingLeftOver ==
    \A w \in Workers : worker[w].pc \in {"run", "save"} =>
        ~RowLocked(worker[w].job) /\ \A s \in saved : s.job # worker[w].job

PhaseInv == UpToRan /\ NothingLeftOver

\* Who else could go on with the job of a worker: nobody.
LEMMA WorkerIsAlone ==
  ASSUME OneExecutor, NEW w \in Workers, worker[w].pc \in {"mark", "run", "save"},
         worker[w].job \in Jobs
  PROVE  /\ \A m \in messages : m.job # worker[w].job
         /\ \A v \in Workers : worker[v].pc \in {"mark", "run", "save"} /\ v # w
                                    => worker[v].job # worker[w].job
         /\ \A c \in Callers : caller[c].pc = "mark" /\ caller[c].sid = 0
                                    => caller[c].job # worker[w].job
         /\ \A s \in saved : ~Consumed(s.id) => s.job # worker[w].job
<1> DEFINE j == worker[w].job
<1>1. <<"worker", w>> \in Tokens(j)
  BY TokenKinds
<1>2. \A x \in Tokens(j) : x = <<"worker", w>>
  BY <1>1 DEF OneExecutor
<1>3. ASSUME NEW m \in messages, m.job = j PROVE FALSE
  BY <1>2, <1>3, TokenKinds
<1>4. ASSUME NEW v \in Workers, worker[v].pc \in {"mark", "run", "save"}, v # w,
             worker[v].job = j
      PROVE FALSE
  BY <1>2, <1>4, TokenKinds
<1>5. ASSUME NEW c \in Callers, caller[c].pc = "mark", caller[c].sid = 0, caller[c].job = j
      PROVE FALSE
  BY <1>2, <1>5, TokenKinds
<1>6. ASSUME NEW s \in saved, ~Consumed(s.id), s.job = j PROVE FALSE
  BY <1>2, <1>6, TokenKinds
<1>7. QED
  BY <1>3, <1>4, <1>5, <1>6

\* Steps that only end something.
LEMMA PhaseInvEnd ==
  ASSUME PhaseInv, UNCHANGED ran, messages' \subseteq messages, saved' \subseteq saved,
         fresh' \subseteq fresh,
         \A c \in Callers : caller'[c] = caller[c] \/ caller'[c].pc = "idle",
         \A s \in saved' : Consumed(s.id) => Consumed(s.id)',
         \A w \in Workers : worker'[w].pc \in {"mark", "run", "save"} =>
            /\ worker'[w].pc = worker[w].pc /\ worker'[w].pos = worker[w].pos
            /\ worker'[w].job = worker[w].job
  PROVE  PhaseInv'
<1>1. UpToRan'
  BY DEF PhaseInv, UpToRan
<1>2. \A j : RowLocked(j)' => RowLocked(j)
  BY DEF RowLocked
<1>3. NothingLeftOver'
  BY <1>2 DEF PhaseInv, NothingLeftOver
<1>4. QED
  BY <1>1, <1>3 DEF PhaseInv

LEMMA PhaseInvBegin ==
  ASSUME TypeInv, PhaseInv, NEW c \in Callers, NEW j \in fresh, Begin(c, j)
  PROVE  PhaseInv'
<1>1. /\ caller[c].pc = "idle" /\ caller'[c].pc = "mark" /\ caller'[c].job = j
      /\ caller'[c].pos = 0 /\ caller'[c].sid = 0
      /\ \A d \in Callers \ {c} : caller'[d] = caller[d]
      /\ fresh' \subseteq fresh
      /\ UNCHANGED <<saved, messages, worker, ran>>
  BY DEF Begin, tables, broker, history, TypeInv, TypeOK
<1>2. \A id : Consumed(id)' <=> Consumed(id)
  BY <1>1 DEF Consumed
<1>3. \A i : RowLocked(i)' <=> RowLocked(i)
  BY <1>1 DEF RowLocked
<1>4. UpToRan'
  BY <1>1, <1>2 DEF PhaseInv, UpToRan, TypeInv, TypeOK, SavedRows
<1>5. NothingLeftOver'
  BY <1>1, <1>3 DEF PhaseInv, NothingLeftOver
<1>6. QED
  BY <1>4, <1>5 DEF PhaseInv

LEMMA PhaseInvDeliver ==
  ASSUME TypeInv, IdInv, PhaseInv, NEW c \in Callers, NEW t \in sent, NEW e \in BOOLEAN,
         Deliver(c, t, e)
  PROVE  PhaseInv'
<1>1. UNCHANGED <<saved, messages, worker, fresh, ran>> /\ caller[c].pc = "idle"
  BY DEF Deliver, tables, broker, history
<1>2. CASE UNCHANGED caller
  BY <1>1, <1>2, PhaseInvEnd DEF Consumed
<1>3. CASE \E s \in saved : caller' = [caller EXCEPT ![c] =
                [pc |-> "mark", job |-> s.job, pos |-> s.pos, err |-> e,
                 seen |-> queue[s.job], sid |-> s.id]]
  <2>1. PICK s \in saved :
            /\ caller'[c].pc = "mark" /\ caller'[c].job = s.job
            /\ caller'[c].pos = s.pos /\ caller'[c].sid = s.id
            /\ \A d \in Callers \ {c} : caller'[d] = caller[d]
    BY <1>3 DEF TypeInv, TypeOK
  <2>2. s.id # 0 /\ \A r \in saved : r.id = s.id => r = s
    BY DEF IdInv, ResumeMatchesTransfer, TypeInv, TypeOK, SavedRows
  <2>3. \A id : Consumed(id)' <=> Consumed(id)
    BY <1>1, <2>1 DEF Consumed
  <2>4. \A i : RowLocked(i)' <=> RowLocked(i)
    BY <1>1, <2>1 DEF RowLocked
  <2>5. UpToRan'
    BY <1>1, <2>1, <2>2, <2>3 DEF PhaseInv, UpToRan
  <2>6. NothingLeftOver'
    BY <1>1, <2>4 DEF PhaseInv, NothingLeftOver
  <2>7. QED
    BY <2>5, <2>6 DEF PhaseInv
<1>4. QED
  BY <1>2, <1>3 DEF Deliver

LEMMA PhaseInvCallerSends ==
  ASSUME TypeInv, HoldsRow, ExecInv, PhaseInv, NEW c \in Callers, CallerSends(c)
  PROVE  PhaseInv'
<1>1. /\ caller[c].pc = "mark" /\ caller'[c].pc = "sent"
      /\ caller'[c].sid = caller[c].sid /\ caller'[c].job = caller[c].job
      /\ \A d \in Callers \ {c} : caller'[d] = caller[d]
      /\ caller[c].job \in Jobs
      /\ UNCHANGED <<saved, worker, fresh, ran>>
  BY DEF CallerSends, tables, history, TypeInv, TypeOK, CallerStates
<1>2. \A m \in messages' :
        m \in messages \/ (m.job = caller[c].job /\ m.pos = caller[c].pos)
  <2> DEFINE n == [task |-> nextTask, job |-> caller[c].job, pos |-> caller[c].pos,
                   err |-> caller[c].err]
  <2>1. messages' = messages \cup {n}
    BY DEF CallerSends
  <2>2. n.job = caller[c].job /\ n.pos = caller[c].pos
    OBVIOUS
  <2> HIDE DEF n
  <2>3. QED
    BY <2>1, <2>2
<1>3. caller[c].pos = ran[caller[c].job]
  <2>1. CASE caller[c].sid = 0
    BY <1>1, <2>1 DEF PhaseInv, UpToRan
  <2>2. CASE caller[c].sid # 0
    <3>1. PICK s \in saved : /\ s.id = caller[c].sid /\ s.job = caller[c].job
                             /\ ~Consumed(s.id)
      BY <1>1, <2>2, MarkingHasToken
    <3>2. QED
      BY <1>1, <3>1 DEF PhaseInv, UpToRan
  <2>3. QED
    BY <2>1, <2>2
<1>4. \A s \in saved : Consumed(s.id) => Consumed(s.id)'
  BY <1>1 DEF Consumed
<1>5. UpToRan'
  BY <1>1, <1>2, <1>3, <1>4 DEF PhaseInv, UpToRan
<1>6. \A i : RowLocked(i)' => RowLocked(i) \/ i = caller[c].job
  BY <1>1 DEF RowLocked
<1>7. ASSUME NEW w \in Workers, worker[w].pc \in {"run", "save"},
             worker[w].job = caller[c].job
      PROVE FALSE
  BY <1>1, <1>7, MarkingHasToken, WorkerIsAlone DEF ExecInv
<1>8. NothingLeftOver'
  BY <1>1, <1>6, <1>7 DEF PhaseInv, NothingLeftOver
<1>9. QED
  BY <1>5, <1>8 DEF PhaseInv

LEMMA PhaseInvReceive ==
  ASSUME TypeInv, PhaseInv, NEW w \in Workers, NEW m \in messages, Receive(w, m)
  PROVE  PhaseInv'
<1>1. /\ messages' \subseteq messages
      /\ \A v \in Workers \ {w} : worker'[v] = worker[v]
      /\ worker'[w].pc \in {"mark", "error"}
      /\ worker'[w].job = m.job /\ worker'[w].pos = m.pos
      /\ UNCHANGED <<caller, fresh, saved, ran>>
  BY DEF Receive, tables, history, TypeInv, TypeOK
<1>2. UpToRan'
  BY <1>1 DEF PhaseInv, UpToRan, Consumed
<1>3. NothingLeftOver'
  BY <1>1 DEF PhaseInv, NothingLeftOver, RowLocked
<1>4. QED
  BY <1>2, <1>3 DEF PhaseInv

LEMMA PhaseInvMarkProgress ==
  ASSUME TypeInv, IdInv, HoldsRow, ExecInv, PhaseInv, NEW w \in Workers, MarkProgress(w)
  PROVE  PhaseInv'
<1>1. /\ worker[w].pc = "mark" /\ ~RowLocked(worker[w].job)
      /\ \A v \in Workers \ {w} : worker'[v] = worker[v]
      /\ worker'[w].pc = "run" /\ worker[w].job \in Jobs
      /\ worker'[w].job = worker[w].job /\ worker'[w].pos = worker[w].pos
      /\ UNCHANGED <<caller, fresh, messages, saved, ran>>
  BY DEF MarkProgress, Marked, broker, history, TypeInv, TypeOK, WorkerStates
<1>2. ASSUME NEW s \in saved, s.job = worker[w].job PROVE FALSE
  <2>1. Consumed(s.id)
    BY <1>1, <1>2, WorkerIsAlone DEF ExecInv
  <2>2. PICK c \in Callers : caller[c].pc = "sent" /\ caller[c].sid = s.id
    BY <2>1 DEF Consumed
  <2>3. s.id # 0
    BY DEF TypeInv, TypeOK, SavedRows
  <2>4. caller[c].job = s.job
    BY <2>2, <2>3 DEF HoldsRow, RowHeld, IdInv, ResumeMatchesTransfer
  <2>5. QED
    BY <1>1, <1>2, <2>2, <2>4 DEF RowLocked
<1>3. UpToRan'
  BY <1>1 DEF PhaseInv, UpToRan, Consumed
<1>4. NothingLeftOver'
  BY <1>1, <1>2 DEF PhaseInv, NothingLeftOver, RowLocked
<1>5. QED
  BY <1>3, <1>4 DEF PhaseInv

LEMMA PhaseInvRunPhase ==
  ASSUME TypeInv, ExecInv, PhaseInv, NEW w \in Workers, RunPhase(w)
  PROVE  PhaseInv'
<1> DEFINE j == worker[w].job
<1>1. /\ worker[w].pc = "run" /\ j \in Jobs /\ ran[j] = worker[w].pos
      /\ worker[w].pos \in Nat
  BY RecipeFacts DEF RunPhase, PhaseInv, UpToRan, TypeInv, TypeOK, WorkerStates, Positions
<1>2. /\ \A v \in Workers \ {w} : worker'[v] = worker[v]
      /\ worker'[w].pc \in {"run", "save"} /\ worker'[w].job = j
      /\ worker'[w].pos = worker[w].pos + 1
      /\ UNCHANGED <<caller, fresh, messages, saved>>
  BY <1>1 DEF RunPhase, After, tables, broker, history, TypeInv, TypeOK, WorkerStates
<1>3. /\ \A i \in Jobs \ {j} : ran'[i] = ran[i]
      /\ ran'[j] = worker[w].pos + 1
  BY <1>1 DEF RunPhase, TypeInv, TypeOK
<1>4. j \notin fresh
  <2>1. <<"worker", w>> \in Tokens(j)
    BY <1>1, TokenKinds
  <2>2. QED
    BY <2>1 DEF ExecInv, FreshIsUntouched
<1>5. /\ \A m \in messages : m.job \in Jobs \ {j}
      /\ \A v \in Workers \ {w} : worker[v].pc \in {"mark", "run", "save"}
            => worker[v].job \in Jobs \ {j}
      /\ \A c \in Callers : caller[c].pc = "mark" /\ caller[c].sid = 0
            => caller[c].job \in Jobs \ {j}
      /\ \A s \in saved : ~Consumed(s.id) => s.job \in Jobs \ {j}
      /\ \A i \in fresh : i \in Jobs \ {j}
  BY <1>1, <1>4, WorkerIsAlone
  DEF ExecInv, TypeInv, TypeOK, Messages, WorkerStates, CallerStates, SavedRows
<1>6. UpToRan'
  BY <1>2, <1>3, <1>5 DEF PhaseInv, UpToRan, Consumed
<1>7. NothingLeftOver'
  BY <1>1, <1>2 DEF PhaseInv, NothingLeftOver, RowLocked
<1>8. QED
  BY <1>6, <1>7 DEF PhaseInv

LEMMA PhaseInvSaveEnviron ==
  ASSUME TypeInv, IdInv, HoldsRow, ExecInv, PhaseInv, NEW w \in Workers, SaveEnviron(w)
  PROVE  PhaseInv'
<1>1. /\ worker[w].pc = "save" /\ worker[w].job \in Jobs
      /\ \A v \in Workers \ {w} : worker'[v] = worker[v]
      /\ worker'[w].pc \in {"send", "error"}
      /\ UNCHANGED <<caller, fresh, messages, ran>>
  BY DEF SaveEnviron, broker, history, TypeInv, TypeOK, WorkerStates
<1>2. \A s \in saved' : s \in saved
        \/ (s.id = nextId /\ s.job = worker[w].job /\ s.pos = worker[w].pos)
  <2> DEFINE r == [id |-> nextId, job |-> worker[w].job, pos |-> worker[w].pos]
  <2>1. saved' \subseteq saved \cup {r}
    BY DEF SaveEnviron, tables
  <2>2. r.id = nextId /\ r.job = worker[w].job /\ r.pos = worker[w].pos
    OBVIOUS
  <2> HIDE DEF r
  <2>3. QED
    BY <2>1, <2>2
<1>3. \A c \in Callers : caller[c].pc # "idle" => caller[c].sid # nextId
  BY DEF HoldsRow, RowHeld, IdInv, TypeInv, TypeOK, CallerStates, SavedRows
<1>4. \A v \in Workers \ {w} : worker[v].pc \in {"run", "save"}
            => worker[v].job # worker[w].job
  BY <1>1, WorkerIsAlone DEF ExecInv
<1>5. UpToRan'
  BY <1>1, <1>2, <1>3 DEF PhaseInv, UpToRan, Consumed
<1>6. NothingLeftOver'
  BY <1>1, <1>2, <1>4 DEF PhaseInv, NothingLeftOver, RowLocked
<1>7. QED
  BY <1>5, <1>6 DEF PhaseInv

LEMMA PhaseInvWorker ==
  ASSUME TypeInv, PhaseInv, NEW w \in Workers,
         \/ WorkerDropped(w) \/ WorkerConflicts(w) \/ PhaseRaises(w) \/ SendRequest(w)
         \/ UndoSave(w) \/ HandleError(w) \/ Finish(w) \/ Crash(w)
         \/ \E received \in BOOLEAN : SendRaises(w, received)
  PROVE  PhaseInv'
<1> USE DEF tables, broker, history
<1>1. UNCHANGED <<messages, caller, fresh, ran>> /\ saved' \subseteq saved
  BY DEF WorkerDropped, WorkerConflicts, PhaseRaises, SendRequest, UndoSave,
         HandleError, Finish, Crash, SendRaises, DeleteRow
<1>2. \A v \in Workers \ {w} : worker'[v] = worker[v]
  BY DEF WorkerDropped, WorkerConflicts, PhaseRaises, SendRequest, UndoSave,
         HandleError, Finish, Crash, SendRaises, TypeInv, TypeOK
<1>3. worker'[w].pc \in {"mark", "run", "save"} =>
            /\ worker'[w].pc = worker[w].pc /\ worker'[w].pos = worker[w].pos
            /\ worker'[w].job = worker[w].job
  BY DEF WorkerDropped, WorkerConflicts, PhaseRaises, SendRequest, UndoSave,
         HandleError, Finish, Crash, SendRaises, IdleWorker, TypeInv, TypeOK,
         WorkerStates
<1>4. QED
  BY <1>1, <1>2, <1>3, PhaseInvEnd DEF Consumed

LEMMA PhaseInvStep ==
  /\ TypeInv /\ IdInv /\ HoldsRow /\ ExecInv /\ PhaseInv /\ [Next]_vars /\ ~RolledBack'
  => PhaseInv'
<1> SUFFICES ASSUME TypeInv, IdInv, HoldsRow, ExecInv, PhaseInv, [Next]_vars, ~RolledBack'
             PROVE  PhaseInv'
  OBVIOUS
<1>1. CASE UNCHANGED vars
  <2>1. UNCHANGED <<messages, caller, fresh, worker, saved, ran>>
    BY <1>1 DEF vars, tables, broker, history
  <2>2. QED
    BY <2>1, PhaseInvEnd DEF Consumed
<1>2. CASE \E c \in Callers, j \in fresh : Begin(c, j)
  BY <1>2, PhaseInvBegin
<1>3. CASE \E c \in Callers, t \in sent, e \in BOOLEAN : Deliver(c, t, e)
  BY <1>3, PhaseInvDeliver
<1>4. ASSUME NEW c \in Callers, CallerDropped(c) PROVE PhaseInv'
  BY <1>4, PhaseInvEnd
  DEF CallerDropped, DeleteRow, Consumed, broker, history, TypeInv, TypeOK, IdleCaller
<1>5. ASSUME NEW c \in Callers, Commit(c) PROVE PhaseInv'
  BY <1>5, PhaseInvEnd DEF Commit, Consumed, broker, history, TypeInv, TypeOK, IdleCaller
<1>6. CASE \E c \in Callers : CallerNext(c)
  BY <1>4, <1>5, <1>6, PhaseInvCallerSends DEF CallerNext
<1>7. CASE \E c \in Callers : Rollback(c)
  BY <1>7 DEF Rollback, Disturb, RolledBack, TypeInv, TypeOK
<1>8. CASE \E w \in Workers, m \in messages : Receive(w, m)
  BY <1>8, PhaseInvReceive
<1>9. CASE \E w \in Workers : WorkerNext(w) \/ Crash(w)
  BY <1>9, PhaseInvWorker, PhaseInvMarkProgress, PhaseInvRunPhase, PhaseInvSaveEnviron
  DEF WorkerNext
<1>10. CASE \E j \in Jobs : AdminNext(j)
  <2>1. UNCHANGED <<messages, caller, fresh, worker, ran>> /\ saved' \subseteq saved
    BY <1>10 DEF AdminNext, LoadForCancel, SaveCancelled, DeleteSelected, DeleteRow,
           tables, broker, history
  <2>2. QED
    BY <2>1, PhaseInvEnd DEF Consumed
<1>11. QED
  BY <1>1, <1>2, <1>3, <1>6, <1>7, <1>8, <1>9, <1>10 DEF Next, Quiet

LEMMA PhaseInvInit == Init => PhaseInv
  BY DEF Init, PhaseInv, UpToRan, NothingLeftOver, IdleWorker, IdleCaller

\* Unless a transaction of delay_environ was rolled back, nobody goes on with a
\* job but the one who is as far as it was executed.
UndisturbedInv == ~RolledBack => ExecInv /\ PhaseInv

LEMMA Undisturbed == Spec => [](TypeInv /\ UndisturbedInv)
<1>1. TypeInv /\ IdInv /\ HoldsRow /\ UndisturbedInv /\ [Next]_vars => UndisturbedInv'
  BY ExecInvStep, PhaseInvStep, RolledBackStays DEF UndisturbedInv
<1>2. Init => UndisturbedInv
  BY NothingAtFirst, PhaseInvInit DEF UndisturbedInv
<1>3. QED
  BY <1>1, <1>2, NothingAtFirst, TypeInvStep, IdInvStep, HoldsRowStep, PTL DEF Spec

\* Saving the environ for a transfer never meets a SavedEnviron left over from
\* an earlier one, unless a transaction was rolled back after its message left.
THEOREM SaveCorrect == Spec => []SaveNeverConflicts
<1>1. UndisturbedInv => SaveNeverConflicts
  BY DEF UndisturbedInv, PhaseInv, NothingLeftOver, SaveNeverConflicts
<1>2. QED
  BY <1>1, Undisturbed, PTL

\* Until such a rollback no phase of a job is executed a second time.
THEOREM NoPhaseTwiceCorrect == Spec => NoPhaseTwice
<1>1. ASSUME TypeInv, UndisturbedInv, ~RolledBack, NEW w \in Workers, RunPhase(w)
      PROVE  ran[worker[w].job] < worker'[w].pos
  <2>1. /\ ran[worker[w].job] = worker[w].pos /\ worker[w].pos \in Nat
    BY <1>1, RecipeFacts DEF UndisturbedInv, PhaseInv, UpToRan, RunPhase,
           TypeInv, TypeOK, WorkerStates, Positions
  <2>2. worker'[w].pos = worker[w].pos + 1
    BY <1>1 DEF RunPhase, TypeInv, TypeOK, WorkerStates
  <2>3. QED
    BY <2>1, <2>2
<1>2. TypeInv /\ UndisturbedInv /\ [Next]_vars
        => [~RolledBack => \A w \in Workers :
                RunPhase(w) => ran[worker[w].job] < worker'[w].pos]_vars
  BY <1>1
<1>3. QED
  BY <1>2, Undisturbed, PTL DEF Spec, NoPhaseTwice

(***************************************************************************)
(* The manager implements the lifecycle of its jobs, rollbacks included.   *)
(***************************************************************************)
\* Nothing that goes on with a job is ahead of the phases that were executed,
\* so that none is ever skipped.
NoneAhead ==
    /\ \A m \in messages : m.pos <= ran[m.job]
    /\ \A w \in Workers : worker[w].pc \in {"mark", "run", "save"}
            => worker[w].pos <= ran[worker[w].job]
    /\ \A c \in Callers : caller[c].pc = "mark" => caller[c].pos <= ran[caller[c].job]
    /\ \A s \in saved : s.pos <= ran[s.job]

FreshIsInactive == \A j \in fresh : ~Active(j)

\* Executed phases stay so, and environs are handed on as they are.
LEMMA NoneAheadStep ==
  ASSUME TypeInv, NoneAhead, [Next]_vars
  PROVE  NoneAhead'
<1> USE DEF tables, broker, history
<1>a. \A n \in Positions : n \in Nat
  BY RecipeFacts DEF Positions
<1>b. \A m \in messages : m.job \in Jobs /\ m.pos \in Nat
  BY <1>a DEF TypeInv, TypeOK, Messages
<1>c. \A w \in Workers : worker[w].job \in Jobs /\ worker[w].pos \in Nat
  BY <1>a DEF TypeInv, TypeOK, WorkerStates
<1>d. \A c \in Callers : caller[c].job \in Jobs /\ caller[c].pos \in Nat
  BY <1>a DEF TypeInv, TypeOK, CallerStates
<1>e. \A s \in saved : s.job \in Jobs /\ s.pos \in Nat
  BY <1>a DEF TypeInv, TypeOK, SavedRows
<1>f. \A j \in Jobs : ran[j] \in Nat
  BY <1>a DEF TypeInv, TypeOK
<1>1. ASSUME messages' \subseteq messages, saved' \subseteq saved, UNCHANGED ran,
             \A c \in Callers : caller'[c] = caller[c] \/ caller'[c].pc # "mark",
             \A w \in Workers : worker'[w].pc \in {"mark", "run", "save"} =>
                /\ worker[w].pc \in {"mark", "run", "save"}
                /\ worker'[w].pos = worker[w].pos /\ worker'[w].job = worker[w].job
      PROVE  NoneAhead'
  BY <1>1 DEF NoneAhead
<1>2. CASE UNCHANGED vars
  BY <1>1, <1>2 DEF vars
<1>3. ASSUME NEW c \in Callers, NEW j \in fresh, Begin(c, j) PROVE NoneAhead'
  <2>1. /\ \A d \in Callers \ {c} : caller'[d] = caller[d]
        /\ caller'[c].job = j /\ caller'[c].pos = 0
        /\ UNCHANGED <<messages, saved, ran, worker>>
    BY <1>3 DEF Begin, TypeInv, TypeOK
  <2>2. j \in Jobs
    BY DEF TypeInv, TypeOK
  <2>3. QED
    BY <1>f, <2>1, <2>2 DEF NoneAhead
<1>4. ASSUME NEW c \in Callers, NEW t \in sent, NEW e \in BOOLEAN, Deliver(c, t, e)
      PROVE NoneAhead'
  <2>1. UNCHANGED <<messages, saved, ran, worker>>
    BY <1>4 DEF Deliver
  <2>2. \/ UNCHANGED caller
        \/ \E s \in saved : /\ \A d \in Callers \ {c} : caller'[d] = caller[d]
                            /\ caller'[c].job = s.job /\ caller'[c].pos = s.pos
    BY <1>4 DEF Deliver, TypeInv, TypeOK
  <2>3. QED
    BY <2>1, <2>2 DEF NoneAhead
<1>5. ASSUME NEW c \in Callers, CallerSends(c) PROVE NoneAhead'
  <2> DEFINE n == [task |-> nextTask, job |-> caller[c].job, pos |-> caller[c].pos,
                   err |-> caller[c].err]
  <2>1. /\ messages' = messages \cup {n} /\ caller[c].pc = "mark"
        /\ \A d \in Callers : caller'[d] = caller[d] \/ caller'[d].pc = "sent"
        /\ UNCHANGED <<saved, ran, worker>>
    BY <1>5 DEF CallerSends, TypeInv, TypeOK, CallerStates
  <2>2. n.job = caller[c].job /\ n.pos = caller[c].pos
    OBVIOUS
  <2> HIDE DEF n
  <2>3. QED
    BY <2>1, <2>2 DEF NoneAhead
<1>6. ASSUME NEW c \in Callers, CallerDropped(c) \/ Commit(c) \/ Rollback(c)
      PROVE NoneAhead'
  BY <1>1, <1>6 DEF CallerDropped, Commit, Rollback, DeleteRow, IdleCaller, TypeInv, TypeOK
<1>7. ASSUME NEW w \in Workers, NEW m \in messages, Receive(w, m) PROVE NoneAhead'
  <2>1. /\ \A v \in Workers \ {w} : worker'[v] = worker[v]
        /\ worker'[w].job = m.job /\ worker'[w].pos = m.pos
        /\ messages' \subseteq messages
        /\ UNCHANGED <<saved, ran, caller>>
    BY <1>7 DEF Receive, TypeInv, TypeOK
  <2>2. QED
    BY <2>1 DEF NoneAhead
<1>8. ASSUME NEW w \in Workers, RunPhase(w) PROVE NoneAhead'
  <2> DEFINE j == worker[w].job
  <2>1. /\ \A v \in Workers \ {w} : worker'[v] = worker[v]
        /\ worker'[w].job = j /\ worker'[w].pos = worker[w].pos + 1
        /\ UNCHANGED <<messages, saved, caller>>
    BY <1>8 DEF RunPhase, TypeInv, TypeOK, WorkerStates
  <2>2. /\ \A i \in Jobs \ {j} : ran'[i] = ran[i]
        /\ ran'[j] = IF ran[j] < worker[w].pos + 1 THEN worker[w].pos + 1 ELSE ran[j]
    BY <1>8, <1>c DEF RunPhase, TypeInv, TypeOK
  <2>3. \A i \in Jobs : ran'[i] \in Nat /\ ran[i] <= ran'[i]
    BY <1>c, <1>f, <2>2
  <2>4. worker'[w].pos <= ran'[j]
    BY <1>c, <1>f, <2>1, <2>2
  <2>5. \A m \in messages' : m.pos <= ran'[m.job]
    BY <1>b, <1>f, <2>1, <2>3 DEF NoneAhead
  <2>6. \A v \in Workers : worker'[v].pc \in {"mark", "run", "save"}
            => worker'[v].pos <= ran'[worker'[v].job]
    BY <1>c, <1>f, <2>1, <2>3, <2>4 DEF NoneAhead
  <2>7. \A c \in Callers : caller'[c].pc = "mark" => caller'[c].pos <= ran'[caller'[c].job]
    BY <1>d, <1>f, <2>1, <2>3 DEF NoneAhead
  <2>8. \A s \in saved' : s.pos <= ran'[s.job]
    BY <1>e, <1>f, <2>1, <2>3 DEF NoneAhead
  <2>9. QED
    BY <2>5, <2>6, <2>7, <2>8 DEF NoneAhead
<1>9. ASSUME NEW w \in Workers, SaveEnviron(w) PROVE NoneAhead'
  <2> DEFINE r == [id |-> nextId, job |-> worker[w].job, pos |-> worker[w].pos]
  <2>1. /\ saved' \subseteq saved \cup {r} /\ worker[w].pc = "save"
        /\ \A v \in Workers : worker'[v] = worker[v] \/ worker'[v].pc \in {"send", "error"}
        /\ UNCHANGED <<messages, ran, caller>>
    BY <1>9 DEF SaveEnviron, TypeInv, TypeOK, WorkerStates
  <2>2. r.job = worker[w].job /\ r.pos = worker[w].pos
    OBVIOUS
  <2> HIDE DEF r
  <2>3. QED
    BY <2>1, <2>2 DEF NoneAhead
<1>10. ASSUME NEW w \in Workers,
              \/ WorkerDropped(w) \/ WorkerConflicts(w) \/ MarkProgress(w)
              \/ PhaseRaises(w) \/ SendRequest(w) \/ UndoSave(w) \/ HandleError(w)
              \/ Finish(w) \/ Crash(w) \/ \E received \in BOOLEAN : SendRaises(w, received)
       PROVE NoneAhead'
  <2>1. saved' \subseteq saved /\ UNCHANGED <<messages, ran, caller>>
    BY <1>10 DEF WorkerDropped, WorkerConflicts, MarkProgress, PhaseRaises, SendRequest,
           UndoSave, HandleError, Finish, Crash, SendRaises, DeleteRow
  <2>2. \A v \in Workers \ {w} : worker'[v] = worker[v]
    BY <1>10 DEF WorkerDropped, WorkerConflicts, MarkProgress, PhaseRaises, SendRequest,
           UndoSave, HandleError, Finish, Crash, SendRaises, TypeInv, TypeOK
  <2>3. worker'[w].pc \in {"mark", "run", "save"} =>
            /\ worker[w].pc \in {"mark", "run", "save"}
            /\ worker'[w].pos = worker[w].pos /\ worker'[w].job = worker[w].job
    <3>1. CASE WorkerConflicts(w) \/ MarkProgress(w) \/ PhaseRaises(w) \/ UndoSave(w)
               \/ \E received \in BOOLEAN : SendRaises(w, received)
      BY <3>1 DEF WorkerConflicts, Marking, MarkProgress, PhaseRaises, UndoSave,
             SendRaises, TypeInv, TypeOK, WorkerStates, IdleWorker
    <3>2. CASE WorkerDropped(w) \/ SendRequest(w) \/ HandleError(w) \/ Finish(w) \/ Crash(w)
      BY <3>2 DEF WorkerDropped, SendRequest, HandleError, Finish, Crash, IdleWorker,
             TypeInv, TypeOK
    <3>3. QED
      BY <1>10, <3>1, <3>2
  <2>4. QED
    BY <1>1, <2>1, <2>2, <2>3
<1>11. ASSUME NEW j \in Jobs, AdminNext(j) PROVE NoneAhead'
  BY <1>1, <1>11 DEF AdminNext, LoadForCancel, SaveCancelled, DeleteSelected, DeleteRow
<1>12. QED
  BY <1>2, <1>3, <1>4, <1>5, <1>6, <1>7, <1>8, <1>9, <1>10, <1>11
  DEF Next, CallerNext, WorkerNext, Quiet

\* What the lifecycle is told of a job, and a step of it.
Status == [j \in Jobs |-> IF j \in fresh THEN "new"
                         ELSE IF Active(j) THEN "active" ELSE "ended"]

LifecycleStep == [Lifecycle!LifecycleNext]_(Lifecycle!lifecycleVars)

\* A step that takes up no job and ends at most job j.
LEMMA StepEnds ==
  ASSUME TypeInv, FreshIsInactive, UNCHANGED <<fresh, ran>>, NEW j \in Jobs,
         \A i \in Jobs : Active(i)' => Active(i),
         \A i \in Jobs \ {j} : Active(i) => Active(i)'
  PROVE  LifecycleStep /\ FreshIsInactive'
<1>1. FreshIsInactive'
  BY DEF FreshIsInactive, TypeInv, TypeOK
<1>2. CASE Active(j) /\ ~Active(j)'
  <2>1. j \notin fresh
    BY <1>2 DEF FreshIsInactive
  <2>2. Status[j] = "active"
    BY <1>2, <2>1 DEF Status
  <2>3. Status' = [Status EXCEPT ![j] = "ended"]
    BY <1>2, <2>1 DEF Status
  <2>4. Lifecycle!End(j)
    BY <2>2, <2>3 DEF Lifecycle!End, Status
  <2>5. QED
    BY <1>1, <2>4 DEF LifecycleStep, Lifecycle!LifecycleNext
<1>3. CASE Active(j) => Active(j)'
  <2>1. Status' = Status
    BY <1>3 DEF Status
  <2>2. QED
    BY <1>1, <2>1 DEF LifecycleStep, Lifecycle!lifecycleVars, Status
<1>4. QED
  BY <1>2, <1>3

LEMMA LifecycleHolds ==
  ASSUME TypeInv, IdInv, HoldsRow, NoneAhead, FreshIsInactive, [Next]_vars
  PROVE  LifecycleStep /\ FreshIsInactive'
<1> DEFINE Goal == LifecycleStep /\ FreshIsInactive'
<1> USE DEF tables, broker, history
<1> HIDE DEF Goal
<1>0. ASSUME UNCHANGED <<fresh, ran>>, \A i \in Jobs : Active(i)' <=> Active(i)
      PROVE  Goal
  BY <1>0, SomeJobIsJob, StepEnds DEF Goal
<1>1. ASSUME UNCHANGED <<messages, saved, worker, caller, fresh, ran>> PROVE Goal
  BY <1>0, <1>1 DEF Active
<1>2. ASSUME NEW c \in Callers, NEW j \in fresh, Begin(c, j) PROVE Goal
  <2>1. /\ caller[c].pc = "idle" /\ caller'[c].pc = "mark" /\ caller'[c].job = j
        /\ \A d \in Callers \ {c} : caller'[d] = caller[d]
        /\ j \in Jobs /\ fresh' = fresh \ {j}
        /\ UNCHANGED <<messages, saved, worker, ran>>
    BY <1>2 DEF Begin, TypeInv, TypeOK
  <2>2. \A i \in Jobs : Active(i)' <=> Active(i) \/ i = j
    BY <2>1 DEF Active
  <2>3. Status[j] = "new"
    BY <2>1 DEF Status
  <2>4. Status' = [Status EXCEPT ![j] = "active"]
    BY <2>1, <2>2 DEF Status
  <2>5. Lifecycle!Start(j)
    BY <2>1, <2>3, <2>4 DEF Lifecycle!Start, Status
  <2>6. FreshIsInactive'
    BY <2>1, <2>2 DEF FreshIsInactive, TypeInv, TypeOK
  <2>7. QED
    BY <2>1, <2>5, <2>6 DEF Goal, LifecycleStep, Lifecycle!LifecycleNext
<1>3. ASSUME NEW c \in Callers, NEW t \in sent, NEW e \in BOOLEAN, Deliver(c, t, e)
      PROVE Goal
  <2>1. UNCHANGED <<messages, saved, worker, fresh, ran>> /\ caller[c].pc = "idle"
    BY <1>3 DEF Deliver
  <2>2. \/ UNCHANGED caller
        \/ \E s \in saved : /\ \A d \in Callers \ {c} : caller'[d] = caller[d]
                            /\ caller'[c].job = s.job /\ caller'[c].pc = "mark"
    BY <1>3 DEF Deliver, TypeInv, TypeOK
  <2>3. \A i \in Jobs : Active(i)' <=> Active(i)
    BY <2>1, <2>2 DEF Active
  <2>4. QED
    BY <1>0, <2>1, <2>3
<1>4. ASSUME NEW c \in Callers, CallerSends(c) PROVE Goal
  <2> DEFINE n == [task |-> nextTask, job |-> caller[c].job, pos |-> caller[c].pos,
                   err |-> caller[c].err]
  <2>1. /\ messages' = messages \cup {n} /\ caller[c].pc = "mark" /\ caller'[c].pc = "sent"
        /\ \A d \in Callers \ {c} : caller'[d] = caller[d]
        /\ UNCHANGED <<saved, worker, fresh, ran>>
    BY <1>4 DEF CallerSends, TypeInv, TypeOK, CallerStates
  <2>2. n.job = caller[c].job
    OBVIOUS
  <2> HIDE DEF n
  <2>3. \A i \in Jobs : Active(i)' <=> Active(i)
    BY <2>1, <2>2 DEF Active
  <2>4. QED
    BY <1>0, <2>1, <2>3
<1>5. ASSUME NEW c \in Callers, CallerDropped(c) \/ Commit(c) \/ Rollback(c) PROVE Goal
  <2> DEFINE j == caller[c].job
  <2>1. /\ \A d \in Callers \ {c} : caller'[d] = caller[d]
        /\ caller'[c].pc = "idle" /\ caller[c].pc # "idle" /\ j \in Jobs
        /\ UNCHANGED <<messages, worker, fresh, ran>>
    BY <1>5 DEF CallerDropped, Commit, Rollback, IdleCaller, TypeInv, TypeOK, CallerStates
  <2>2. /\ saved' \subseteq saved
        /\ \A s \in saved : s \in saved' \/ s.job = j \/ s.id = caller[c].sid
    BY <1>5 DEF CallerDropped, DeleteRow, Commit, Rollback
  <2>3. \A s \in saved : s.id = caller[c].sid => s.job = j
    BY <2>1 DEF HoldsRow, RowHeld, IdInv, ResumeMatchesTransfer, TypeInv, TypeOK, SavedRows
  <2>4. \A i \in Jobs : Active(i)' => Active(i)
    BY <2>1, <2>2 DEF Active
  <2>5. \A i \in Jobs \ {j} : Active(i) => Active(i)'
    BY <2>1, <2>2, <2>3 DEF Active
  <2>6. QED
    BY <2>1, <2>4, <2>5, StepEnds DEF Goal
<1>6. ASSUME NEW w \in Workers, NEW m \in messages, Receive(w, m) PROVE Goal
  <2>1. /\ \A v \in Workers \ {w} : worker'[v] = worker[v]
        /\ worker[w].pc = "idle" /\ worker'[w].pc # "idle" /\ worker'[w].job = m.job
        /\ messages' = messages \ {m}
        /\ UNCHANGED <<saved, caller, fresh, ran>>
    BY <1>6 DEF Receive, TypeInv, TypeOK
  <2>2. \A i \in Jobs : Active(i)' <=> Active(i)
    BY <2>1 DEF Active
  <2>3. QED
    BY <1>0, <2>1, <2>2
<1>7. ASSUME NEW w \in Workers, RunPhase(w) PROVE Goal
  <2> DEFINE j == worker[w].job
             n == worker[w].pos + 1
  <2>1. /\ \A v \in Workers \ {w} : worker'[v] = worker[v]
        /\ worker[w].pc = "run" /\ j \in Jobs
        /\ worker'[w].pc # "idle" /\ worker'[w].job = j
        /\ UNCHANGED <<messages, saved, caller, fresh>>
    BY <1>7 DEF RunPhase, After, TypeInv, TypeOK, WorkerStates
  <2>2. \A i \in Jobs : Active(i)' <=> Active(i)
    BY <2>1 DEF Active
  <2>3. Active(j)
    BY <2>1 DEF Active
  <2>4. Status' = Status
    BY <2>1, <2>2 DEF Status
  <2>5. FreshIsInactive'
    BY <2>1, <2>2 DEF FreshIsInactive, TypeInv, TypeOK
  <2>6. /\ ran' = [ran EXCEPT ![j] = IF ran[j] < n THEN n ELSE ran[j]]
        /\ n <= Len(Recipe)
    BY <1>7 DEF RunPhase
  <2>7. worker[w].pos <= ran[j] /\ worker[w].pos \in Nat /\ ran[j] \in Nat
    BY <2>1, RecipeFacts DEF NoneAhead, TypeInv, TypeOK, WorkerStates, Positions
  <2>8. CASE ran[j] < n
    <3>1. ran[j] < Len(Recipe) /\ ran' = [ran EXCEPT ![j] = ran[j] + 1]
      <4>1. n = ran[j] + 1
        BY <2>7, <2>8
      <4>2. ran[j] < Len(Recipe)
        BY <2>6, <2>7, <4>1, RecipeFacts
      <4>3. ran' = [ran EXCEPT ![j] = n]
        BY <2>6, <2>8
      <4>4. QED
        BY <4>1, <4>2, <4>3
    <3>2. Status[j] = "active"
      BY <2>1, <2>3 DEF Status, FreshIsInactive
    <3>3. Lifecycle!Advance(j)
      BY <2>4, <3>1, <3>2 DEF Lifecycle!Advance, Status
    <3>4. QED
      BY <2>1, <2>5, <3>3 DEF Goal, LifecycleStep, Lifecycle!LifecycleNext
  <2>9. CASE ~(ran[j] < n)
    <3>1. ran' = [ran EXCEPT ![j] = ran[j]]
      BY <2>6, <2>9
    <3>2. ran' = ran
      BY <3>1 DEF TypeInv, TypeOK
    <3>3. QED
      BY <1>0, <2>1, <2>2, <3>2
  <2>10. QED
    BY <2>8, <2>9
<1>8. ASSUME NEW w \in Workers, SaveEnviron(w) PROVE Goal
  <2> DEFINE r == [id |-> nextId, job |-> worker[w].job, pos |-> worker[w].pos]
  <2>1. /\ saved \subseteq saved' /\ saved' \subseteq saved \cup {r}
        /\ \A v \in Workers \ {w} : worker'[v] = worker[v]
        /\ worker[w].pc # "idle" /\ worker'[w].pc # "idle"
        /\ worker'[w].job = worker[w].job
        /\ UNCHANGED <<messages, ran, fresh, caller>>
    BY <1>8 DEF SaveEnviron, TypeInv, TypeOK, WorkerStates
  <2>2. r.job = worker[w].job
    OBVIOUS
  <2> HIDE DEF r
  <2>3. \A i \in Jobs : Active(i)' <=> Active(i)
    BY <2>1, <2>2 DEF Active
  <2>4. QED
    BY <1>0, <2>1, <2>3
<1>9. ASSUME NEW w \in Workers, WorkerConflicts(w) \/ MarkProgress(w) \/ PhaseRaises(w)
             \/ (UndoSave(w) /\ KeepsHandlers(worker[w].pos))
             \/ \E received \in BOOLEAN : SendRaises(w, received)
      PROVE Goal
  <2>1. /\ \A v \in Workers \ {w} : worker'[v] = worker[v]
        /\ worker[w].pc # "idle" /\ worker'[w].pc # "idle"
        /\ worker'[w].job = worker[w].job
        /\ UNCHANGED <<messages, ran, fresh, caller>>
    BY <1>9 DEF WorkerConflicts, Marking, MarkProgress, PhaseRaises, UndoSave, SendRaises,
           TypeInv, TypeOK, WorkerStates
  <2>2. saved' \subseteq saved /\ \A s \in saved : s \in saved' \/ s.job = worker[w].job
    BY <1>9 DEF WorkerConflicts, MarkProgress, PhaseRaises, UndoSave, SendRaises, IdInv
  <2>3. \A i \in Jobs : Active(i)' <=> Active(i)
    BY <2>1, <2>2 DEF Active
  <2>4. QED
    BY <1>0, <2>1, <2>3
<1>10. ASSUME NEW w \in Workers, WorkerDropped(w) \/ SendRequest(w) \/ HandleError(w)
              \/ Finish(w) \/ Crash(w) \/ (UndoSave(w) /\ ~KeepsHandlers(worker[w].pos))
       PROVE Goal
  <2>1. /\ \A v \in Workers \ {w} : worker'[v] = worker[v]
        /\ worker[w].pc # "idle" /\ worker'[w].pc = "idle" /\ worker[w].job \in Jobs
        /\ UNCHANGED <<messages, ran, fresh, caller>>
    BY <1>10 DEF WorkerDropped, Marking, SendRequest, HandleError, Finish, Crash, UndoSave,
           IdleWorker, TypeInv, TypeOK, WorkerStates
  <2>2. saved' \subseteq saved /\ \A s \in saved : s \in saved' \/ s.job = worker[w].job
    BY <1>10 DEF WorkerDropped, SendRequest, HandleError, Finish, Crash, UndoSave, DeleteRow,
           IdInv
  <2>3. \A i \in Jobs : Active(i)' => Active(i)
    BY <2>1, <2>2 DEF Active
  <2>4. \A i \in Jobs \ {worker[w].job} : Active(i) => Active(i)'
    BY <2>1, <2>2 DEF Active
  <2>5. QED
    BY <2>1, <2>3, <2>4, StepEnds DEF Goal
<1>11. ASSUME NEW j \in Jobs, AdminNext(j) PROVE Goal
  <2>1. UNCHANGED <<messages, ran, fresh, caller, worker>>
    BY <1>11 DEF AdminNext, LoadForCancel, SaveCancelled, DeleteSelected
  <2>2. saved' \subseteq saved /\ \A s \in saved : s \in saved' \/ s.job = j
    BY <1>11 DEF AdminNext, LoadForCancel, SaveCancelled, DeleteSelected, DeleteRow
  <2>3. \A i \in Jobs : Active(i)' => Active(i)
    BY <2>1, <2>2 DEF Active
  <2>4. \A i \in Jobs \ {j} : Active(i) => Active(i)'
    BY <2>1, <2>2 DEF Active
  <2>5. QED
    BY <2>1, <2>3, <2>4, StepEnds DEF Goal
<1>12. ASSUME UNCHANGED vars PROVE Goal
  BY <1>1, <1>12 DEF vars
<1>13. Goal
  BY <1>2, <1>3, <1>4, <1>5, <1>6, <1>7, <1>8, <1>9, <1>10, <1>11, <1>12
  DEF Next, CallerNext, WorkerNext, Quiet
<1>14. QED
  BY <1>13 DEF Goal

\* Every job is started once, its phases are executed in their order and none is
\* skipped, and once it has ended nothing is executed for it, for any jobs,
\* workers, recipe and disturbances.
THEOREM LifecycleCorrect == Spec => ImplementsLifecycle
<1>1. Init => NoneAhead /\ FreshIsInactive
  BY DEF Init, NoneAhead, FreshIsInactive, Active, IdleWorker, IdleCaller
<1>2. Init => Lifecycle!LifecycleInit
  BY DEF Init, Lifecycle!LifecycleInit
<1>3. TypeInv /\ NoneAhead /\ [Next]_vars => NoneAhead'
  BY NoneAheadStep
<1>4. /\ TypeInv /\ IdInv /\ HoldsRow /\ NoneAhead /\ FreshIsInactive /\ [Next]_vars
      => LifecycleStep /\ FreshIsInactive'
  BY LifecycleHolds
<1>5. QED
  BY <1>1, <1>2, <1>3, <1>4, NothingAtFirst, TypeInvStep, IdInvStep, HoldsRowStep, PTL
  DEF Spec, ImplementsLifecycle, Lifecycle!LifecycleSpec, LifecycleStep

(***************************************************************************)
(* Nothing is stranded unless a worker dies: a row that is not cancelled   *)
(* is carried on, and a parked environ is awaited.                         *)
(***************************************************************************)
\* Nobody has done anything for job j, except transactions not in C.
Untouched(j, C) ==
    /\ queue[j] = "absent" /\ j \notin admin
    /\ \A m \in messages : m.job # j
    /\ \A s \in saved : s.job # j
    /\ \A w \in Workers : worker[w].pc # "idle" => worker[w].job # j
    /\ \A d \in C : caller[d].pc # "idle" => caller[d].job # j

Starting(c) == caller[c].pc = "mark" /\ caller[c].sid = 0
StartInv ==
    /\ \A j \in fresh : Untouched(j, Callers)
    /\ \A c \in Callers : Starting(c) => Untouched(caller[c].job, Callers \ {c})

\* Steps that do nothing for job j.
LEMMA UntouchedKept ==
  ASSUME NEW j, NEW C, Untouched(j, C),
         queue'[j] \in {queue[j], "absent"}, j \in admin' => j \in admin,
         \A m \in messages' : m \in messages \/ m.job # j,
         \A s \in saved' : s \in saved \/ s.job # j,
         \A w \in Workers : \/ worker'[w] = worker[w]
                            \/ worker'[w].pc = "idle" \/ worker'[w].job # j,
         \A d \in C : \/ caller'[d] = caller[d]
                      \/ caller'[d].pc = "idle" \/ caller'[d].job # j
  PROVE  Untouched(j, C)'
  BY DEF Untouched

\* Workers, administrators and transactions in C leave an untouched job alone.
LEMMA UntouchedByWorker ==
  ASSUME TypeInv, NEW j \in Jobs, NEW C \in SUBSET Callers, Untouched(j, C),
         NEW w \in Workers, WorkerNext(w) \/ Crash(w)
  PROVE  Untouched(j, C)'
<1> USE DEF tables, broker, history
<1>1. worker[w].pc # "idle"
  BY DEF WorkerNext, WorkerDropped, WorkerConflicts, MarkProgress, RunPhase,
         PhaseRaises, SaveEnviron, SendRequest, SendRaises, UndoSave, HandleError,
         Finish, Crash, Marking
<1>2. worker[w].job \in Jobs /\ worker[w].job # j
  BY <1>1 DEF Untouched, TypeInv, TypeOK, WorkerStates
<1>3. ASSUME UNCHANGED <<messages, caller, admin>>, NEW r,
             worker' = [worker EXCEPT ![w] = r], r.pc = "idle" \/ r.job = worker[w].job,
             queue'[j] = queue[j], \A s \in saved' : s \in saved \/ s.job = worker[w].job
      PROVE  Untouched(j, C)'
  BY <1>2, <1>3, UntouchedKept DEF TypeInv, TypeOK
<1>4. CASE WorkerDropped(w) \/ HandleError(w) \/ Finish(w) \/ Crash(w)
  BY <1>2, <1>3, <1>4
  DEF WorkerDropped, HandleError, Finish, Crash, DeleteRow, TypeInv, TypeOK, IdleWorker
<1>5. CASE WorkerConflicts(w) \/ MarkProgress(w) \/ RunPhase(w) \/ PhaseRaises(w)
  BY <1>2, <1>3, <1>5
  DEF WorkerConflicts, MarkProgress, RunPhase, PhaseRaises, TypeInv, TypeOK, WorkerStates
<1>6. CASE SaveEnviron(w)
  BY <1>2, <1>3, <1>6 DEF SaveEnviron, TypeInv, TypeOK, WorkerStates
<1>7. CASE \/ SendRequest(w) \/ UndoSave(w)
           \/ \E received \in BOOLEAN : SendRaises(w, received)
  BY <1>2, <1>3, <1>7
  DEF SendRequest, SendRaises, UndoSave, TypeInv, TypeOK, WorkerStates, IdleWorker
<1> QED BY <1>4, <1>5, <1>6, <1>7 DEF WorkerNext

LEMMA UntouchedByCaller ==
  ASSUME TypeInv, NEW j \in Jobs, NEW C \in SUBSET Callers, Untouched(j, C),
         NEW c \in C, CallerNext(c) \/ Rollback(c)
  PROVE  Untouched(j, C)'
<1> USE DEF tables, broker, history
<1>1. caller[c].pc # "idle"
  BY DEF CallerNext, CallerDropped, CallerSends, Commit, Rollback
<1>2. caller[c].job \in Jobs /\ caller[c].job # j
  BY <1>1 DEF Untouched, TypeInv, TypeOK, CallerStates
<1>3. /\ UNCHANGED <<worker, admin>> /\ saved' \subseteq saved
      /\ \A d \in Callers \ {c} : caller'[d] = caller[d]
      /\ caller'[c].pc = "idle" \/ caller'[c].job = caller[c].job
  BY DEF CallerNext, CallerDropped, CallerSends, Commit, Rollback, DeleteRow,
         TypeInv, TypeOK, CallerStates, IdleCaller
<1>4. queue'[j] = queue[j]
  BY <1>2 DEF CallerNext, CallerDropped, CallerSends, Commit, Rollback, DeleteRow,
         TypeInv, TypeOK
<1>5. \A m \in messages' : m \in messages \/ m.job = caller[c].job
  BY DEF CallerNext, CallerDropped, CallerSends, Commit, Rollback
<1> QED BY <1>2, <1>3, <1>4, <1>5, UntouchedKept

\* Nobody goes on with a job that is not handed over, or is about to be.
LEMMA StartInvStep == TypeInv /\ StartInv /\ [Next]_vars => StartInv'
<1> SUFFICES ASSUME TypeInv, StartInv, [Next]_vars PROVE StartInv'
  OBVIOUS
<1> USE DEF tables, broker, history
<1>0. /\ fresh \subseteq Jobs /\ messages \subseteq Messages /\ saved \subseteq SavedRows
      /\ \A c \in Callers : caller[c].job \in Jobs
  BY DEF TypeInv, TypeOK, CallerStates
<1>1. ASSUME fresh' \subseteq fresh,
             \A c \in Callers : Starting(c)' => Starting(c) /\ caller'[c].job = caller[c].job,
             \A j \in fresh' : Untouched(j, Callers)',
             \A c \in Callers : Starting(c)' =>
                Untouched(caller[c].job, Callers \ {c})'
      PROVE  StartInv'
  BY <1>1 DEF StartInv, Untouched
<1>2. ASSUME \A j \in Jobs, C \in SUBSET Callers : Untouched(j, C) => Untouched(j, C)',
             UNCHANGED <<fresh, caller>>
      PROVE  StartInv'
  <2>1. \A c \in Callers : Callers \ {c} \in SUBSET Callers
    OBVIOUS
  <2> QED BY <1>0, <1>2, <2>1 DEF StartInv, Starting
<1>3. ASSUME NEW c \in Callers, NEW i \in fresh, Begin(c, i) PROVE StartInv'
  <2>1. /\ UNCHANGED <<tables, broker, worker, admin>> /\ fresh' = fresh \ {i}
        /\ caller[c].pc = "idle" /\ caller'[c].job = i
        /\ \A d \in Callers \ {c} : caller'[d] = caller[d]
    BY <1>3 DEF Begin, TypeInv, TypeOK
  <2>2. ASSUME NEW j \in Jobs, j # i, NEW C \in SUBSET Callers, Untouched(j, C)
        PROVE  Untouched(j, C)'
    BY <2>1, <2>2, UntouchedKept
  <2>3. Untouched(i, Callers \ {c})'
    BY <2>1, UntouchedKept DEF StartInv, Untouched
  <2>4. \A j \in fresh' : Untouched(j, Callers)'
    BY <1>0, <2>1, <2>2 DEF StartInv
  <2>5. ASSUME NEW d \in Callers \ {c}, Starting(d)
        PROVE  Untouched(caller[d].job, Callers \ {d})' /\ caller'[d] = caller[d]
    <3>1. caller[d].job # i
      BY <2>5 DEF StartInv, Starting, Untouched
    <3> QED BY <1>0, <2>1, <2>2, <2>5, <3>1 DEF StartInv
  <2> QED BY <2>1, <2>3, <2>4, <2>5 DEF StartInv, Starting
<1>4. ASSUME NEW c \in Callers, NEW t \in sent, NEW e \in BOOLEAN, Deliver(c, t, e)
      PROVE StartInv'
  <2>1. /\ UNCHANGED <<tables, broker, worker, admin, fresh>> /\ caller[c].pc = "idle"
        /\ \A d \in Callers \ {c} : caller'[d] = caller[d]
        /\ \/ caller' = caller
           \/ \E s \in saved : caller'[c].job = s.job /\ caller'[c].sid # 0
    BY <1>0, <1>4 DEF Deliver, TypeInv, TypeOK, SavedRows
  <2>2. ASSUME NEW j \in Jobs, NEW C \in SUBSET Callers, Untouched(j, C)
        PROVE  Untouched(j, C)'
    <3>1. \A s \in saved : s.job # j
      BY <2>2 DEF Untouched
    <3> QED BY <2>1, <2>2, <3>1, UntouchedKept
  <2>3. \A d \in Callers : Starting(d)' => Starting(d) /\ caller'[d] = caller[d]
    BY <2>1 DEF Starting
  <2> QED BY <1>0, <1>1, <2>1, <2>2, <2>3 DEF StartInv
<1>5. ASSUME NEW c \in Callers, CallerNext(c) \/ Rollback(c) PROVE StartInv'
  <2>1. /\ fresh' = fresh /\ ~Starting(c)'
        /\ \A d \in Callers \ {c} : caller'[d] = caller[d]
    BY <1>5 DEF CallerNext, CallerDropped, CallerSends, Commit, Rollback, TypeInv, TypeOK,
                IdleCaller, Starting, CallerStates
  <2>2. ASSUME NEW j \in Jobs, NEW C \in SUBSET Callers, Untouched(j, C), c \in C
        PROVE  Untouched(j, C)'
    BY <1>5, <2>2, UntouchedByCaller
  <2>3. ASSUME NEW d \in Callers, Starting(d)'
        PROVE  Starting(d) /\ caller'[d] = caller[d] /\ Untouched(caller[d].job, Callers \ {d})'
    <3>1. d # c /\ caller'[d] = caller[d] /\ Starting(d)
      BY <2>1, <2>3 DEF Starting
    <3> QED BY <1>0, <2>2, <3>1 DEF StartInv
  <2> QED BY <1>0, <1>1, <2>1, <2>2, <2>3 DEF StartInv
<1>6. ASSUME NEW w \in Workers, NEW m \in messages, Receive(w, m) PROVE StartInv'
  <2>1. /\ UNCHANGED <<tables, caller, admin, fresh>> /\ messages' \subseteq messages
        /\ \A v \in Workers \ {w} : worker'[v] = worker[v]
        /\ worker'[w].job = m.job
    BY <1>6 DEF Receive, TypeInv, TypeOK
  <2>2. ASSUME NEW j \in Jobs, NEW C \in SUBSET Callers, Untouched(j, C)
        PROVE  Untouched(j, C)'
    <3>1. m.job # j
      BY <2>2 DEF Untouched
    <3> QED BY <2>1, <2>2, <3>1, UntouchedKept
  <2> QED BY <1>2, <2>1, <2>2
<1>7. ASSUME NEW w \in Workers, WorkerNext(w) \/ Crash(w) PROVE StartInv'
  <2>1. UNCHANGED <<fresh, caller>>
    BY <1>7 DEF WorkerNext, WorkerDropped, WorkerConflicts, MarkProgress, RunPhase,
           PhaseRaises, SaveEnviron, SendRequest, SendRaises, UndoSave, HandleError,
           Finish, Crash
  <2> QED BY <1>2, <1>7, <2>1, UntouchedByWorker
<1>8. ASSUME NEW i \in Jobs, AdminNext(i) PROVE StartInv'
  <2>1. /\ UNCHANGED <<fresh, caller, worker, messages>> /\ saved' \subseteq saved
        /\ i \in admin \/ queue[i] # "absent"
        /\ \A j \in Jobs \ {i} : queue'[j] = queue[j] /\ (j \in admin' => j \in admin)
    BY <1>8 DEF AdminNext, LoadForCancel, SaveCancelled, DeleteSelected, DeleteRow,
                Listed, TypeInv, TypeOK
  <2>2. ASSUME NEW j \in Jobs, NEW C \in SUBSET Callers, Untouched(j, C)
        PROVE  Untouched(j, C)'
    <3>1. j # i
      BY <2>1, <2>2 DEF Untouched
    <3> QED BY <2>1, <2>2, <3>1, UntouchedKept
  <2> QED BY <1>2, <2>1, <2>2
<1>9. CASE UNCHANGED vars
  BY <1>9 DEF vars, StartInv, Starting, Untouched
<1> QED BY <1>3, <1>4, <1>5, <1>6, <1>7, <1>8, <1>9 DEF Next, Quiet

\* A transaction that resumes a job was given an answer of its request.
Answered ==
    \A c \in Callers : caller[c].pc # "idle" /\ caller[c].sid # 0
        => \E t \in sent : t.id = caller[c].sid /\ t.left < MaxReplies
AllAwaited == \A s \in saved : Awaited(s)

\* Steps that take no answer away, release no row and end no sending.
LEMMA AwaitedKept ==
  ASSUME NEW s, Awaited(s), sent \subseteq sent',
         \A w \in Workers : worker[w].pc \in {"send", "undo"} /\ worker[w].sid = s.id
            => worker'[w].pc \in {"send", "undo"} /\ worker'[w].sid = s.id,
         \A c \in Callers : caller[c].pc # "idle" /\ caller[c].sid = s.id
            => caller'[c].pc # "idle" /\ caller'[c].sid = s.id
  PROVE  Awaited(s)'
  BY DEF Awaited, EnvLocked

\* A row that a transaction has taken is of the job it resumes.
LEMMA TakenRow ==
  ASSUME TypeInv, IdInv, HoldsRow, NEW c \in Callers, caller[c].pc # "idle",
         NEW s \in saved, s.id = caller[c].sid
  PROVE  s.job = caller[c].job
<1>1. caller[c].sid # 0
  BY DEF TypeInv, TypeOK, SavedRows
<1>2. PICK r \in saved : r.id = caller[c].sid /\ r.job = caller[c].job
  BY <1>1 DEF HoldsRow, RowHeld
<1> QED BY <1>2 DEF IdInv, ResumeMatchesTransfer

LEMMA AnsweredStep ==
  ASSUME TypeInv, HoldsRow, Answered, [Next]_vars
  PROVE  Answered'
<1> USE DEF tables, broker, history
<1>0. \A t \in sent : t.left \in Nat /\ t.left <= MaxReplies /\ MaxReplies \in Nat
  BY BoundAssumption DEF TypeInv, TypeOK, Requests
<1>1. ASSUME sent \subseteq sent',
             \A c \in Callers : \/ caller'[c] = caller[c] \/ caller'[c].pc = "idle"
                                \/ caller'[c].sid = 0
                                \/ caller[c].pc # "idle" /\ caller'[c].sid = caller[c].sid
      PROVE  Answered'
  BY <1>1 DEF Answered
<1>2. ASSUME NEW c \in Callers, NEW j \in fresh, Begin(c, j) PROVE Answered'
  BY <1>1, <1>2 DEF Begin, TypeInv, TypeOK
<1>3. ASSUME NEW c \in Callers, NEW t \in sent, NEW e \in BOOLEAN, Deliver(c, t, e)
      PROVE Answered'
  <2> DEFINE u == [t EXCEPT !.left = @ - 1]
  <2>1. /\ sent' = (sent \ {t}) \cup {u} /\ t.left > 0 /\ caller[c].pc = "idle"
        /\ \A d \in Callers \ {c} : caller'[d] = caller[d]
        /\ caller' = caller \/ caller'[c].sid = t.id
    BY <1>3 DEF Deliver, TypeInv, TypeOK
  <2>2. t.left - 1 < MaxReplies
    BY <1>0, <2>1
  <2>3. u.id = t.id /\ u.left < MaxReplies
    BY <2>2 DEF TypeInv, TypeOK, Requests
  <2> HIDE DEF u
  <2>4. ASSUME NEW d \in Callers, caller[d].pc # "idle", caller[d].sid # 0
        PROVE  \E x \in sent' : x.id = caller[d].sid /\ x.left < MaxReplies
    <3>1. PICK x \in sent : x.id = caller[d].sid /\ x.left < MaxReplies
      BY <2>4 DEF Answered
    <3> QED BY <2>1, <2>3, <3>1
  <2>5. ASSUME caller' # caller
        PROVE  \E x \in sent' : x.id = caller'[c].sid /\ x.left < MaxReplies
    BY <2>1, <2>3, <2>5
  <2> QED BY <2>1, <2>4, <2>5 DEF Answered
<1>4. ASSUME NEW c \in Callers, CallerNext(c) PROVE Answered'
  BY <1>1, <1>4 DEF CallerNext, CallerDropped, CallerSends, Commit, TypeInv, TypeOK,
                    IdleCaller, CallerStates
<1>5. ASSUME NEW c \in Callers, Rollback(c) PROVE Answered'
  <2>1. /\ caller[c].pc # "idle" /\ caller'[c].pc = "idle"
        /\ \A d \in Callers \ {c} : caller'[d] = caller[d]
        /\ \A t \in sent : t.id # caller[c].sid => t \in sent'
    BY <1>5 DEF Rollback, TypeInv, TypeOK, IdleCaller
  <2>2. \A d \in Callers \ {c} : caller[d].pc # "idle" /\ caller[d].sid # 0
            => caller[d].sid # caller[c].sid
    BY <2>1 DEF HoldsRow, HeldOnce
  <2> QED BY <2>1, <2>2 DEF Answered
<1>6. ASSUME NEW w \in Workers, NEW m \in messages, Receive(w, m) PROVE Answered'
  BY <1>1, <1>6 DEF Receive
<1>7. ASSUME NEW w \in Workers, WorkerNext(w) \/ Crash(w) PROVE Answered'
  BY <1>1, <1>7 DEF WorkerNext, WorkerDropped, WorkerConflicts, MarkProgress, RunPhase,
           PhaseRaises, SaveEnviron, SendRequest, SendRaises, UndoSave, HandleError,
           Finish, Crash
<1>8. ASSUME NEW j \in Jobs, AdminNext(j) PROVE Answered'
  BY <1>1, <1>8 DEF AdminNext, LoadForCancel, SaveCancelled, DeleteSelected
<1>9. CASE UNCHANGED vars
  BY <1>1, <1>9 DEF vars
<1> QED BY <1>2, <1>3, <1>4, <1>5, <1>6, <1>7, <1>8, <1>9 DEF Next, Quiet

\* A parked environ stays awaited, in every step but a crash.
LEMMA AwaitedStep ==
  ASSUME TypeInv, IdInv, HoldsRow, Answered, AllAwaited, [Next]_vars,
         \A w \in Workers : ~Crash(w)
  PROVE  AllAwaited'
<1> USE DEF tables, broker, history
<1>0. /\ \A s \in saved : s.id # 0
      /\ \A t \in sent : t.left \in Nat /\ t.left <= MaxReplies /\ MaxReplies \in Nat \ {0}
  BY BoundAssumption DEF TypeInv, TypeOK, SavedRows, Requests
<1>1. ASSUME saved' \subseteq saved, sent \subseteq sent',
             \A w \in Workers : \/ worker'[w] = worker[w]
                                \/ worker[w].pc \notin {"send", "undo"},
             \A c \in Callers : \/ caller'[c] = caller[c] \/ caller[c].pc = "idle"
                                \/ caller'[c].pc # "idle" /\ caller'[c].sid = caller[c].sid
      PROVE  AllAwaited'
  BY <1>1, AwaitedKept DEF AllAwaited
<1>2. ASSUME NEW c \in Callers, NEW j \in fresh, Begin(c, j) PROVE AllAwaited'
  BY <1>1, <1>2 DEF Begin, TypeInv, TypeOK
<1>3. ASSUME NEW c \in Callers, NEW t \in sent, NEW e \in BOOLEAN, Deliver(c, t, e)
      PROVE AllAwaited'
  <2>1. /\ sent \ {t} \subseteq sent' /\ caller[c].pc = "idle"
        /\ \A d \in Callers \ {c} : caller'[d] = caller[d]
        /\ UNCHANGED <<saved, worker>>
        /\ \A s \in saved : s.id = t.id => caller'[c].pc # "idle" /\ caller'[c].sid = t.id
    BY <1>3 DEF Deliver, TypeInv, TypeOK
  <2>2. ASSUME NEW s \in saved PROVE Awaited(s)'
    <3>1. CASE s.id = t.id
      BY <2>1, <3>1 DEF Awaited, EnvLocked
    <3>2. CASE s.id # t.id
      BY <2>1, <3>2 DEF AllAwaited, Awaited, EnvLocked
    <3> QED BY <3>1, <3>2
  <2> QED BY <2>1, <2>2 DEF AllAwaited
<1>4. ASSUME NEW c \in Callers, CallerSends(c) PROVE AllAwaited'
  BY <1>1, <1>4 DEF CallerSends, TypeInv, TypeOK, CallerStates
<1>5. ASSUME NEW c \in Callers, CallerDropped(c) \/ Commit(c) PROVE AllAwaited'
  <2>1. /\ saved' \subseteq saved /\ UNCHANGED <<sent, worker>> /\ caller[c].pc # "idle"
        /\ \A d \in Callers \ {c} : caller'[d] = caller[d]
        /\ \A s \in saved' : s.id # caller[c].sid \/ s.job # caller[c].job
    BY <1>5 DEF CallerDropped, Commit, DeleteRow, TypeInv, TypeOK
  <2>2. \A s \in saved' : s.id # caller[c].sid
    BY <2>1, TakenRow
  <2> QED BY <2>1, <2>2 DEF AllAwaited, Awaited, EnvLocked
<1>6. ASSUME NEW c \in Callers, Rollback(c) PROVE AllAwaited'
  <2> DEFINE back(t) == IF t.id = caller[c].sid /\ t.left < MaxReplies
                        THEN [t EXCEPT !.left = @ + 1] ELSE t
  <2>1. /\ UNCHANGED <<saved, worker>> /\ sent' = {back(t) : t \in sent}
        /\ caller[c].pc # "idle"
        /\ \A d \in Callers \ {c} : caller'[d] = caller[d]
    BY <1>6 DEF Rollback, TypeInv, TypeOK
  <2>2. ASSUME NEW t \in sent
        PROVE  /\ back(t) \in sent' /\ back(t).id = t.id
               /\ t.left > 0 => back(t).left > 0
               /\ t.id = caller[c].sid => back(t).left > 0
    <3>1. back(t) \in sent'
      BY <2>1
    <3>2. CASE t.id = caller[c].sid /\ t.left < MaxReplies
      <4>1. back(t) = [t EXCEPT !.left = @ + 1]
        BY <3>2
      <4>2. back(t).id = t.id /\ back(t).left = t.left + 1
        BY <4>1 DEF TypeInv, TypeOK, Requests
      <4> QED BY <1>0, <3>1, <4>2
    <3>3. CASE ~(t.id = caller[c].sid /\ t.left < MaxReplies)
      <4>1. back(t) = t
        BY <3>3
      <4> QED BY <1>0, <3>1, <3>3, <4>1
    <3> QED BY <3>2, <3>3
  <2> HIDE DEF back
  <2>3. ASSUME NEW s \in saved PROVE Awaited(s)'
    <3>1. CASE s.id = caller[c].sid
      <4>1. PICK t \in sent : t.id = caller[c].sid
        BY <1>0, <2>1, <3>1 DEF Answered
      <4> QED BY <2>2, <3>1, <4>1 DEF Awaited
    <3>2. CASE s.id # caller[c].sid
      <4>1. ASSUME NEW t \in sent, t.id = s.id, t.left > 0 PROVE Awaited(s)'
        BY <2>2, <4>1 DEF Awaited
      <4>2. CASE \A t \in sent : ~(t.id = s.id /\ t.left > 0)
        BY <2>1, <3>2, <4>2 DEF AllAwaited, Awaited, EnvLocked
      <4> QED BY <4>1, <4>2
    <3> QED BY <3>1, <3>2
  <2> QED BY <2>1, <2>3 DEF AllAwaited
<1>7. ASSUME NEW w \in Workers, NEW m \in messages, Receive(w, m) PROVE AllAwaited'
  BY <1>1, <1>7 DEF Receive, TypeInv, TypeOK
<1>8. ASSUME NEW w \in Workers,
             \/ WorkerDropped(w) \/ WorkerConflicts(w) \/ MarkProgress(w) \/ RunPhase(w)
             \/ PhaseRaises(w) \/ HandleError(w) \/ Finish(w)
      PROVE AllAwaited'
  BY <1>1, <1>8 DEF WorkerDropped, WorkerConflicts, Marking, MarkProgress, RunPhase,
           PhaseRaises, HandleError, Finish, DeleteRow, TypeInv, TypeOK
<1>9. ASSUME NEW w \in Workers, SaveEnviron(w) PROVE AllAwaited'
  <2>1. /\ UNCHANGED <<sent, caller>> /\ worker[w].pc = "save"
        /\ \A v \in Workers \ {w} : worker'[v] = worker[v]
        /\ \A s \in saved' : s \in saved \/ (worker'[w].pc = "send" /\ worker'[w].sid = s.id)
    BY <1>9 DEF SaveEnviron, TypeInv, TypeOK, WorkerStates
  <2> QED BY <2>1 DEF AllAwaited, Awaited, EnvLocked
<1>10. ASSUME NEW w \in Workers, SendRequest(w) PROVE AllAwaited'
  <2>1. /\ UNCHANGED <<saved, caller>>
        /\ \A v \in Workers \ {w} : worker'[v] = worker[v]
        /\ sent' = sent \cup {Request(w)}
        /\ Request(w).id = worker[w].sid /\ Request(w).left = MaxReplies
    BY <1>10 DEF SendRequest, Request, TypeInv, TypeOK
  <2>2. MaxReplies > 0
    BY BoundAssumption
  <2> QED BY <2>1, <2>2 DEF AllAwaited, Awaited, EnvLocked
<1>11. ASSUME NEW w \in Workers, NEW received \in BOOLEAN, SendRaises(w, received)
       PROVE AllAwaited'
  <2>1. /\ UNCHANGED <<saved, caller>> /\ sent \subseteq sent'
        /\ \A v \in Workers \ {w} : worker'[v] = worker[v]
        /\ worker'[w].pc = "undo" /\ worker'[w].sid = worker[w].sid
    BY <1>11 DEF SendRaises, TypeInv, TypeOK, WorkerStates
  <2>2. \A v \in Workers : worker[v].pc \in {"send", "undo"} =>
            worker'[v].pc \in {"send", "undo"} /\ worker'[v].sid = worker[v].sid
    BY <2>1
  <2> QED BY <2>1, <2>2 DEF AllAwaited, Awaited, EnvLocked
<1>12. ASSUME NEW w \in Workers, UndoSave(w) PROVE AllAwaited'
  <2>1. /\ UNCHANGED <<sent, caller>>
        /\ \A v \in Workers \ {w} : worker'[v] = worker[v]
        /\ \A s \in saved' : s \in saved /\ s.id # worker[w].sid
    BY <1>12 DEF UndoSave, TypeInv, TypeOK
  <2> QED BY <2>1 DEF AllAwaited, Awaited, EnvLocked
<1>13. ASSUME NEW j \in Jobs, AdminNext(j) PROVE AllAwaited'
  BY <1>1, <1>13 DEF AdminNext, LoadForCancel, SaveCancelled, DeleteSelected, DeleteRow
<1>14. CASE UNCHANGED vars
  BY <1>1, <1>14 DEF vars
<1> QED BY <1>2, <1>3, <1>4, <1>5, <1>6, <1>7, <1>8, <1>9, <1>10, <1>11, <1>12,
           <1>13, <1>14 DEF Next, CallerNext, WorkerNext, Quiet

\* A worker that will delete the row of its job or hand the job over...
Leads(w) ==
    /\ worker[w].pc \notin {"idle", "send"}
    /\ worker[w].pc = "undo" => KeepsHandlers(worker[w].pos)

\* ... is one of those who go on with job j and do not leave its row behind.
Carried(j) ==
    \/ \E m \in messages : m.job = j
    \/ \E s \in saved : s.job = j
    \/ \E w \in Workers : worker[w].job = j /\ Leads(w)
    \/ \E c \in Callers : caller[c].job = j /\ caller[c].pc = "mark"

\* The message that an uncommitted transaction has sent is still there, or its
\* worker waits for the row of the job.
MessageWaits ==
    \A c \in Callers : caller[c].pc = "sent" =>
        \/ \E m \in messages : m.job = caller[c].job
        \/ \E w \in Workers : /\ worker[w].job = caller[c].job
                              /\ worker[w].pc \in {"mark", "error"}
RowsCarried == \A j \in Jobs :
    queue[j] \notin {"absent", "CANCELLED"} => Carried(j) \/ j \in dropped

\* A transaction leaves a message of its job.
LEMMA MessageLeft ==
  ASSUME NEW c \in Callers, CallerSends(c)
  PROVE  messages \subseteq messages' /\ \E m \in messages' : m.job = caller[c].job
<1>1. PICK n : n = [task |-> nextTask, job |-> caller[c].job, pos |-> caller[c].pos,
                    err |-> caller[c].err]
  OBVIOUS
<1>2. n.job = caller[c].job
  BY <1>1
<1>3. messages' = messages \cup {n}
  BY <1>1 DEF CallerSends
<1> QED BY <1>2, <1>3

LEMMA MessageWaitsStep ==
  ASSUME TypeInv, MessageWaits, [Next]_vars, \A w \in Workers : ~Crash(w)
  PROVE  MessageWaits'
<1> USE DEF tables, broker, history
<1>1. ASSUME messages \subseteq messages',
             \A c \in Callers : caller'[c].pc = "sent" =>
                caller[c].pc = "sent" /\ caller'[c].job = caller[c].job,
             \A w \in Workers : worker[w].pc \in {"mark", "error"} /\ RowLocked(worker[w].job)
                => worker'[w].pc = worker[w].pc /\ worker'[w].job = worker[w].job
      PROVE  MessageWaits'
  BY <1>1 DEF MessageWaits, RowLocked
<1>2. ASSUME NEW c \in Callers, NEW j \in fresh, Begin(c, j) PROVE MessageWaits'
  BY <1>1, <1>2 DEF Begin, TypeInv, TypeOK
<1>3. ASSUME NEW c \in Callers, NEW t \in sent, NEW e \in BOOLEAN, Deliver(c, t, e)
      PROVE MessageWaits'
  BY <1>1, <1>3 DEF Deliver, TypeInv, TypeOK
<1>4. ASSUME NEW c \in Callers, CallerDropped(c) \/ Commit(c) \/ Rollback(c)
      PROVE MessageWaits'
  BY <1>1, <1>4 DEF CallerDropped, Commit, Rollback, TypeInv, TypeOK, IdleCaller
<1>5. ASSUME NEW c \in Callers, CallerSends(c) PROVE MessageWaits'
  <2>1. /\ UNCHANGED worker /\ caller'[c].job = caller[c].job
        /\ \A d \in Callers \ {c} : caller'[d] = caller[d]
    BY <1>5 DEF CallerSends, TypeInv, TypeOK, CallerStates
  <2> QED BY <1>5, <2>1, MessageLeft DEF MessageWaits
<1>6. ASSUME NEW w \in Workers, NEW m \in messages, Receive(w, m) PROVE MessageWaits'
  <2>1. /\ messages' = messages \ {m} /\ UNCHANGED caller /\ worker[w].pc = "idle"
        /\ worker'[w].job = m.job /\ worker'[w].pc \in {"mark", "error"}
        /\ \A v \in Workers \ {w} : worker'[v] = worker[v]
    BY <1>6 DEF Receive, TypeInv, TypeOK
  <2> QED BY <2>1 DEF MessageWaits
<1>7. ASSUME NEW w \in Workers, WorkerNext(w) PROVE MessageWaits'
  <2>1. UNCHANGED <<messages, caller>>
    BY <1>7 DEF WorkerNext, WorkerDropped, WorkerConflicts, MarkProgress, RunPhase,
           PhaseRaises, SaveEnviron, SendRequest, SendRaises, UndoSave, HandleError,
           Finish
  <2>2. \A v \in Workers \ {w} : worker'[v] = worker[v]
    BY <1>7 DEF WorkerNext, WorkerDropped, WorkerConflicts, MarkProgress, RunPhase,
           PhaseRaises, SaveEnviron, SendRequest, SendRaises, UndoSave, HandleError,
           Finish, TypeInv, TypeOK
  <2>3. ASSUME worker[w].pc \in {"mark", "error"}, RowLocked(worker[w].job)
        PROVE  worker'[w].pc = worker[w].pc /\ worker'[w].job = worker[w].job
    <3>1. WorkerConflicts(w)
      BY <1>7, <2>3 DEF WorkerNext, WorkerDropped, MarkProgress, RunPhase,
             PhaseRaises, SaveEnviron, SendRequest, SendRaises, UndoSave, HandleError,
             Finish, Deletable, Marked
    <3> QED BY <3>1 DEF WorkerConflicts, TypeInv, TypeOK, WorkerStates
  <2> QED BY <1>1, <2>1, <2>2, <2>3
<1>8. ASSUME NEW j \in Jobs, AdminNext(j) PROVE MessageWaits'
  BY <1>1, <1>8 DEF AdminNext, LoadForCancel, SaveCancelled, DeleteSelected
<1>9. CASE UNCHANGED vars
  BY <1>1, <1>9 DEF vars
<1> QED BY <1>2, <1>3, <1>4, <1>5, <1>6, <1>7, <1>8, <1>9 DEF Next, CallerNext, Quiet

LEMMA RowsCarriedStep ==
  ASSUME TypeInv, IdInv, HoldsRow, StartInv, MessageWaits, RowsCarried, [Next]_vars,
         \A w \in Workers : ~Crash(w)
  PROVE  RowsCarried'
<1> USE DEF tables, broker, history
\* It is enough that the row of j, the only job the step is about, is carried.
<1>1. ASSUME NEW j \in Jobs, messages \subseteq messages', dropped \subseteq dropped',
             \A i \in Jobs \ {j} : queue'[i] = queue[i],
             \A s \in saved : s \in saved' \/ s.job = j,
             \A w \in Workers : \/ worker'[w] = worker[w] \/ worker[w].job = j
                                \/ worker[w].pc = "idle",
             \A c \in Callers : \/ caller'[c] = caller[c] \/ caller[c].job = j
                                \/ caller[c].pc = "idle",
             queue'[j] \notin {"absent", "CANCELLED"} => (Carried(j) \/ j \in dropped)'
      PROVE  RowsCarried'
  BY <1>1 DEF RowsCarried, Carried, Leads
<1>2. ASSUME UNCHANGED <<queue, dropped>>, messages \subseteq messages',
             saved \subseteq saved',
             \A w \in Workers : worker[w].pc \notin {"idle", "send"} => worker'[w] = worker[w],
             \A c \in Callers : caller[c].pc = "mark" => caller'[c] = caller[c]
      PROVE  RowsCarried'
  BY <1>2 DEF RowsCarried, Carried, Leads
<1>3. ASSUME NEW c \in Callers, NEW j \in fresh, Begin(c, j) PROVE RowsCarried'
  BY <1>2, <1>3 DEF Begin, TypeInv, TypeOK
<1>4. ASSUME NEW c \in Callers, NEW t \in sent, NEW e \in BOOLEAN, Deliver(c, t, e)
      PROVE RowsCarried'
  BY <1>2, <1>4 DEF Deliver, TypeInv, TypeOK
<1>5. ASSUME NEW c \in Callers, CallerNext(c) \/ Rollback(c) PROVE RowsCarried'
  <2>0. PICK j \in Jobs : j = caller[c].job
    BY DEF TypeInv, TypeOK, CallerStates
  <2>1. /\ UNCHANGED <<worker, dropped>> /\ messages \subseteq messages'
        /\ caller[c].pc # "idle"
        /\ \A d \in Callers \ {c} : caller'[d] = caller[d]
    BY <1>5 DEF CallerNext, CallerDropped, CallerSends, Commit, Rollback,
                TypeInv, TypeOK, CallerStates
  <2>2. \A i \in Jobs \ {j} : queue'[i] = queue[i]
    BY <1>5, <2>0 DEF CallerNext, CallerDropped, CallerSends, Commit, Rollback, DeleteRow,
                TypeInv, TypeOK
  <2>3. \A s \in saved : s \in saved' \/ s.job = j
    <3>1. \A s \in saved : s \in saved' \/ s.job = j \/ s.id = caller[c].sid
      BY <1>5, <2>0 DEF CallerNext, CallerDropped, CallerSends, Commit, Rollback, DeleteRow
    <3> QED BY <2>0, <2>1, <3>1, TakenRow
  <2>4. queue'[j] \notin {"absent", "CANCELLED"} => Carried(j)'
    <3>1. CASE CallerDropped(c)
      BY <2>0, <3>1 DEF CallerDropped, DeleteRow, TypeInv, TypeOK
    <3>2. CASE CallerSends(c)
      <4>1. \E m \in messages' : m.job = j
        BY <2>0, <3>2, MessageLeft
      <4> QED BY <4>1 DEF Carried
    <3>3. CASE Commit(c)
      <4>1. caller[c].pc = "sent" /\ UNCHANGED messages
        BY <3>3 DEF Commit
      <4> QED BY <2>0, <2>1, <4>1 DEF MessageWaits, Carried, Leads
    <3>4. CASE Rollback(c)
      <4>1. UNCHANGED <<queue, saved, messages>>
        BY <3>4 DEF Rollback
      <4>2. CASE caller[c].pc = "mark" /\ caller[c].sid = 0
        <5>1. queue[j] = "absent"
          BY <2>0, <4>2 DEF StartInv, Starting, Untouched
        <5> QED BY <4>1, <5>1
      <4>3. CASE caller[c].sid # 0
        <5>1. \E s \in saved' : s.job = j
          BY <2>0, <2>1, <4>1, <4>3 DEF HoldsRow, RowHeld
        <5> QED BY <5>1 DEF Carried
      <4>4. CASE caller[c].pc = "sent"
        BY <2>0, <2>1, <4>1, <4>4 DEF MessageWaits, Carried, Leads
      <4>5. caller[c].pc \in {"mark", "sent"}
        BY <2>1 DEF TypeInv, TypeOK, CallerStates
      <4> QED BY <4>2, <4>3, <4>4, <4>5
    <3> QED BY <1>5, <3>1, <3>2, <3>3, <3>4 DEF CallerNext
  <2> QED BY <1>1, <2>0, <2>1, <2>2, <2>3, <2>4
<1>6. ASSUME NEW w \in Workers, NEW m \in messages, Receive(w, m) PROVE RowsCarried'
  <2>1. /\ UNCHANGED <<queue, saved, caller, dropped>> /\ messages' = messages \ {m}
        /\ worker[w].pc = "idle"
        /\ worker'[w].job = m.job /\ worker'[w].pc \in {"mark", "error"}
        /\ \A v \in Workers \ {w} : worker'[v] = worker[v]
    BY <1>6 DEF Receive, TypeInv, TypeOK
  <2> QED BY <2>1 DEF RowsCarried, Carried, Leads
<1>7. ASSUME NEW w \in Workers, WorkerDropped(w) \/ HandleError(w) \/ Finish(w)
      PROVE RowsCarried'
  <2>0. PICK j \in Jobs : j = worker[w].job
    BY DEF TypeInv, TypeOK, WorkerStates
  <2>1. /\ UNCHANGED <<messages, caller, dropped>> /\ DeleteRow(j)
        /\ \A v \in Workers \ {w} : worker'[v] = worker[v]
    BY <1>7, <2>0 DEF WorkerDropped, HandleError, Finish, TypeInv, TypeOK
  <2> QED BY <1>1, <2>0, <2>1 DEF DeleteRow, TypeInv, TypeOK
<1>8. ASSUME NEW w \in Workers,
             WorkerConflicts(w) \/ MarkProgress(w) \/ RunPhase(w) \/ PhaseRaises(w)
      PROVE RowsCarried'
  <2>0. PICK j \in Jobs : j = worker[w].job
    BY DEF TypeInv, TypeOK, WorkerStates
  <2>1. /\ UNCHANGED <<messages, caller, saved, dropped>>
        /\ \A v \in Workers \ {w} : worker'[v] = worker[v]
        /\ \A i \in Jobs \ {j} : queue'[i] = queue[i]
    BY <1>8, <2>0 DEF WorkerConflicts, MarkProgress, RunPhase, PhaseRaises, TypeInv, TypeOK
  <2>2. worker'[w].job = worker[w].job /\ worker'[w].pc \notin {"idle", "send", "undo"}
    <3>1. After(worker[w].pos + 1) \in {"save", "run"}
      BY DEF After
    <3>2. CASE RunPhase(w)
      BY <3>1, <3>2 DEF RunPhase, TypeInv, TypeOK, WorkerStates
    <3>3. CASE WorkerConflicts(w)
      BY <3>3 DEF WorkerConflicts, Marking, TypeInv, TypeOK, WorkerStates
    <3>4. CASE MarkProgress(w) \/ PhaseRaises(w)
      BY <3>4 DEF MarkProgress, PhaseRaises, TypeInv, TypeOK, WorkerStates
    <3> QED BY <1>8, <3>2, <3>3, <3>4
  <2> QED BY <1>1, <2>0, <2>1, <2>2 DEF Carried, Leads
<1>9. ASSUME NEW w \in Workers, SaveEnviron(w) PROVE RowsCarried'
  <2>0. PICK j \in Jobs : j = worker[w].job
    BY DEF TypeInv, TypeOK, WorkerStates
  <2>1. /\ UNCHANGED <<messages, caller, dropped>> /\ saved \subseteq saved'
        /\ \A v \in Workers \ {w} : worker'[v] = worker[v]
        /\ \A i \in Jobs \ {j} : queue'[i] = queue[i]
    BY <1>9, <2>0 DEF SaveEnviron, TypeInv, TypeOK
  <2>2. \E s \in saved' : s.job = j
    <3>1. PICK n : n = [id |-> nextId, job |-> j, pos |-> worker[w].pos]
      OBVIOUS
    <3>2. n.job = j
      BY <3>1
    <3>3. n \in saved' \/ \E s \in saved' : s.job = j
      BY <1>9, <2>0, <2>1, <3>1 DEF SaveEnviron
    <3> QED BY <3>2, <3>3
  <2> QED BY <1>1, <2>0, <2>1, <2>2 DEF Carried
<1>10. ASSUME NEW w \in Workers, SendRequest(w) \/ SendRaises(w, TRUE) \/ SendRaises(w, FALSE)
       PROVE RowsCarried'
  BY <1>2, <1>10 DEF SendRequest, SendRaises, TypeInv, TypeOK
<1>11. ASSUME NEW w \in Workers, UndoSave(w) PROVE RowsCarried'
  <2>0. PICK j \in Jobs : j = worker[w].job
    BY DEF TypeInv, TypeOK, WorkerStates
  <2>1. /\ UNCHANGED <<messages, caller, queue>> /\ dropped \subseteq dropped'
        /\ \A v \in Workers \ {w} : worker'[v] = worker[v]
        /\ worker[w].pc = "undo"
        /\ \A s \in saved : s \in saved' \/ (s.job = j /\ s.id = worker[w].sid)
    BY <1>11, <2>0 DEF UndoSave, TypeInv, TypeOK, WorkerStates, IdInv
  <2>2. CASE KeepsHandlers(worker[w].pos)
    <3>1. worker'[w].job = j /\ worker'[w].pc = "error"
      BY <1>11, <2>0, <2>2 DEF UndoSave, TypeInv, TypeOK, WorkerStates
    <3> QED BY <1>1, <2>0, <2>1, <3>1 DEF Carried, Leads
  <2>3. CASE ~KeepsHandlers(worker[w].pos)
    <3>1. ~Leads(w) /\ \A s \in saved : s \in saved' \/ j \in dropped'
      BY <1>11, <2>1, <2>3 DEF UndoSave, Leads
    <3>2. queue[j] \notin {"absent", "CANCELLED"} => (Carried(j) \/ j \in dropped)'
      BY <2>1, <3>1 DEF RowsCarried, Carried, Leads
    <3> QED BY <1>1, <2>0, <2>1, <3>2
  <2> QED BY <2>2, <2>3
<1>12. ASSUME NEW j \in Jobs, AdminNext(j) PROVE RowsCarried'
  <2>1. CASE LoadForCancel(j)
    BY <1>2, <2>1 DEF LoadForCancel
  <2>2. CASE SaveCancelled(j)
    BY <1>1, <2>2 DEF SaveCancelled, TypeInv, TypeOK
  <2>3. CASE DeleteSelected(j)
    BY <1>1, <2>3 DEF DeleteSelected, DeleteRow, TypeInv, TypeOK
  <2> QED BY <1>12, <2>1, <2>2, <2>3 DEF AdminNext
<1>13. CASE UNCHANGED vars
  BY <1>2, <1>13 DEF vars
<1> QED BY <1>3, <1>4, <1>5, <1>6, <1>7, <1>8, <1>9, <1>10, <1>11, <1>12, <1>13
        DEF Next, WorkerNext, Quiet

\* What has crashed stays so.
LEMMA CrashedStays ==
  TypeInv /\ [Next]_vars /\ ~Crashed' => ~Crashed /\ \A w \in Workers : ~Crash(w)
<1> SUFFICES ASSUME TypeInv, [Next]_vars
             PROVE  /\ Crashed => Crashed'
                    /\ \A w \in Workers : Crash(w) => Crashed'
  OBVIOUS
<1>1. ASSUME NEW kind, Disturb(kind) PROVE Crashed => Crashed'
  BY <1>1 DEF Disturb, Crashed, TypeInv, TypeOK
<1>2. UNCHANGED spent \/ \E kind \in Disturbances : Disturb(kind)
  BY DEF Next, vars, CallerNext, WorkerNext, AdminNext, Quiet, Begin, Deliver,
     CallerDropped, CallerSends, Commit, Rollback, Receive, WorkerDropped,
     WorkerConflicts, MarkProgress, RunPhase, PhaseRaises, SaveEnviron, SendRequest,
     SendRaises, UndoSave, HandleError, Finish, Crash, LoadForCancel, SaveCancelled,
     DeleteSelected, Disturb
<1>3. ASSUME NEW w \in Workers, Crash(w) PROVE Crashed'
  <2>1. /\ "crash" \in Disturbances /\ spent["crash"] \in Nat
        /\ spent'["crash"] = spent["crash"] + 1
    BY <1>3 DEF Crash, Disturb, TypeInv, TypeOK
  <2> QED BY <2>1 DEF Crashed
<1> QED BY <1>1, <1>2, <1>3 DEF Crashed

StrandInv == ~Crashed => AllAwaited /\ MessageWaits /\ RowsCarried

\* Unless a worker dies, no row waits for nobody, except that of a job whose
\* transfer raised without error handlers, and no parked environ for an answer
\* that never comes, whatever is cancelled, deleted, rolled back, raised or
\* delivered twice.
THEOREM StrandsNothing == Spec => []NothingStranded
<1>1. Init => StartInv /\ Answered /\ StrandInv
  BY DEF Init, StartInv, Starting, Untouched, Answered, StrandInv, AllAwaited,
         MessageWaits, RowsCarried, IdleWorker, IdleCaller
<1>2. TypeInv /\ HoldsRow /\ Answered /\ [Next]_vars => Answered'
  BY AnsweredStep
<1>3. TypeInv /\ IdInv /\ HoldsRow /\ StartInv /\ Answered /\ StrandInv /\ [Next]_vars
      => StrandInv'
  BY CrashedStays, AwaitedStep, MessageWaitsStep, RowsCarriedStep DEF StrandInv
<1>4. StrandInv => NothingStranded
  BY DEF StrandInv, NothingStranded, AllAwaited, RowsCarried, Carried, Active, Leads
<1> QED BY <1>1, <1>2, <1>3, <1>4, NothingAtFirst, TypeInvStep, IdInvStep, HoldsRowStep,
           StartInvStep, PTL DEF Spec
=============================================================================
