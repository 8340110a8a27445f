----------------------------- MODULE Prizes_proofs -----------------------------
(***************************************************************************)
(* Proofs about Prizes: a prize-giving has awards in SUCCESS only, each of *)
(* them given once; one that has a date is never left NOT_SCHEDULED, and a *)
(* task of its version waits for it, at its date.  For any number of       *)
(* requests and workers, any clock and any number of versions.             *)
(***************************************************************************)
EXTENDS Prizes, FiniteSetTheorems, TLAPS

\* Requests are serialised from their UPDATE of the contest on, and no worker
\* distributes while a request has the row.
Serialised ==
    /\ \A r, s \in Requests : Saving(r) /\ Saving(s) => r = s
    /\ \A r \in Requests : request[r].locked => \A w \in Workers : worker[w].pc # "distribute"

\* How far a request can be with which object: one that has not locked the row
\* is a redo, and the row is left NOT_SCHEDULED only when it has no date.
Flow(q) ==
    /\ q.pc \in {"idle", "redo", "edit"} => ~q.locked /\ ~q.scheduling /\ q.new = {}
    /\ q.pc \in {"delete", "deleting"} => q.obj.state # "SUCCESS"
    /\ q.pc \in {"delete", "deleting", "write"} /\ ~q.locked
            => q.obj.state = "NOT_SCHEDULED" /\ q.obj.date # 0 /\ ~q.scheduling
    /\ q.pc = "schedule" => q.obj.state = "NOT_SCHEDULED" /\ q.obj.date # 0
    /\ q.pc \in {"schedule", "send", "commit"} => q.locked
    /\ q.pc = "schedule" => ~q.scheduling /\ q.new = {}
    /\ q.pc # "schedule" /\ q.scheduling => q.obj.state # "NOT_SCHEDULED"
    /\ q.pc = "send" => q.obj.state = "SCHEDULED"
    /\ q.pc = "commit" /\ q.obj.state = "NOT_SCHEDULED" => q.obj.date = 0
    /\ q.new # {} => q.obj.state = "SUCCESS"

\* A request that has the row has found, and then deleted, all of its awards.
Deletes(q, as) ==
    /\ q.locked /\ q.pc = "deleting" => as \subseteq q.seen \cup q.gone
    /\ q.locked /\ q.pc \in {"write", "send", "commit"} /\ q.obj.state # "SUCCESS"
            => as \subseteq q.gone

Flows == \A r \in Requests : Flow(request[r]) /\ Deletes(request[r], awards)

IInv == TypeOK /\ Serialised /\ Flows /\ AwardsOnlyInSuccess /\ DatedIsScheduled

-----------------------------------------------------------------------------
(* Types *)

LEMMA OutdatedType ==
    ASSUME TypeOK
    PROVE  /\ Outdated \in [Requests -> RequestStates]
           /\ \A r \in Requests :
                /\ Outdated[r].pc = request[r].pc
                /\ Outdated[r].obj = request[r].obj
                /\ Outdated[r].scheduling = request[r].scheduling
                /\ Outdated[r].locked = request[r].locked
                /\ Outdated[r].seen = request[r].seen
                /\ Outdated[r].gone = request[r].gone
                /\ Outdated[r].new = request[r].new
<1>1. ASSUME NEW r \in Requests PROVE request[r] \in RequestStates
  BY DEF TypeOK
<1>2. ASSUME NEW r \in Requests, NEW b \in BOOLEAN
      PROVE  LET q == [request[r] EXCEPT !.stale = b]
             IN  /\ q \in RequestStates
                 /\ q.pc = request[r].pc /\ q.obj = request[r].obj
                 /\ q.scheduling = request[r].scheduling /\ q.locked = request[r].locked
                 /\ q.seen = request[r].seen /\ q.gone = request[r].gone
                 /\ q.new = request[r].new
  BY <1>1 DEF RequestStates
<1> DEFINE b(r) == request[r].stale \/ request[r].pc \in {"edit", "delete", "deleting", "write"}
<1>3. ASSUME NEW r \in Requests PROVE b(r) \in BOOLEAN
  OBVIOUS
<1>4. Outdated = [r \in Requests |-> [request[r] EXCEPT !.stale = b(r)]]
  BY DEF Outdated
<1> HIDE DEF b
<1> QED BY <1>2, <1>3, <1>4

LEMMA IdleTypes == /\ IdleRequest \in RequestStates
                   /\ IdleWorker \in WorkerStates
                   /\ NewPrizeGiving \in PrizeGivings
BY PrizesAssumption DEF IdleRequest, IdleWorker, NewPrizeGiving, RequestStates, WorkerStates,
                        PrizeGivings, Dates

LEMMA InitType == Init => TypeOK
BY IdleTypes, PrizesAssumption DEF Init, TypeOK

LEMMA RequestType ==
    ASSUME TypeOK, NEW r \in Requests, RequestNext(r)
    PROVE  TypeOK'
<1> USE PrizesAssumption
<1> /\ request[r] \in RequestStates /\ request[r].obj \in PrizeGivings
    /\ now \in Dates /\ 0 \in Dates /\ versions \in Nat /\ Fresh \in Nat
  BY DEF TypeOK, RequestStates, Dates, Fresh
<1>1. CASE Redo(r)
  BY <1>1, IdleTypes DEF Redo, Becomes, TypeOK, RequestStates, IdleRequest
<1>2. CASE ForceReset(r)
  BY <1>2 DEF ForceReset, Becomes, TypeOK, RequestStates, PrizeGivings, TakeVersion, SaveFrom
<1>3. ASSUME NEW date \in Dates, Edit(r, date) PROVE TypeOK'
  BY <1>3, IdleTypes DEF Edit, Becomes, TypeOK, RequestStates, IdleRequest, PrizeGivings
<1>4. CASE CheckValid(r)
  BY <1>4 DEF CheckValid, Becomes, TypeOK, RequestStates, SaveFrom
<1>5. CASE CheckInvalid(r)
  BY <1>5 DEF CheckInvalid, Becomes, TypeOK, RequestStates, PrizeGivings, TakeVersion, SaveFrom
<1>6. CASE FindAwards(r)
  BY <1>6 DEF FindAwards, Becomes, TypeOK, RequestStates
<1>7. CASE DeleteAwards(r)
  BY <1>7 DEF DeleteAwards, Becomes, TypeOK, RequestStates
<1>8. CASE Write(r)
  BY <1>8 DEF Write, Becomes, TypeOK, RequestStates, AfterWrite
<1>9. CASE Delegate(r)
  BY <1>9 DEF Delegate, Becomes, TypeOK, RequestStates, PrizeGivings, TakeVersion, SaveFrom
<1>10. CASE SendTask(r)
  BY <1>10 DEF SendTask, Becomes, TypeOK, RequestStates, PrizeGivings
<1>11. CASE DistributeInPlace(r)
  <2>1. [state |-> "SUCCESS", date |-> now, version |-> Fresh] \in PrizeGivings
    BY DEF PrizeGivings
  <2>2. {Fresh} \in SUBSET Nat
    OBVIOUS
  <2>3. request' \in [Requests -> RequestStates]
    BY <1>11, <2>1, <2>2 DEF DistributeInPlace, Becomes, TypeOK, RequestStates, SaveFrom
  <2> QED BY <1>11, <2>3 DEF DistributeInPlace, TypeOK, TakeVersion
<1>12. CASE FailInPlace(r)
  BY <1>12 DEF FailInPlace, Becomes, TypeOK, RequestStates, PrizeGivings, TakeVersion, SaveFrom
<1>13. CASE Commit(r)
  BY <1>13, OutdatedType, IdleTypes DEF Commit, TypeOK, RequestStates
<1>14. CASE Rollback(r)
  BY <1>14, IdleTypes DEF Rollback, Becomes, TypeOK
<1> QED BY <1>1, <1>2, <1>3, <1>4, <1>5, <1>6, <1>7, <1>8, <1>9, <1>10, <1>11, <1>12, <1>13,
           <1>14 DEF RequestNext

LEMMA WorkerType ==
    ASSUME TypeOK, NEW w \in Workers, WorkerNext(w)
    PROVE  TypeOK'
<1> USE PrizesAssumption
<1> /\ worker[w] \in WorkerStates /\ 0 \in Dates /\ versions \in Nat /\ Fresh \in Nat
    /\ IdleWorker \in WorkerStates
  BY IdleTypes DEF TypeOK, Dates, Fresh
<1>1. ASSUME NEW t \in tasks, Receive(w, t) PROVE TypeOK'
  BY <1>1 DEF Receive, TypeOK, WorkerStates
<1>2. CASE SkipTask(w)
  BY <1>2 DEF SkipTask, TypeOK
<1>3. CASE LockRow(w)
  BY <1>3 DEF LockRow, TypeOK, WorkerStates
<1>4. CASE Distribute(w)
  BY <1>4, OutdatedType DEF Distribute, TypeOK, PrizeGivings, TakeVersion
<1>5. CASE FailDistribution(w)
  BY <1>5, OutdatedType DEF FailDistribution, TypeOK, PrizeGivings, TakeVersion
<1>6. CASE WorkerRaises(w)
  BY <1>6 DEF WorkerRaises, TypeOK
<1> QED BY <1>1, <1>2, <1>3, <1>4, <1>5, <1>6 DEF WorkerNext

\* Every variable keeps to its type, in any execution.
THEOREM TypeCorrect == Spec => []TypeOK
<1>1. TypeOK /\ [Next]_vars => TypeOK'
  <2> SUFFICES ASSUME TypeOK, [Next]_vars PROVE TypeOK'
    OBVIOUS
  <2>1. CASE Tick
    BY <2>1, PrizesAssumption DEF Tick, TypeOK
  <2>2. CASE UNCHANGED vars
    BY <2>2 DEF vars, TypeOK
  <2> QED BY <2>1, <2>2, RequestType, WorkerType DEF Next
<1> QED BY <1>1, InitType, PTL DEF Spec

-----------------------------------------------------------------------------
(* The inductive invariant *)

\* A step that changes one request and nothing another process reads.
LEMMA LocalStep ==
    ASSUME IInv, NEW r \in Requests,
           UNCHANGED <<row, awards, worker>>,
           \A s \in Requests \ {r} : request'[s] = request[s],
           Flow(request'[r]), Deletes(request'[r], awards),
           Saving(r)' => Saving(r) \/ ContestFree,
           request'[r].locked => \A w \in Workers : worker[w].pc # "distribute"
    PROVE  Serialised' /\ Flows' /\ AwardsOnlyInSuccess' /\ DatedIsScheduled'
<1>1. Serialised'
  <2>1. ASSUME NEW s \in Requests, NEW t \in Requests, Saving(s)', Saving(t)' PROVE s = t
    <3>1. \A u \in Requests \ {r} : Saving(u)' => Saving(u)
      BY DEF Saving
    <3> QED BY <2>1, <3>1 DEF ContestFree, IInv, Serialised
  <2>2. ASSUME NEW s \in Requests, request'[s].locked
        PROVE  \A w \in Workers : worker'[w].pc # "distribute"
    BY <2>2 DEF IInv, Serialised
  <2> QED BY <2>1, <2>2 DEF Serialised
<1>2. Flows'
  <2> SUFFICES ASSUME NEW s \in Requests PROVE Flow(request'[s]) /\ Deletes(request'[s], awards')
    BY DEF Flows
  <2>1. CASE s = r
    BY <2>1
  <2>2. CASE s # r
    BY <2>2 DEF IInv, Flows
  <2> QED BY <2>1, <2>2
<1>3. AwardsOnlyInSuccess' /\ DatedIsScheduled'
  BY DEF IInv, AwardsOnlyInSuccess, DatedIsScheduled
<1> QED BY <1>1, <1>2, <1>3

\* What a request may do by itself: one step per action.
LEMMA RequestStep ==
    ASSUME IInv, NEW r \in Requests, RequestNext(r), ~Commit(r)
    PROVE  Serialised' /\ Flows' /\ AwardsOnlyInSuccess' /\ DatedIsScheduled'
<1> DEFINE Local(q) ==
      /\ UNCHANGED <<row, awards, worker>>
      /\ \A s \in Requests \ {r} : request'[s] = request[s]
      /\ request'[r] = q
      /\ Flow(q)
      /\ Deletes(q, awards)
      /\ q.pc \notin {"idle", "redo", "edit"} => Saving(r) \/ ContestFree
      /\ q.locked => \A w \in Workers : worker[w].pc # "distribute"
<1>0. ASSUME NEW q, Local(q)
      PROVE  Serialised' /\ Flows' /\ AwardsOnlyInSuccess' /\ DatedIsScheduled'
  BY <1>0, LocalStep DEF Saving
<1> DEFINE q == request[r]
<1>t. /\ q \in RequestStates /\ q.obj \in PrizeGivings /\ now # 0
      /\ request \in [Requests -> RequestStates] /\ awards \in SUBSET Nat
  BY PrizesAssumption DEF IInv, TypeOK, RequestStates
<1>f. Flow(q) /\ Deletes(q, awards)
  BY DEF IInv, Flows
<1>l. q.locked => \A w \in Workers : worker[w].pc # "distribute"
  BY DEF IInv, Serialised
<1>1. CASE Redo(r)
  <2> Local([IdleRequest EXCEPT !.pc = "redo"])
    BY <1>1, <1>t DEF Redo, Becomes, Flow, Deletes, IdleRequest
  <2> QED BY <1>0
<1>2. CASE ForceReset(r)
  <2> Local([q EXCEPT !.pc = SaveFrom("NOT_SCHEDULED"),
                      !.obj = [state |-> "NOT_SCHEDULED", date |-> now, version |-> Fresh]])
    BY <1>2, <1>t, <1>f DEF ForceReset, Becomes, Flow, Deletes, RequestStates, SaveFrom
  <2> QED BY <1>0
<1>3. ASSUME NEW date \in Dates, Edit(r, date)
      PROVE  Serialised' /\ Flows' /\ AwardsOnlyInSuccess' /\ DatedIsScheduled'
  <2> Local([IdleRequest EXCEPT !.pc = "edit", !.obj = [row EXCEPT !.date = date]])
    BY <1>3, <1>t DEF Edit, Becomes, Flow, Deletes, IdleRequest
  <2> QED BY <1>0
<1>4. CASE CheckValid(r)
  <2> Local([q EXCEPT !.pc = SaveFrom(q.obj.state), !.locked = TRUE])
    BY <1>4, <1>t, <1>f DEF CheckValid, RowFree, Becomes, Flow, Deletes, RequestStates, SaveFrom
  <2> QED BY <1>0
<1>5. CASE CheckInvalid(r)
  <2> Local([q EXCEPT !.pc = SaveFrom("NOT_SCHEDULED"), !.locked = TRUE,
                      !.obj = [@ EXCEPT !.state = "NOT_SCHEDULED", !.version = Fresh]])
    BY <1>5, <1>t, <1>f DEF CheckInvalid, RowFree, Becomes, Flow, Deletes, RequestStates,
                            PrizeGivings, SaveFrom
  <2> QED BY <1>0
<1>6. CASE FindAwards(r)
  <2> Local([q EXCEPT !.pc = "deleting", !.seen = awards \ q.gone])
    BY <1>6, <1>t, <1>f, <1>l DEF FindAwards, Becomes, Flow, Deletes, RequestStates, Saving
  <2> QED BY <1>0
<1>7. CASE DeleteAwards(r)
  <2> Local([q EXCEPT !.pc = "write", !.seen = {}, !.gone = @ \cup (q.seen \cap awards)])
    BY <1>7, <1>t, <1>f, <1>l DEF DeleteAwards, Becomes, Flow, Deletes, RequestStates, Saving
  <2> QED BY <1>0
<1>8. CASE Write(r)
  <2> Local([q EXCEPT !.pc = AfterWrite(q), !.locked = TRUE, !.stale = FALSE])
    BY <1>8, <1>t, <1>f, <1>l DEF Write, RowFreeFor, RowFree, Becomes, Flow, Deletes,
                                  RequestStates, Saving, AfterWrite
  <2> QED BY <1>0
<1>9. CASE Delegate(r)
  <2> Local([q EXCEPT !.pc = SaveFrom("SCHEDULED"), !.scheduling = TRUE,
                      !.obj = [@ EXCEPT !.state = "SCHEDULED", !.version = Fresh]])
    BY <1>9, <1>t, <1>f, <1>l DEF Delegate, Becomes, Flow, Deletes, RequestStates, PrizeGivings,
                                  Saving, SaveFrom
  <2> QED BY <1>0
<1>10. CASE SendTask(r)
  <2> Local([q EXCEPT !.pc = "commit"])
    BY <1>10, <1>t, <1>f, <1>l DEF SendTask, Becomes, Flow, Deletes, RequestStates, Saving
  <2> QED BY <1>0
<1>11. CASE DistributeInPlace(r)
  <2> Local([q EXCEPT !.pc = SaveFrom("SUCCESS"), !.scheduling = TRUE, !.new = {Fresh},
                      !.obj = [state |-> "SUCCESS", date |-> now, version |-> Fresh]])
    BY <1>11, <1>t, <1>f, <1>l DEF DistributeInPlace, Becomes, Flow, Deletes, RequestStates,
                                   Saving, SaveFrom
  <2> QED BY <1>0
<1>12. CASE FailInPlace(r)
  <2> Local([q EXCEPT !.pc = SaveFrom("FAILURE"), !.scheduling = TRUE,
                      !.obj = [state |-> "FAILURE", date |-> 0, version |-> Fresh]])
    BY <1>12, <1>t, <1>f, <1>l DEF FailInPlace, Becomes, Flow, Deletes, RequestStates,
                                   Saving, SaveFrom
  <2> QED BY <1>0
<1>13. CASE Rollback(r)
  <2> Local(IdleRequest)
    BY <1>13, <1>t DEF Rollback, Becomes, Flow, Deletes, IdleRequest
  <2> QED BY <1>0
<1> QED BY <1>1, <1>2, <1>3, <1>4, <1>5, <1>6, <1>7, <1>8, <1>9, <1>10, <1>11, <1>12,
           <1>13 DEF RequestNext

\* A request that commits leaves the awards of its own distribution or none,
\* and nobody else has the row.
LEMMA CommitStep ==
    ASSUME IInv, NEW r \in Requests, Commit(r)
    PROVE  Serialised' /\ Flows' /\ AwardsOnlyInSuccess' /\ DatedIsScheduled'
<1> DEFINE q == request[r]
<1>t. /\ q \in RequestStates /\ request \in [Requests -> RequestStates]
      /\ awards \in SUBSET Nat
  BY DEF IInv, TypeOK
<1>f. Flow(q) /\ Deletes(q, awards)
  BY DEF IInv, Flows
<1>c. /\ q.pc = "commit" /\ row' = q.obj /\ awards' = (awards \ q.gone) \cup q.new
      /\ worker' = worker
  BY DEF Commit
<1>o. \A s \in Requests \ {r} : request'[s] = Outdated[s]
  BY <1>t DEF Commit, Outdated
<1>i. request'[r] = IdleRequest
  BY <1>t DEF Commit, Outdated
<1>1. Serialised'
  BY <1>c, <1>o, <1>i, OutdatedType DEF IInv, Serialised, Saving, IdleRequest
<1>2. Flows'
  <2> SUFFICES ASSUME NEW s \in Requests PROVE Flow(request'[s]) /\ Deletes(request'[s], awards')
    BY DEF Flows
  <2>1. CASE s = r
    BY <2>1, <1>i DEF Flow, Deletes, IdleRequest
  <2>2. CASE s # r
    <3>1. ~Saving(s)
      BY <2>2, <1>c DEF IInv, Serialised, Saving
    <3>2. Flow(request[s]) /\ ~request[s].locked
      BY <3>1 DEF IInv, Flows, Flow, Saving
    <3> QED BY <2>2, <3>2, <1>o, OutdatedType DEF IInv, Flow, Deletes
  <2> QED BY <2>1, <2>2
<1>3. AwardsOnlyInSuccess' /\ DatedIsScheduled'
  BY <1>c, <1>f DEF Flow, Deletes, AwardsOnlyInSuccess, DatedIsScheduled
<1> QED BY <1>1, <1>2, <1>3

\* A worker distributes while no request has the row.
LEMMA WorkerStep ==
    ASSUME IInv, NEW w \in Workers, WorkerNext(w)
    PROVE  Serialised' /\ Flows' /\ AwardsOnlyInSuccess' /\ DatedIsScheduled'
<1>t. /\ worker \in [Workers -> WorkerStates] /\ request \in [Requests -> RequestStates]
      /\ row \in PrizeGivings
  BY DEF IInv, TypeOK
<1>1. ASSUME UNCHANGED <<row, awards, request>>,
             \A v \in Workers : worker'[v].pc = "distribute" =>
                worker[v].pc = "distribute" \/ \A r \in Requests : ~request[r].locked
      PROVE  Serialised' /\ Flows' /\ AwardsOnlyInSuccess' /\ DatedIsScheduled'
  BY <1>1 DEF IInv, Serialised, Saving, Flows, AwardsOnlyInSuccess, DatedIsScheduled
<1>2. ASSUME worker[w].pc = "distribute", request' = Outdated,
             worker' = [worker EXCEPT ![w] = IdleWorker]
      PROVE  Serialised' /\ Flows'
  <2>1. \A r \in Requests : ~request[r].locked
    BY <1>2 DEF IInv, Serialised
  <2>2. Serialised'
    BY <1>2, <2>1, OutdatedType DEF IInv, Serialised, Saving
  <2>3. Flows'
    BY <1>2, <2>1, OutdatedType DEF IInv, Flows, Flow, Deletes
  <2> QED BY <2>2, <2>3
<1>3. ASSUME NEW t \in tasks, Receive(w, t)
      PROVE  Serialised' /\ Flows' /\ AwardsOnlyInSuccess' /\ DatedIsScheduled'
  BY <1>1, <1>3, <1>t DEF Receive, WorkerStates
<1>4. CASE SkipTask(w)
  BY <1>1, <1>4, <1>t DEF SkipTask, WorkerStates, IdleWorker
<1>5. CASE LockRow(w)
  BY <1>1, <1>5, <1>t DEF LockRow, WorkerStates, RowFree
<1>6. CASE Distribute(w)
  <2>1. Serialised' /\ Flows'
    BY <1>2, <1>6 DEF Distribute
  <2>2. row'.state = "SUCCESS"
    BY <1>6, <1>t DEF Distribute, PrizeGivings
  <2> QED BY <2>1, <2>2 DEF AwardsOnlyInSuccess, DatedIsScheduled
<1>7. CASE FailDistribution(w)
  <2>1. Serialised' /\ Flows'
    BY <1>2, <1>7 DEF FailDistribution
  <2> QED BY <2>1, <1>7 DEF FailDistribution, AwardsOnlyInSuccess, DatedIsScheduled
<1>8. CASE WorkerRaises(w)
  BY <1>1, <1>8, <1>t DEF WorkerRaises, WorkerStates, IdleWorker
<1> QED BY <1>3, <1>4, <1>5, <1>6, <1>7, <1>8 DEF WorkerNext

LEMMA InitInv == Init => IInv
<1> SUFFICES ASSUME Init PROVE IInv
  OBVIOUS
<1>1. TypeOK
  BY InitType
<1>2. /\ \A r \in Requests : request[r] = IdleRequest
      /\ \A w \in Workers : worker[w] = IdleWorker
      /\ awards = {} /\ row.date = 0
  BY DEF Init, NewPrizeGiving
<1> QED BY <1>1, <1>2 DEF IInv, Serialised, Flows, Flow, Deletes, Saving, AwardsOnlyInSuccess,
                          DatedIsScheduled, IdleRequest, IdleWorker

LEMMA StepInv == IInv /\ [Next]_vars => IInv'
<1> SUFFICES ASSUME IInv, [Next]_vars PROVE IInv'
  OBVIOUS
<1>1. CASE Tick
  <2>1. TypeOK'
    BY <1>1, PrizesAssumption DEF Tick, TypeOK, IInv
  <2> QED BY <1>1, <2>1 DEF Tick, IInv, Serialised, Flows, Saving, AwardsOnlyInSuccess,
                            DatedIsScheduled
<1>2. ASSUME NEW r \in Requests, RequestNext(r) PROVE IInv'
  BY <1>2, RequestType, RequestStep, CommitStep DEF IInv
<1>3. ASSUME NEW w \in Workers, WorkerNext(w) PROVE IInv'
  BY <1>3, WorkerType, WorkerStep DEF IInv
<1>4. CASE UNCHANGED vars
  BY <1>4 DEF vars, IInv, TypeOK, Serialised, Flows, Saving, AwardsOnlyInSuccess,
              DatedIsScheduled
<1> QED BY <1>1, <1>2, <1>3, <1>4 DEF Next

\* Awards exist only while the prize-giving is in SUCCESS, however forms,
\* distributions, failures and rollbacks overlap.
THEOREM AwardsCorrect == Spec => []AwardsOnlyInSuccess
<1>1. IInv => AwardsOnlyInSuccess
  BY DEF IInv
<1> QED BY <1>1, InitInv, StepInv, PTL DEF Spec

\* A prize-giving that has a date is never left NOT_SCHEDULED.
THEOREM ScheduledCorrect == Spec => []DatedIsScheduled
<1>1. IInv => DatedIsScheduled
  BY DEF IInv
<1> QED BY <1>1, InitInv, StepInv, PTL DEF Spec

-----------------------------------------------------------------------------
(* Tasks and their versions *)

\* No task of ahead has the version of a prize-giving other than a SCHEDULED
\* one of its date.
Bound(g, ahead) == \A t \in ahead : t.version = g.version => g.state = "SCHEDULED" /\ t.date = g.date

\* What a request has done with the row g and the awards as, while nothing that
\* it has not locked has changed under it: it deletes all awards that it does
\* not give, keeps the version of a task only with its date, and has sent the
\* task when it commits SCHEDULED.
Tracks(q, g, as, ahead, last, bad) ==
    /\ q.obj.version <= last
    /\ q.scheduling => q.obj.version # g.version
    /\ q.new \subseteq {q.obj.version}
    /\ q.pc = "edit" /\ ~q.stale => q.obj.state = g.state /\ q.obj.version = g.version
    /\ q.pc \in {"schedule", "send", "commit"} => ~q.stale
    /\ q.pc \notin {"idle", "redo", "edit"} /\ ~q.stale /\ "overwritten" \notin bad =>
          /\ Bound(q.obj, ahead)
          /\ q.obj.state = "SCHEDULED" /\ ~q.scheduling => q.obj = g
          /\ q.pc = "deleting" => as \subseteq q.seen \cup q.gone
          /\ q.pc = "write" /\ q.obj.state # "SUCCESS" => as \subseteq q.gone
          /\ q.pc = "schedule" => as \subseteq q.gone
          /\ q.pc \in {"write", "commit"} /\ q.new # {} => as \subseteq q.gone
    /\ q.pc = "commit" /\ q.scheduling /\ q.obj.state = "SCHEDULED" /\ bad = {}
            => [version |-> q.obj.version, date |-> q.obj.date] \in ahead

\* A worker that distributes has the row alone, and in the version of its task.
Distributing ==
    /\ \A w, v \in Workers :
          worker[w].pc = "distribute" /\ worker[v].pc = "distribute" => w = v
    /\ \A w \in Workers : worker[w].pc = "distribute" => row.version = worker[w].version

Numbered == row.version <= versions /\ \A t \in Ahead : t.version <= versions

\* The row and its awards, unless a form was saved over a changed row.
Undisturbed == "overwritten" \notin mishaps =>
    Bound(row, Ahead) /\ \A a, b \in awards : a = b

Tracking ==
    /\ Numbered /\ Distributing /\ ScheduledHasTask /\ Undisturbed
    /\ \A r \in Requests : Tracks(request[r], row, awards, Ahead, versions, mishaps)

LEMMA AheadType == TypeOK => \A t \in Ahead : t.version \in Nat
BY DEF TypeOK, Ahead, WorkerStates

\* What the others of a step do to a request: take versions, lose tasks that it
\* has not sent, have mishaps.
LEMMA TracksKept ==
    ASSUME NEW q \in RequestStates, NEW g, NEW as, NEW A, NEW B \in SUBSET A,
           NEW v \in Nat, NEW w \in Nat, v <= w, NEW bad, NEW worse, bad \subseteq worse,
           Tracks(q, g, as, A, v, bad),
           q.pc = "commit" /\ worse = {} => A \subseteq B
    PROVE  Tracks(q, g, as, B, w, worse)
<1>1. q.obj.version \in Nat
  BY DEF RequestStates, PrizeGivings
<1>2. q.obj.version <= w
  BY <1>1 DEF Tracks
<1>3. Bound(q.obj, A) => Bound(q.obj, B)
  BY DEF Bound
<1>4. worse = {} => bad = {}
  OBVIOUS
<1>5. "overwritten" \notin worse => "overwritten" \notin bad
  OBVIOUS
<1> HIDE DEF Bound
<1> QED BY <1>2, <1>3, <1>4, <1>5 DEF Tracks

LEMMA TrackLocal ==
    ASSUME TypeOK, Tracking, NEW r \in Requests,
           UNCHANGED <<row, awards, tasks, worker>>,
           \A s \in Requests \ {r} : request'[s] = request[s],
           versions' \in {versions, Fresh}, mishaps \subseteq mishaps',
           Tracks(request'[r], row, awards, Ahead, versions', mishaps')
    PROVE  Tracking'
<1>1. Ahead' = Ahead /\ versions \in Nat /\ versions' \in Nat /\ versions <= versions'
  BY DEF Ahead, TypeOK, Fresh
<1>2. Numbered'
  <2>1. row.version \in Nat /\ \A t \in Ahead : t.version \in Nat
    BY AheadType DEF TypeOK, PrizeGivings
  <2> QED BY <1>1, <2>1 DEF Tracking, Numbered
<1>3. Distributing' /\ ScheduledHasTask' /\ Undisturbed'
  BY <1>1 DEF Tracking, Distributing, ScheduledHasTask, Undisturbed
<1>4. ASSUME NEW s \in Requests PROVE Tracks(request'[s], row, awards, Ahead, versions', mishaps')
  <2>1. CASE s = r
    BY <2>1
  <2>2. CASE s # r
    <3>1. Tracks(request[s], row, awards, Ahead, versions, mishaps) /\ request[s] \in RequestStates
      BY DEF Tracking, TypeOK
    <3> QED BY <2>2, <3>1, <1>1, TracksKept
  <2> QED BY <2>1, <2>2
<1> QED BY <1>1, <1>2, <1>3, <1>4 DEF Tracking

\* A version that was just handed out is in no task.
LEMMA FreshUnbound ==
    ASSUME TypeOK, Tracking, NEW g, g.version = Fresh
    PROVE  Bound(g, Ahead) /\ Fresh # row.version /\ Fresh \in Nat
BY AheadType DEF Tracking, Numbered, Bound, TypeOK, PrizeGivings, Fresh

LEMMA RequestTracks ==
    ASSUME IInv, Tracking, NEW r \in Requests, RequestNext(r), ~Commit(r), ~SendTask(r)
    PROVE  Tracking'
<1> DEFINE q == request[r]
           Local(p, last, bad) ==
              /\ UNCHANGED <<row, awards, tasks, worker>>
              /\ \A s \in Requests \ {r} : request'[s] = request[s]
              /\ request'[r] = p
              /\ versions' = last /\ last \in {versions, Fresh}
              /\ mishaps' = bad /\ mishaps \subseteq bad
              /\ Tracks(p, row, awards, Ahead, last, bad)
<1>0. ASSUME NEW p, NEW last, NEW bad, Local(p, last, bad) PROVE Tracking'
  BY <1>0, TrackLocal DEF IInv
<1>t. /\ q \in RequestStates /\ q.obj \in PrizeGivings /\ q.obj.version \in Nat
      /\ row \in PrizeGivings /\ row.version \in Nat /\ versions \in Nat /\ Fresh \in Nat
      /\ request \in [Requests -> RequestStates] /\ awards \in SUBSET Nat
      /\ versions <= Fresh
  BY DEF IInv, TypeOK, RequestStates, PrizeGivings, Fresh
<1>f. Flow(q) /\ Deletes(q, awards) /\ Tracks(q, row, awards, Ahead, versions, mishaps)
  BY DEF IInv, Flows, Tracking
<1>u. \A g : g.version = Fresh => Bound(g, Ahead) /\ Fresh # row.version
  BY FreshUnbound DEF IInv
<1>b. row.version <= versions /\ ("overwritten" \notin mishaps => Bound(row, Ahead))
  BY DEF Tracking, Numbered, Undisturbed
<1>1. CASE Redo(r)
  <2> Local([IdleRequest EXCEPT !.pc = "redo"], versions, mishaps)
    BY <1>1, <1>t DEF Redo, Becomes, Tracks, IdleRequest, NewPrizeGiving
  <2> QED BY <1>0
<1>2. CASE ForceReset(r)
  <2> DEFINE g == [state |-> "NOT_SCHEDULED", date |-> now, version |-> Fresh]
             p == [q EXCEPT !.pc = "delete", !.obj = g]
  <2>1. Bound(g, Ahead) /\ Fresh # row.version
    BY <1>u
  <2>2. q.pc = "redo" /\ request' = [request EXCEPT ![r] = p] /\ versions' = Fresh
        /\ UNCHANGED <<row, awards, tasks, worker, now, mishaps>>
    BY <1>2 DEF ForceReset, Becomes, TakeVersion, SaveFrom
  <2>3. p.pc = "delete" /\ p.obj = g /\ p.scheduling = q.scheduling /\ p.new = q.new
        /\ p.stale = q.stale
    BY <1>t DEF RequestStates
  <2>4. Tracks(p, row, awards, Ahead, Fresh, mishaps)
    <3> HIDE DEF p
    <3> QED BY <2>1, <2>2, <2>3, <1>t, <1>f DEF Tracks, Flow
  <2> Local(p, Fresh, mishaps)
    BY <2>2, <2>4, <1>t
  <2> QED BY <1>0
<1>3. ASSUME NEW date \in Dates, Edit(r, date) PROVE Tracking'
  <2> Local([IdleRequest EXCEPT !.pc = "edit", !.obj = [row EXCEPT !.date = date]], versions, mishaps)
    BY <1>3, <1>t, <1>b DEF Edit, Becomes, Tracks, IdleRequest, PrizeGivings
  <2> QED BY <1>0
<1>4. CASE CheckValid(r)
  <2> DEFINE p == [q EXCEPT !.pc = SaveFrom(q.obj.state), !.locked = TRUE]
  <2>1. q.pc = "edit" /\ ~(row.state = "SCHEDULED" /\ row.date # q.obj.date)
        /\ request' = [request EXCEPT ![r] = p]
        /\ UNCHANGED <<row, awards, tasks, worker, now, versions, mishaps>>
    BY <1>4 DEF CheckValid, TaskInvalid, Becomes
  <2>2. p.pc = SaveFrom(q.obj.state) /\ p.obj = q.obj /\ p.scheduling = q.scheduling
        /\ p.new = q.new /\ p.stale = q.stale
    BY <1>t DEF RequestStates
  <2>3. ~q.stale /\ q.obj.state = "SCHEDULED" => q.obj = row
    BY <2>1, <1>t, <1>f DEF Tracks, PrizeGivings
  <2>4. ~q.stale /\ "overwritten" \notin mishaps => Bound(q.obj, Ahead)
    BY <2>1, <2>3, <1>t, <1>b, <1>f DEF Tracks, Bound
  <2>5. Tracks(p, row, awards, Ahead, versions, mishaps)
    <3> HIDE DEF p
    <3> QED BY <2>1, <2>2, <2>3, <2>4, <1>f DEF Tracks, Flow, SaveFrom
  <2> Local(p, versions, mishaps)
    BY <2>1, <2>5, <1>t
  <2> QED BY <1>0
<1>5. CASE CheckInvalid(r)
  <2> DEFINE g == [q.obj EXCEPT !.state = "NOT_SCHEDULED", !.version = Fresh]
             p == [q EXCEPT !.pc = "delete", !.locked = TRUE, !.obj = g]
  <2>1. Bound(g, Ahead) /\ Fresh # row.version /\ g.version = Fresh /\ g.state = "NOT_SCHEDULED"
    BY <1>u, <1>t DEF PrizeGivings
  <2>2. q.pc = "edit" /\ request' = [request EXCEPT ![r] = p] /\ versions' = Fresh
        /\ UNCHANGED <<row, awards, tasks, worker, now, mishaps>>
    BY <1>5 DEF CheckInvalid, Becomes, TakeVersion, SaveFrom
  <2>3. p.pc = "delete" /\ p.obj = g /\ p.scheduling = q.scheduling /\ p.new = q.new
        /\ p.stale = q.stale
    BY <1>t DEF RequestStates
  <2>4. Tracks(p, row, awards, Ahead, Fresh, mishaps)
    <3> HIDE DEF p, g
    <3> QED BY <2>1, <2>2, <2>3, <1>t, <1>f DEF Tracks, Flow
  <2> Local(p, Fresh, mishaps)
    BY <2>2, <2>4, <1>t
  <2> QED BY <1>0
<1>6. CASE FindAwards(r)
  <2> Local([q EXCEPT !.pc = "deleting", !.seen = awards \ q.gone], versions, mishaps)
    BY <1>6, <1>t, <1>f DEF FindAwards, Becomes, Tracks, RequestStates
  <2> QED BY <1>0
<1>7. CASE DeleteAwards(r)
  <2> DEFINE p == [q EXCEPT !.pc = "write", !.seen = {}, !.gone = @ \cup (q.seen \cap awards)]
  <2>1. q.pc = "deleting" /\ request' = [request EXCEPT ![r] = p]
        /\ UNCHANGED <<row, awards, tasks, worker, now, versions, mishaps>>
    BY <1>7 DEF DeleteAwards, Becomes
  <2>2. p.pc = "write" /\ p.obj = q.obj /\ p.scheduling = q.scheduling /\ p.new = q.new
        /\ p.stale = q.stale /\ p.gone = q.gone \cup (q.seen \cap awards)
    BY <1>t DEF RequestStates
  <2>3. awards \subseteq q.seen \cup q.gone => awards \subseteq p.gone
    BY <2>2
  <2>4. Tracks(p, row, awards, Ahead, versions, mishaps)
    <3> HIDE DEF p
    <3> QED BY <2>1, <2>2, <2>3, <1>f DEF Tracks, Flow
  <2> Local(p, versions, mishaps)
    BY <2>1, <2>4, <1>t
  <2> QED BY <1>0
<1>8. CASE Write(r)
  <2> DEFINE p == [q EXCEPT !.pc = AfterWrite(q), !.locked = TRUE, !.stale = FALSE]
             bad == mishaps \cup (IF q.stale THEN {"overwritten"} ELSE {})
  <2>1. q.pc = "write" /\ request' = [request EXCEPT ![r] = p] /\ mishaps' = bad
        /\ UNCHANGED <<row, awards, tasks, worker, now, versions>>
    BY <1>8 DEF Write, Becomes
  <2>2. p.pc = AfterWrite(q) /\ p.obj = q.obj /\ p.scheduling = q.scheduling /\ p.new = q.new
        /\ p.stale = FALSE /\ p.gone = q.gone
    BY <1>t DEF RequestStates
  <2>3. mishaps \subseteq bad /\ ("overwritten" \notin bad => ~q.stale /\ "overwritten" \notin mishaps)
    OBVIOUS
  <2>4. AfterWrite(q) = "schedule" => ~q.scheduling /\ q.obj.state = "NOT_SCHEDULED"
    BY DEF AfterWrite
  <2>5. AfterWrite(q) = "commit" /\ q.scheduling => q.obj.state # "SCHEDULED"
    BY DEF AfterWrite
  <2>6. AfterWrite(q) \in {"send", "schedule", "commit"}
    BY DEF AfterWrite
  <2>7. Tracks(p, row, awards, Ahead, versions, bad)
    <3> HIDE DEF p, bad
    <3> QED BY <2>1, <2>2, <2>3, <2>4, <2>5, <2>6, <1>f DEF Tracks
  <2>8. mishaps' = bad /\ UNCHANGED <<row, awards, tasks, worker>> /\ versions' = versions
        /\ request'[r] = p /\ \A s \in Requests \ {r} : request'[s] = request[s]
    BY <2>1, <1>t
  <2> Local(p, versions, bad)
    BY <2>3, <2>7, <2>8
  <2> QED BY <1>0
<1>9. CASE Delegate(r)
  <2> DEFINE g == [q.obj EXCEPT !.state = "SCHEDULED", !.version = Fresh]
             p == [q EXCEPT !.pc = "delete", !.scheduling = TRUE, !.obj = g]
  <2>1. Bound(g, Ahead) /\ Fresh # row.version /\ g.version = Fresh
    BY <1>u, <1>t DEF PrizeGivings
  <2>2. q.pc = "schedule" /\ request' = [request EXCEPT ![r] = p] /\ versions' = Fresh
        /\ UNCHANGED <<row, awards, tasks, worker, now, mishaps>>
    BY <1>9 DEF Delegate, Becomes, TakeVersion, SaveFrom
  <2>3. p.pc = "delete" /\ p.obj = g /\ p.scheduling = TRUE /\ p.new = q.new
        /\ p.stale = q.stale
    BY <1>t DEF RequestStates
  <2>4. Tracks(p, row, awards, Ahead, Fresh, mishaps)
    <3> HIDE DEF p, g
    <3> QED BY <2>1, <2>2, <2>3, <1>t, <1>f DEF Tracks, Flow
  <2> Local(p, Fresh, mishaps)
    BY <2>2, <2>4, <1>t
  <2> QED BY <1>0
<1>10. CASE DistributeInPlace(r)
  <2> DEFINE g == [state |-> "SUCCESS", date |-> now, version |-> Fresh]
             p == [q EXCEPT !.pc = "write", !.scheduling = TRUE, !.new = {Fresh}, !.obj = g]
  <2>1. Bound(g, Ahead) /\ Fresh # row.version
    BY <1>u
  <2>2. q.pc = "schedule" /\ request' = [request EXCEPT ![r] = p] /\ versions' = Fresh
        /\ UNCHANGED <<row, awards, tasks, worker, now, mishaps>>
    BY <1>10 DEF DistributeInPlace, Becomes, TakeVersion, SaveFrom
  <2>3. p.pc = "write" /\ p.obj = g /\ p.scheduling = TRUE /\ p.new = {Fresh}
        /\ p.stale = q.stale /\ p.gone = q.gone
    BY <1>t DEF RequestStates
  <2>4. Tracks(p, row, awards, Ahead, Fresh, mishaps)
    <3> HIDE DEF p
    <3> QED BY <2>1, <2>2, <2>3, <1>t, <1>f DEF Tracks, Flow
  <2> Local(p, Fresh, mishaps)
    BY <2>2, <2>4, <1>t
  <2> QED BY <1>0
<1>11. CASE FailInPlace(r)
  <2> DEFINE g == [state |-> "FAILURE", date |-> 0, version |-> Fresh]
             p == [q EXCEPT !.pc = "delete", !.scheduling = TRUE, !.obj = g]
  <2>1. Bound(g, Ahead) /\ Fresh # row.version
    BY <1>u
  <2>2. q.pc = "schedule" /\ request' = [request EXCEPT ![r] = p] /\ versions' = Fresh
        /\ UNCHANGED <<row, awards, tasks, worker, now, mishaps>>
    BY <1>11 DEF FailInPlace, Becomes, TakeVersion, SaveFrom
  <2>3. p.pc = "delete" /\ p.obj = g /\ p.scheduling = TRUE /\ p.new = q.new
        /\ p.stale = q.stale
    BY <1>t DEF RequestStates
  <2>4. Tracks(p, row, awards, Ahead, Fresh, mishaps)
    <3> HIDE DEF p
    <3> QED BY <2>1, <2>2, <2>3, <1>t, <1>f DEF Tracks, Flow
  <2> Local(p, Fresh, mishaps)
    BY <2>2, <2>4, <1>t
  <2> QED BY <1>0
<1>12. CASE Rollback(r)
  <2> Local(IdleRequest, versions, mishaps)
    BY <1>12, <1>t DEF Rollback, Becomes, Tracks, IdleRequest, NewPrizeGiving
  <2> QED BY <1>0
<1> QED BY <1>1, <1>2, <1>3, <1>4, <1>5, <1>6, <1>7, <1>8, <1>9, <1>10, <1>11, <1>12
        DEF RequestNext

\* The task that leaves has the version and the date of a SCHEDULED object.
LEMMA SendTracks ==
    ASSUME IInv, Tracking, NEW r \in Requests, SendTask(r)
    PROVE  Tracking'
<1> DEFINE q == request[r]
           t == [version |-> q.obj.version, date |-> q.obj.date]
           p == [q EXCEPT !.pc = "commit"]
<1>t. /\ q \in RequestStates /\ q.obj \in PrizeGivings /\ q.obj.version \in Nat
      /\ request \in [Requests -> RequestStates]
  BY DEF IInv, TypeOK, RequestStates, PrizeGivings
<1>f. Flow(q) /\ Tracks(q, row, awards, Ahead, versions, mishaps)
  BY DEF IInv, Flows, Tracking
<1>1. /\ q.pc = "send" /\ tasks' = tasks \cup {t} /\ request' = [request EXCEPT ![r] = p]
      /\ UNCHANGED <<row, awards, worker, now, versions, mishaps>>
  BY DEF SendTask, Becomes
<1>2. Ahead' = Ahead \cup {t}
  BY <1>1 DEF Ahead
<1>3. q.obj.state = "SCHEDULED" /\ ~q.stale /\ t.version = q.obj.version /\ t.date = q.obj.date
  BY <1>1, <1>f DEF Flow, Tracks
<1>4. p.pc = "commit" /\ p.obj = q.obj /\ p.scheduling = q.scheduling /\ p.new = q.new
      /\ p.stale = q.stale /\ p.gone = q.gone
  BY <1>t DEF RequestStates
<1> HIDE DEF t, p
<1>5. Numbered'
  BY <1>1, <1>2, <1>3, <1>f DEF Tracking, Numbered, Tracks
<1>6. Distributing' /\ ScheduledHasTask'
  BY <1>1, <1>2 DEF Tracking, Distributing, ScheduledHasTask
<1>7. Undisturbed'
  <2>1. "overwritten" \notin mishaps => (t.version = row.version => row.state = "SCHEDULED" /\ t.date = row.date)
    BY <1>1, <1>3, <1>f DEF Tracks
  <2> QED BY <1>1, <1>2, <2>1 DEF Tracking, Undisturbed, Bound
<1>8. Tracks(p, row, awards, Ahead', versions, mishaps)
  <2>1. "overwritten" \notin mishaps => Bound(q.obj, Ahead')
    BY <1>1, <1>2, <1>3, <1>f DEF Tracks, Bound
  <2>2. [version |-> q.obj.version, date |-> q.obj.date] \in Ahead'
    BY <1>2 DEF t
  <2>3. q.new # {} => q.obj.state = "SUCCESS"
    BY <1>f DEF Flow
  <2> QED BY <1>1, <1>3, <1>4, <1>f, <2>1, <2>2, <2>3 DEF Tracks
<1>9. ASSUME NEW s \in Requests \ {r} PROVE Tracks(request[s], row, awards, Ahead', versions, mishaps)
  <2>1. ~Saving(s)
    BY <1>1 DEF IInv, Serialised, Saving
  <2> QED BY <2>1 DEF Tracking, Tracks, Saving
<1>10. \A s \in Requests : request'[s] = IF s = r THEN p ELSE request[s]
  BY <1>1, <1>t
<1>11. \A s \in Requests : Tracks(request'[s], row, awards, Ahead', versions, mishaps)
  BY <1>8, <1>9, <1>10
<1> QED BY <1>1, <1>5, <1>6, <1>7, <1>11 DEF Tracking

\* Who has not locked the row when it changes goes on with an outdated object.
LEMMA OutdatedTracks ==
    ASSUME IInv, Tracking, NEW s \in Requests, ~request[s].locked,
           NEW last \in Nat, versions <= last, NEW g, NEW as, NEW ahead
    PROVE  Tracks(Outdated[s], g, as, ahead, last, mishaps)
<1> DEFINE q == request[s]
<1>t. q \in RequestStates /\ q.obj.version \in Nat /\ versions \in Nat
  BY DEF IInv, TypeOK, RequestStates, PrizeGivings
<1>f. Flow(q) /\ Tracks(q, row, awards, Ahead, versions, mishaps)
  BY DEF IInv, Flows, Tracking
<1>1. /\ Outdated[s].pc = q.pc /\ Outdated[s].obj = q.obj
      /\ Outdated[s].scheduling = q.scheduling /\ Outdated[s].new = q.new
  BY OutdatedType DEF IInv
<1>2. q.pc \in {"edit", "delete", "deleting", "write"} => Outdated[s].stale
  BY <1>t DEF Outdated, RequestStates
<1>3. q.pc \in {"idle", "redo", "edit", "delete", "deleting", "write"}
  BY <1>t, <1>f DEF Flow, RequestStates
<1>4. ~q.scheduling
  BY <1>3, <1>f DEF Flow
<1>5. q.obj.version <= last
  BY <1>t, <1>f DEF Tracks
<1> QED BY <1>1, <1>2, <1>3, <1>4, <1>5, <1>f DEF Tracks

LEMMA CommitTracks ==
    ASSUME IInv, Tracking, NEW r \in Requests, Commit(r)
    PROVE  Tracking'
<1> DEFINE q == request[r]
<1>t. /\ q \in RequestStates /\ request \in [Requests -> RequestStates]
      /\ awards \in SUBSET Nat /\ versions \in Nat
  BY DEF IInv, TypeOK
<1>f. Flow(q) /\ Deletes(q, awards) /\ Tracks(q, row, awards, Ahead, versions, mishaps)
  BY DEF IInv, Flows, Tracking
<1>c. /\ q.pc = "commit" /\ row' = q.obj /\ awards' = (awards \ q.gone) \cup q.new
      /\ UNCHANGED <<tasks, worker, now, versions, mishaps>>
  BY DEF Commit
<1>a. Ahead' = Ahead
  BY <1>c DEF Ahead
<1>l. q.locked /\ ~q.stale
  BY <1>c, <1>f DEF Flow, Tracks
<1>1. Numbered'
  BY <1>a, <1>c, <1>f DEF Tracking, Numbered, Tracks
<1>2. Distributing'
  BY <1>c, <1>l DEF IInv, Serialised, Distributing
<1>3. ScheduledHasTask'
  <2>1. CASE q.scheduling
    BY <2>1, <1>a, <1>c, <1>f DEF ScheduledHasTask, Tracks
  <2>2. CASE ~q.scheduling
    BY <2>2, <1>a, <1>c, <1>f, <1>l DEF Tracking, ScheduledHasTask, Tracks
  <2> QED BY <2>1, <2>2
<1>4. Undisturbed'
  <2> SUFFICES ASSUME "overwritten" \notin mishaps
               PROVE  Bound(q.obj, Ahead) /\ \A a, b \in (awards \ q.gone) \cup q.new : a = b
    BY <1>a, <1>c DEF Undisturbed
  <2>1. Bound(q.obj, Ahead)
    BY <1>c, <1>f, <1>l DEF Tracks
  <2>2. CASE q.new = {}
    BY <2>1, <2>2 DEF Tracking, Undisturbed
  <2>3. CASE q.new # {}
    <3>1. awards \subseteq q.gone /\ q.new \subseteq {q.obj.version}
      BY <2>3, <1>c, <1>f, <1>l DEF Tracks
    <3> QED BY <2>1, <3>1
  <2> QED BY <2>1, <2>2, <2>3
<1>5. ASSUME NEW s \in Requests
      PROVE  Tracks(request'[s], row', awards', Ahead, versions, mishaps)
  <2>1. CASE s = r
    <3>1. request'[s] = IdleRequest
      BY <2>1, <1>t DEF Commit, Outdated
    <3> QED BY <3>1, <1>t DEF Tracks, IdleRequest, NewPrizeGiving
  <2>2. CASE s # r
    <3>1. request'[s] = Outdated[s]
      BY <2>2, <1>t DEF Commit, Outdated
    <3>2. ~request[s].locked
      BY <2>2, <1>c DEF IInv, Serialised, Saving, Flows, Flow
    <3>3. Tracks(Outdated[s], row', awards', Ahead, versions, mishaps)
      BY <3>2, <1>t, OutdatedTracks
    <3> QED BY <3>1, <3>3
  <2> QED BY <2>1, <2>2
<1> QED BY <1>1, <1>2, <1>3, <1>4, <1>5, <1>a, <1>c DEF Tracking

\* A worker that distributes finds the row SCHEDULED, so without awards, unless
\* a form was saved over a changed row.
LEMMA DistributesScheduled ==
    ASSUME IInv, Tracking, NEW w \in Workers, worker[w].pc = "distribute",
           "overwritten" \notin mishaps
    PROVE  row.state = "SCHEDULED" /\ row.date = worker[w].date /\ awards = {}
<1> DEFINE t == [version |-> worker[w].version, date |-> worker[w].date]
<1>1. t \in Ahead
  BY DEF Ahead
<1>2. t.version = row.version /\ t.date = worker[w].date
  BY DEF Tracking, Distributing
<1>3. row.state = "SCHEDULED" /\ row.date = worker[w].date
  BY <1>1, <1>2 DEF Tracking, Undisturbed, Bound
<1> QED BY <1>3 DEF IInv, AwardsOnlyInSuccess

LEMMA WorkerTracks ==
    ASSUME IInv, Tracking, NEW w \in Workers, WorkerNext(w)
    PROVE  Tracking'
<1>t. /\ worker \in [Workers -> WorkerStates] /\ request \in [Requests -> RequestStates]
      /\ row \in PrizeGivings /\ versions \in Nat /\ Fresh \in Nat /\ versions <= Fresh
      /\ tasks \in SUBSET [version : Nat, date : Dates]
  BY DEF IInv, TypeOK, Fresh
<1>a. \A t \in Ahead : t.version \in Nat
  BY AheadType DEF IInv
<1>1. ASSUME UNCHANGED <<row, awards, request, versions>>, Distributing',
             mishaps \subseteq mishaps', Ahead' \subseteq Ahead,
             (\E r \in Requests : request[r].locked) /\ mishaps' = {} => Ahead \subseteq Ahead',
             mishaps' = {} => ScheduledHasTask'
      PROVE  Tracking'
  <2>1. Numbered' /\ ScheduledHasTask' /\ Undisturbed'
    <3>1. Numbered'
      BY <1>1 DEF Tracking, Numbered
    <3>2. ScheduledHasTask'
      BY <1>1 DEF ScheduledHasTask
    <3>3. Undisturbed'
      BY <1>1 DEF Tracking, Undisturbed, Bound
    <3> QED BY <3>1, <3>2, <3>3
  <2>2. ASSUME NEW r \in Requests
        PROVE  Tracks(request[r], row, awards, Ahead', versions, mishaps')
    <3>1. request[r].pc = "commit" => request[r].locked
      BY DEF IInv, Flows, Flow
    <3>2. Tracks(request[r], row, awards, Ahead, versions, mishaps) /\ request[r] \in RequestStates
      BY <1>t DEF Tracking
    <3>3. versions <= versions
      BY <1>t
    <3> QED BY <1>1, <1>t, <3>1, <3>2, <3>3, TracksKept
  <2> QED BY <1>1, <2>1, <2>2 DEF Tracking
<1>2. ASSUME worker[w].pc = "distribute", request' = Outdated, TakeVersion,
             worker' = [worker EXCEPT ![w] = IdleWorker], UNCHANGED <<tasks, mishaps>>,
             row'.version = Fresh, row'.state # "SCHEDULED",
             "overwritten" \notin mishaps => \A a, b \in awards' : a = b
      PROVE  Tracking'
  <2>1. Ahead' \subseteq Ahead
    BY <1>2, <1>t DEF Ahead, IdleWorker, WorkerStates
  <2>2. versions' = Fresh
    BY <1>2 DEF TakeVersion
  <2>3. Numbered'
    BY <1>2, <1>t, <1>a, <2>1, <2>2 DEF Tracking, Numbered
  <2>4. Distributing'
    BY <1>2, <1>t DEF Tracking, Distributing, IdleWorker, WorkerStates
  <2>5. ScheduledHasTask'
    BY <1>2 DEF ScheduledHasTask
  <2>6. Undisturbed'
    <3>1. \A t \in Ahead : t.version # Fresh
      BY <1>t, <1>a DEF Tracking, Numbered, Fresh
    <3> QED BY <1>2, <2>1, <3>1 DEF Undisturbed, Bound
  <2>7. ASSUME NEW r \in Requests
        PROVE  Tracks(request'[r], row', awards', Ahead', versions', mishaps')
    <3>1. ~request[r].locked
      BY <1>2 DEF IInv, Serialised
    <3>2. Tracks(Outdated[r], row', awards', Ahead', Fresh, mishaps)
      BY <3>1, <1>t, OutdatedTracks
    <3> QED BY <3>2, <2>2, <1>2
  <2> QED BY <2>3, <2>4, <2>5, <2>6, <2>7 DEF Tracking
<1>3. ASSUME NEW t \in tasks, Receive(w, t) PROVE Tracking'
  <2> DEFINE x == [pc |-> "lock", version |-> t.version, date |-> t.date]
  <2>1. /\ worker[w].pc = "idle" /\ tasks' = tasks \ {t} /\ worker' = [worker EXCEPT ![w] = x]
        /\ UNCHANGED <<row, awards, request, now, versions, mishaps>>
    BY <1>3 DEF Receive
  <2>2. t = [version |-> t.version, date |-> t.date]
    BY <1>t
  <2>3. Ahead' = Ahead
    BY <2>1, <2>2, <1>t DEF Ahead
  <2>4. Distributing'
    BY <2>1, <1>t DEF Tracking, Distributing
  <2> QED BY <1>1, <2>1, <2>3, <2>4 DEF Tracking, ScheduledHasTask
<1>4. CASE SkipTask(w)
  <2> DEFINE x == [version |-> worker[w].version, date |-> worker[w].date]
  <2>1. /\ RowFree /\ row.version # worker[w].version /\ worker' = [worker EXCEPT ![w] = IdleWorker]
        /\ UNCHANGED <<row, awards, tasks, request, now, versions, mishaps>>
    BY <1>4 DEF SkipTask
  <2>2. Ahead' \subseteq Ahead /\ Ahead \subseteq Ahead' \cup {x}
    BY <2>1, <1>t DEF Ahead, IdleWorker, WorkerStates
  <2>3. Distributing'
    BY <2>1, <1>t DEF Tracking, Distributing, IdleWorker, WorkerStates
  <2>4. ScheduledHasTask'
    BY <2>1, <2>2 DEF Tracking, ScheduledHasTask
  <2> QED BY <1>1, <2>1, <2>2, <2>3, <2>4 DEF RowFree
<1>5. CASE LockRow(w)
  <2>1. /\ worker[w].pc = "lock" /\ RowFree /\ row.version = worker[w].version
        /\ worker' = [worker EXCEPT ![w].pc = "distribute"]
        /\ UNCHANGED <<row, awards, tasks, request, now, versions, mishaps>>
    BY <1>5 DEF LockRow
  <2>2. \A v \in Workers : /\ (worker'[v].pc = "idle") = (worker[v].pc = "idle")
                           /\ worker'[v].version = worker[v].version
                           /\ worker'[v].date = worker[v].date
    BY <2>1, <1>t DEF WorkerStates
  <2>3. Ahead' = Ahead
    BY <2>1, <2>2 DEF Ahead
  <2>4. Distributing'
    BY <2>1, <2>2, <1>t DEF RowFree, Distributing, WorkerStates
  <2> QED BY <1>1, <2>1, <2>3, <2>4 DEF Tracking, ScheduledHasTask
<1>6. CASE Distribute(w)
  <2>1. row'.version = Fresh /\ row'.state = "SUCCESS"
    BY <1>6, <1>t DEF Distribute, PrizeGivings
  <2>2. "overwritten" \notin mishaps => awards' = {Fresh}
    BY <1>6, DistributesScheduled DEF Distribute
  <2> QED BY <1>2, <1>6, <2>1, <2>2 DEF Distribute
<1>7. CASE FailDistribution(w)
  BY <1>2, <1>7 DEF FailDistribution
<1>8. CASE WorkerRaises(w)
  <2>1. /\ worker' = [worker EXCEPT ![w] = IdleWorker] /\ mishaps' = mishaps \cup {"raised"}
        /\ UNCHANGED <<row, awards, tasks, request, now, versions>>
    BY <1>8 DEF WorkerRaises
  <2>2. Ahead' \subseteq Ahead
    BY <2>1, <1>t DEF Ahead, IdleWorker, WorkerStates
  <2>3. Distributing'
    BY <2>1, <1>t DEF Tracking, Distributing, IdleWorker, WorkerStates
  <2> QED BY <1>1, <2>1, <2>2, <2>3
<1> QED BY <1>3, <1>4, <1>5, <1>6, <1>7, <1>8 DEF WorkerNext

LEMMA InitTracking == Init => Tracking
<1> SUFFICES ASSUME Init PROVE Tracking
  OBVIOUS
<1>1. /\ \A r \in Requests : request[r] = IdleRequest
      /\ \A w \in Workers : worker[w].pc = "idle"
      /\ awards = {} /\ tasks = {} /\ row = NewPrizeGiving /\ versions = 0
  BY DEF Init, IdleWorker
<1>2. Ahead = {}
  BY <1>1 DEF Ahead
<1>3. \A r \in Requests : Tracks(request[r], row, awards, Ahead, versions, mishaps)
  BY <1>1 DEF Tracks, IdleRequest, NewPrizeGiving
<1> QED BY <1>1, <1>2, <1>3 DEF Tracking, Numbered, Distributing, ScheduledHasTask, Undisturbed,
                               Bound, NewPrizeGiving

LEMMA StepTracking == IInv /\ Tracking /\ [Next]_vars => Tracking'
<1> SUFFICES ASSUME IInv, Tracking, [Next]_vars PROVE Tracking'
  OBVIOUS
<1>1. ASSUME UNCHANGED <<row, awards, tasks, request, worker, versions, mishaps>> PROVE Tracking'
  BY <1>1 DEF Tracking, Numbered, Distributing, ScheduledHasTask, Undisturbed, Ahead
<1>2. ASSUME NEW r \in Requests, RequestNext(r) PROVE Tracking'
  BY <1>2, RequestTracks, SendTracks, CommitTracks
<1>3. ASSUME NEW w \in Workers, WorkerNext(w) PROVE Tracking'
  BY <1>3, WorkerTracks
<1>4. CASE Tick
  BY <1>1, <1>4 DEF Tick
<1>5. CASE UNCHANGED vars
  BY <1>1, <1>5 DEF vars
<1> QED BY <1>2, <1>3, <1>4, <1>5 DEF Next

LEMMA TrackingInvariant == Spec => [](IInv /\ Tracking)
<1> QED BY InitInv, StepInv, InitTracking, StepTracking, PTL DEF Spec

\* A SCHEDULED prize-giving still has the task that will distribute it, unless a
\* form was saved over a changed row or a distribution raised.
THEOREM HasTaskCorrect == Spec => []ScheduledHasTask
<1>1. Tracking => ScheduledHasTask
  BY DEF Tracking
<1> QED BY <1>1, TrackingInvariant, PTL

\* A task sent for one date never distributes a prize-giving that was moved to
\* another one, unless a form was saved over a changed row.
THEOREM DateCorrect == Spec => []TaskKeepsDate
<1>1. IInv /\ Tracking => TaskKeepsDate
  BY DistributesScheduled DEF TaskKeepsDate
<1> QED BY <1>1, TrackingInvariant, PTL

\* The users hold what one distribution gave them, unless a form was saved over
\* a changed row: deletions and distributions of overlapping requests never add up.
THEOREM AwardedCorrect == Spec => []AwardedOnce
<1>1. IInv /\ Tracking => AwardedOnce
  <2> SUFFICES ASSUME IInv, Tracking, "overwritten" \notin mishaps PROVE Cardinality(awards) <= 1
    BY DEF AwardedOnce
  <2>1. \A a, b \in awards : a = b
    BY DEF Tracking, Undisturbed
  <2>2. CASE awards = {}
    BY <2>2, FS_EmptySet
  <2>3. CASE awards # {}
    <3>1. PICK a \in awards : TRUE
      BY <2>3
    <3>2. awards = {a}
      BY <2>1, <3>1
    <3> QED BY <3>2, FS_Singleton
  <2> QED BY <2>2, <2>3
<1> QED BY <1>1, TrackingInvariant, PTL
=============================================================================
