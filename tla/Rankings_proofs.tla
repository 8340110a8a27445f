--------------------------- MODULE Rankings_proofs ---------------------------
(***************************************************************************)
(* Proofs about the stored rankings, for any numbers of keys, daemons,     *)
(* writers and requests, with daemons and writers dying at any time.       *)
(***************************************************************************)
EXTENDS Rankings, TLAPS

(***************************************************************************)
(* The inductive invariant.  A recalculation in progress is owned by one   *)
(* running daemon; the results that daemon has read are at least as new as *)
(* the pages, and include every announced change unless the ranking was    *)
(* invalidated again.                                                      *)
(***************************************************************************)
Bounded ==
    /\ announced <= results
    /\ \A k \in Keys : data[k] <= results
    /\ \A w \in Writers : writer[w] <= results

Owned ==
    /\ \A k \in Keys : recalc[k] # None => k \in known
    /\ \A k \in Keys : recalc[k] \in Daemons => daemon[recalc[k]].pc # "idle"
    /\ \A k, q \in Keys : recalc[k] = recalc[q] /\ recalc[k] \in Daemons => k = q

ReadRecently ==
    \A k \in Keys : recalc[k] \in Daemons /\ daemon[recalc[k]].pc = "save" =>
        /\ daemon[recalc[k]].seen <= results
        /\ daemon[recalc[k]].seen >= data[k]
        /\ k \notin invalid => daemon[recalc[k]].seen >= announced

IInv == TypeOK /\ Bounded /\ Owned /\ ReadRecently /\ UpToDateIncludesAnnounced

(***************************************************************************)
(* Types                                                                   *)
(***************************************************************************)
LEMMA InitTypes == Init => TypeOK
<1> SUFFICES ASSUME Init PROVE TypeOK
  OBVIOUS
<1>1. ASSUME NEW f \in [Viewers -> {[pc |-> "idle", key |-> k, upToDate |-> FALSE,
                                     page |-> 0, floor |-> 0] : k \in Keys}]
      PROVE  f \in [Viewers -> ViewerStates]
  <2>1. ASSUME NEW k \in Keys
        PROVE  [pc |-> "idle", key |-> k, upToDate |-> FALSE, page |-> 0, floor |-> 0]
                 \in ViewerStates
    BY DEF ViewerStates
  <2>2. ASSUME NEW v \in Viewers PROVE f[v] \in ViewerStates
    BY <1>1, <2>1
  <2>3. QED
    BY <1>1, <2>2
<1>2. viewer \in [Viewers -> ViewerStates]
  BY <1>1 DEF Init
<1>3. QED
  BY <1>2 DEF Init, TypeOK, Idle, DaemonStates, None

LEMMA NextTypes == TypeOK /\ [Next]_vars => TypeOK'
<1> SUFFICES ASSUME TypeOK, [Next]_vars PROVE TypeOK'
  OBVIOUS
<1> USE DEF TypeOK, DaemonStates, ViewerStates, rows, Clocks
<1>1. CASE UNCHANGED vars
  BY <1>1 DEF vars
<1>2. ASSUME NEW w \in Writers, NEW changed \in BOOLEAN, UpdateResults(w, changed) PROVE TypeOK'
  <2>1. results' \in Nat /\ writer' = [writer EXCEPT ![w] = results']
    BY <1>2 DEF UpdateResults
  <2>2. QED
    BY <1>2, <2>1 DEF UpdateResults
<1>3. ASSUME NEW w \in Writers, Invalidate(w) PROVE TypeOK'
  BY <1>3 DEF Invalidate
<1>4. ASSUME NEW w \in Writers, WriterDies(w) PROVE TypeOK'
  BY <1>4 DEF WriterDies, Disturb
<1>5. ASSUME NEW k \in Keys, CooldownOver(k) PROVE TypeOK'
  BY <1>5 DEF CooldownOver
<1>6. ASSUME NEW d \in Daemons, NEW k \in Keys, Choose(d, k) PROVE TypeOK'
  BY <1>6 DEF Choose, First, Waiting
<1>7. ASSUME NEW d \in Daemons, Start(d) PROVE TypeOK'
  BY <1>7 DEF Start, Idle
<1>8. ASSUME NEW d \in Daemons, Build(d) PROVE TypeOK'
  BY <1>8 DEF Build
<1>9. ASSUME NEW d \in Daemons, Save(d) PROVE TypeOK'
  <2>1. daemon' \in [Daemons -> DaemonStates]
    BY <1>9 DEF Save, Idle
  <2>2. UNCHANGED <<results, known, invalid, cooling, writer, viewer, announced, spent>>
    BY <1>9 DEF Save
  <2>3. ASSUME NEW k \in Found(d),
               data' = [data EXCEPT ![k] = daemon[d].seen],
               recalc' = [recalc EXCEPT ![k] = None],
               dated' = (dated \ {d}) \cup {k},
               earlier' = {<<IF p[1] = d THEN k ELSE p[1], IF p[2] = d THEN k ELSE p[2]>>
                             : p \in Without(k)}
        PROVE  TypeOK'
    <3>1. k \in Keys
      BY <2>3 DEF Found
    <3>2. data' \in [Keys -> Nat] /\ recalc' \in [Keys -> Daemons \cup {None, Abandoned}]
      BY <2>3, <3>1
    <3>3. dated' \subseteq Clocks
      BY <2>3, <3>1
    <3>4. earlier' \subseteq Clocks \X Clocks
      BY <2>3, <3>1 DEF Without
    <3>5. QED
      BY <2>1, <2>2, <3>2, <3>3, <3>4
  <2>4. CASE Found(d) = {} /\ dated' = dated \ {d} /\ earlier' = Without(d) /\ UNCHANGED <<data, recalc>>
    BY <2>1, <2>2, <2>4 DEF Without
  <2>5. QED
    BY <1>9, <2>3, <2>4 DEF Save
<1>10. ASSUME NEW d \in Daemons, DaemonDies(d) PROVE TypeOK'
  BY <1>10 DEF DaemonDies, Disturb, Idle, Without
<1>11. ASSUME NEW v \in Viewers, NEW k \in Keys, LoadRanking(v, k) PROVE TypeOK'
  <2>1. UpToDate(k) \in BOOLEAN
    BY DEF UpToDate
  <2>2. [pc |-> "page", key |-> k, floor |-> announced, page |-> 0,
         upToDate |-> UpToDate(k)] \in ViewerStates
    BY <2>1
  <2>3. viewer' \in [Viewers -> ViewerStates]
    BY <1>11, <2>2 DEF LoadRanking
  <2>4. QED
    BY <1>11, <2>3 DEF LoadRanking
<1>12. ASSUME NEW v \in Viewers, ReadPage(v) PROVE TypeOK'
  BY <1>12 DEF ReadPage
<1>13. ASSUME NEW v \in Viewers, Leave(v) PROVE TypeOK'
  BY <1>13 DEF Leave
<1>14. QED
  BY <1>1, <1>2, <1>3, <1>4, <1>5, <1>6, <1>7, <1>8, <1>9, <1>10, <1>11, <1>12, <1>13 DEF Next

\* Every variable of the stored rankings always has its type, whatever the
\* sets of keys, daemons, writers and requests.
THEOREM TypeCorrect == Spec => []TypeOK
<1>1. QED
  BY InitTypes, NextTypes, PTL DEF Spec

(***************************************************************************)
(* Invalidation against recalculation                                      *)
(***************************************************************************)
LEMMA InitInvariant == Init => IInv
<1> SUFFICES ASSUME Init PROVE IInv
  OBVIOUS
<1>1. TypeOK
  BY InitTypes
<1>2. Bounded /\ Owned /\ ReadRecently /\ UpToDateIncludesAnnounced
  BY NamesAssumption DEF Init, Bounded, Owned, ReadRecently, UpToDateIncludesAnnounced,
     UpToDate, None
<1>3. QED
  BY <1>1, <1>2 DEF IInv

LEMMA NextInvariant == IInv /\ [Next]_vars => IInv'
<1> SUFFICES ASSUME IInv, [Next]_vars PROVE IInv'
  OBVIOUS
<1> DEFINE Rest == Bounded /\ Owned /\ ReadRecently /\ UpToDateIncludesAnnounced
<1>0. TypeOK'
  BY NextTypes DEF IInv
<1> SUFFICES Rest'
  BY <1>0 DEF IInv
<1> USE NamesAssumption DEF IInv, TypeOK, DaemonStates, rows, Bounded, Owned,
        ReadRecently, UpToDateIncludesAnnounced, UpToDate
<1>1. CASE UNCHANGED vars
  BY <1>1 DEF vars
<1>2. ASSUME NEW w \in Writers, NEW changed \in BOOLEAN, UpdateResults(w, changed) PROVE Rest'
  BY <1>2 DEF UpdateResults
<1>3. ASSUME NEW w \in Writers, Invalidate(w) PROVE Rest'
  BY <1>3 DEF Invalidate
<1>4. ASSUME NEW w \in Writers, WriterDies(w) PROVE Rest'
  BY <1>4 DEF WriterDies, Disturb
<1>5. ASSUME NEW k \in Keys, CooldownOver(k) PROVE Rest'
  BY <1>5 DEF CooldownOver
<1>6. ASSUME NEW d \in Daemons, NEW k \in Keys, Choose(d, k) PROVE Rest'
  <2>1. k \in known /\ daemon[d].pc = "idle"
    BY <1>6 DEF Choose, First, Waiting
  <2>2. \A q \in Keys : recalc[q] # d
    BY <2>1
  <2>3. Bounded' /\ Owned'
    BY <1>6, <2>1, <2>2 DEF Choose
  <2>4. ReadRecently' /\ UpToDateIncludesAnnounced'
    BY <1>6, <2>1, <2>2 DEF Choose, None
  <2>5. QED
    BY <2>3, <2>4
<1>7. ASSUME NEW d \in Daemons, Start(d) PROVE Rest'
  <2>1. CASE Found(d) # {}
    BY <1>7, <2>1 DEF Start
  <2>2. CASE Found(d) = {}
    <3>1. \A q \in Keys : recalc[q] # d
      BY <2>2 DEF Found, None
    <3>2. QED
      BY <1>7, <2>2, <3>1 DEF Start, Idle
  <2>3. QED
    BY <2>1, <2>2
<1>8. ASSUME NEW d \in Daemons, Build(d) PROVE Rest'
  BY <1>8 DEF Build
<1>9. ASSUME NEW d \in Daemons, Save(d) PROVE Rest'
  <2>1. daemon[d].pc = "save" /\ daemon' = [daemon EXCEPT ![d] = Idle]
    BY <1>9 DEF Save
  <2>2. UNCHANGED <<results, known, invalid, cooling, writer, viewer, announced, spent>>
    BY <1>9 DEF Save
  <2>3. ASSUME NEW k \in Found(d),
               data' = [data EXCEPT ![k] = daemon[d].seen],
               recalc' = [recalc EXCEPT ![k] = None]
        PROVE  Rest'
    <3>1. k \in Keys /\ recalc[k] = d
      BY <2>3 DEF Found
    <3>2. \A q \in Keys \ {k} : recalc[q] # d
      BY <3>1
    <3>3. Bounded'
      BY <2>1, <2>2, <2>3, <3>1
    <3>4. Owned'
      BY <2>1, <2>2, <2>3, <3>1, <3>2 DEF Idle, None
    <3>5. ReadRecently'
      BY <2>1, <2>2, <2>3, <3>1, <3>2 DEF Idle, None
    <3>6. UpToDateIncludesAnnounced'
      BY <2>1, <2>2, <2>3, <3>1, <3>2 DEF None
    <3>7. QED
      BY <3>3, <3>4, <3>5, <3>6
  <2>4. CASE Found(d) = {} /\ UNCHANGED <<data, recalc>>
    <3>1. \A q \in Keys : recalc[q] # d
      BY <2>4 DEF Found, None
    <3>2. QED
      BY <2>1, <2>2, <2>4, <3>1 DEF Idle
  <2>5. QED
    BY <1>9, <2>3, <2>4 DEF Save
<1>10. ASSUME NEW d \in Daemons, DaemonDies(d) PROVE Rest'
  BY <1>10 DEF DaemonDies, Disturb, Idle, None, Abandoned
<1>11. ASSUME NEW v \in Viewers, NEW k \in Keys, LoadRanking(v, k) PROVE Rest'
  BY <1>11 DEF LoadRanking
<1>12. ASSUME NEW v \in Viewers, ReadPage(v) PROVE Rest'
  BY <1>12 DEF ReadPage
<1>13. ASSUME NEW v \in Viewers, Leave(v) PROVE Rest'
  BY <1>13 DEF Leave
<1>14. QED
  BY <1>1, <1>2, <1>3, <1>4, <1>5, <1>6, <1>7, <1>8, <1>9, <1>10, <1>11, <1>12, <1>13 DEF Next

LEMMA Invariant == Spec => []IInv
<1>1. QED
  BY InitInvariant, NextInvariant, PTL DEF Spec

\* Whatever recalculations overlap with invalidations, a ranking that calls
\* itself up to date includes every announced change of the results.
THEOREM UpToDateCorrect == Spec => []UpToDateIncludesAnnounced
<1>1. IInv => UpToDateIncludesAnnounced
  BY DEF IInv
<1>2. QED
  BY Invariant, <1>1, PTL

\* A recalculation in progress is one running daemon's, and that daemon's
\* save finds exactly the ranking it has built.
THEOREM OneRecalculationCorrect == Spec => []OneRecalculation
<1>1. IInv => OneRecalculation
  BY NamesAssumption DEF IInv, TypeOK, Owned, OneRecalculation, Found, None
<1>2. QED
  BY Invariant, <1>1, PTL

\* No step replaces the pages of a ranking by older ones.
LEMMA PagesGrow == IInv /\ [Next]_vars => \A k \in Keys : data'[k] >= data[k]
<1> SUFFICES ASSUME IInv, [Next]_vars PROVE \A k \in Keys : data'[k] >= data[k]
  OBVIOUS
<1> USE DEF IInv, TypeOK, rows
<1>1. ASSUME NEW d \in Daemons, Save(d) PROVE \A k \in Keys : data'[k] >= data[k]
  <2>1. ASSUME NEW q \in Found(d), data' = [data EXCEPT ![q] = daemon[d].seen]
        PROVE  \A k \in Keys : data'[k] >= data[k]
    <3>1. q \in Keys /\ recalc[q] = d
      BY <2>1 DEF Found
    <3>2. daemon[d].seen >= data[q]
      BY <1>1, <3>1 DEF Save, ReadRecently
    <3>3. QED
      BY <2>1, <3>1, <3>2
  <2>2. QED
    BY <1>1, <2>1 DEF Save
<1>2. CASE UNCHANGED vars
  BY <1>2 DEF vars
<1>3. ASSUME Next, ~\E d \in Daemons : Save(d) PROVE data' = data
  BY <1>3 DEF Next, UpdateResults, Invalidate, WriterDies, CooldownOver, Choose, Start,
     Build, DaemonDies, LoadRanking, ReadPage, Leave
<1>4. QED
  BY <1>1, <1>2, <1>3

\* The pages of a ranking are never replaced by those of an older
\* recalculation: save_recalc_results only finds a ranking whose newest
\* recalculation is its own.
THEOREM PagesCorrect == Spec => PagesNeverGoBack
<1>1. IInv /\ [Next]_vars => [\A k \in Keys : data'[k] >= data[k]]_data
  BY PagesGrow
<1>2. QED
  BY Invariant, <1>1, PTL DEF Spec, PagesNeverGoBack

(***************************************************************************)
(* Requests that read the mark and the page in two queries                 *)
(***************************************************************************)
\* A request that found the ranking up to date will read, or has read, a page
\* with what was announced then, because pages only grow newer.
Promised ==
    \A v \in Viewers : viewer[v].upToDate =>
        /\ viewer[v].pc = "page" => data[viewer[v].key] >= viewer[v].floor
        /\ viewer[v].pc = "shown" => viewer[v].page >= viewer[v].floor

LEMMA NextPromised == IInv /\ Promised /\ [Next]_vars => Promised'
<1> SUFFICES ASSUME IInv, Promised, [Next]_vars PROVE Promised'
  OBVIOUS
<1>0. \A k \in Keys : data'[k] >= data[k]
  BY PagesGrow
<1>t. data' \in [Keys -> Nat]
  BY NextTypes DEF IInv, TypeOK
<1> USE DEF IInv, TypeOK, rows, ViewerStates
<1>1. ASSUME viewer' = viewer PROVE Promised'
  BY <1>0, <1>t, <1>1 DEF Promised
<1>2. ASSUME NEW v \in Viewers, NEW k \in Keys, LoadRanking(v, k) PROVE Promised'
  <2>1. data' = data /\ viewer' = [viewer EXCEPT ![v] =
          [pc |-> "page", key |-> k, floor |-> announced, page |-> 0, upToDate |-> UpToDate(k)]]
    BY <1>2 DEF LoadRanking
  <2>2. UpToDate(k) => data[k] >= announced
    BY DEF UpToDateIncludesAnnounced
  <2>3. QED
    BY <2>1, <2>2 DEF Promised
<1>3. ASSUME NEW v \in Viewers, ReadPage(v) PROVE Promised'
  <2>1. data' = data /\ viewer[v].pc = "page"
        /\ viewer' = [viewer EXCEPT ![v].pc = "shown", ![v].page = data[viewer[v].key]]
    BY <1>3 DEF ReadPage
  <2>2. QED
    BY <2>1 DEF Promised
<1>4. ASSUME NEW v \in Viewers, Leave(v) PROVE Promised'
  BY <1>4 DEF Leave, Promised
<1>5. CASE UNCHANGED vars
  BY <1>1, <1>5 DEF vars
<1>6. CASE Next
  <2>1. ASSUME ~\E v \in Viewers : (\E k \in Keys : LoadRanking(v, k)) \/ ReadPage(v) \/ Leave(v)
        PROVE  viewer' = viewer
    BY <1>6, <2>1 DEF Next, UpdateResults, Invalidate, WriterDies, CooldownOver, Choose,
       Start, Build, Save, DaemonDies
  <2>2. QED
    BY <1>1, <1>2, <1>3, <1>4, <2>1
<1>7. QED
  BY <1>5, <1>6

\* A page shown without the "outdated" note includes every change announced
\* before the request looked at the ranking, although get_rendered_ranking
\* reads the mark and the page in two queries.
THEOREM ShownCorrect == Spec => []ShownIsRecent
<1>1. Init => Promised
  <2> SUFFICES ASSUME Init, NEW v \in Viewers PROVE ~viewer[v].upToDate
    BY DEF Promised
  <2>1. PICK k \in Keys : viewer[v] = [pc |-> "idle", key |-> k, upToDate |-> FALSE,
                                       page |-> 0, floor |-> 0]
    BY DEF Init
  <2>2. QED
    BY <2>1
<1>2. Promised => ShownIsRecent
  BY DEF Promised, ShownIsRecent
<1>3. QED
  BY Invariant, NextPromised, <1>1, <1>2, PTL DEF Spec
=============================================================================
