------------------------------ MODULE Rankings ------------------------------
(***************************************************************************)
(* Stored rankings of one contest (oioioi/rankings/models.py) and the      *)
(* processes around them: transactions that change users' results and then *)
(* invalidate the rankings, rankingsd processes that recalculate them, and *)
(* requests that show a stored page together with its "up to date" mark.   *)
(*                                                                         *)
(* The contents of a ranking are abstracted to the number of the newest    *)
(* change of the results that they include.  Clock values are abstracted   *)
(* to what is compared: whether a cooldown is over, and the order of the   *)
(* dates of the last recalculations.                                       *)
(***************************************************************************)
EXTENDS Naturals, FiniteSets

CONSTANTS
    Keys,              \* full keys of the contest's rankings
    Daemons,           \* rankingsd processes
    Writers,           \* processes that call update_user_results
    Viewers,           \* requests calling get_rendered_ranking
    MaxChanges,        \* bound: changes of the results
    Disturbances,      \* which disturbances happen
    MaxDisturbances    \* bound: how many of them in a behaviour

None == "none"             \* recalc_in_progress is NULL
Abandoned == "abandoned"   \* ... or the row of a recalculation that died

ASSUME NamesAssumption == Keys \cap Daemons = {} /\ Daemons \cap {None, Abandoned} = {}
ASSUME BoundAssumption ==
    /\ MaxChanges \in Nat
    /\ MaxDisturbances \in Nat
    /\ Disturbances \subseteq {"daemonDies", "writerDies"}

VARIABLES
    results,    \* the number of the last committed change of the results
    known,      \* the keys that have a Ranking row
    invalid,    \* ... with needs_recalculation set
    cooling,    \* ... with a cooldown_date in the future
    recalc,     \* recalc_in_progress: the daemon whose recalculation it is
    data,       \* the last change included in pages and serialized_data, 0: none
    earlier,    \* <<a, b>>: a's date precedes b's; a key's date is its
    dated,      \*   last_recalculation_date, a daemon's its date_before
    daemon,     \* the local state of each rankingsd
    writer,     \* the change a writer still has to announce, 0: none
    viewer,     \* the local state of each request
    announced,  \* history: the last change whose invalidation is committed
    spent       \* how many disturbances have happened

rows == <<known, invalid, cooling, recalc, data, earlier, dated>>
vars == <<results, rows, daemon, writer, viewer, announced, spent>>

Clocks == Keys \cup Daemons
DaemonStates == [pc : {"idle", "chosen", "build", "save"}, seen : Nat]
ViewerStates == [pc : {"idle", "page", "shown"}, key : Keys, upToDate : BOOLEAN,
                 page : Nat, floor : Nat]

\* Every variable holds a value of its column or process.
TypeOK ==
    /\ results \in Nat
    /\ known \subseteq Keys
    /\ invalid \subseteq known
    /\ cooling \subseteq known
    /\ recalc \in [Keys -> Daemons \cup {None, Abandoned}]
    /\ data \in [Keys -> Nat]
    /\ earlier \subseteq Clocks \X Clocks
    /\ dated \subseteq Clocks
    /\ daemon \in [Daemons -> DaemonStates]
    /\ writer \in [Writers -> Nat]
    /\ viewer \in [Viewers -> ViewerStates]
    /\ announced \in Nat
    /\ spent \in Nat

Idle == [pc |-> "idle", seen |-> 0]

Init ==
    /\ results = 1      \* what the results are at first counts as a change
    /\ known = {}
    /\ invalid = {}
    /\ cooling = {}
    /\ recalc = [k \in Keys |-> None]
    /\ data = [k \in Keys |-> 0]
    /\ earlier = {}
    /\ dated = {}
    /\ daemon = [d \in Daemons |-> Idle]
    /\ writer = [w \in Writers |-> 0]
    /\ viewer \in [Viewers -> {[pc |-> "idle", key |-> k, upToDate |-> FALSE,
                                page |-> 0, floor |-> 0] : k \in Keys}]
    /\ announced = 0
    /\ spent = 0

\* Slip: is_up_to_date that overlooks a recalculation under way.
UpToDateByFlag(k) == k \in known /\ k \notin invalid

\* Ranking.is_up_to_date
UpToDate(k) == k \in known /\ k \notin invalid /\ recalc[k] = None

\* The rankings a daemon may recalculate, and order_by('last_recalculation_date'),
\* where PostgreSQL puts NULL last.
Waiting == invalid \ cooling
NotAfter(k, q) == q \notin dated \/ <<k, q>> \in earlier
FirstUnordered(k) == k \in Waiting   \* slip: no order_by
First(k) == k \in Waiting /\ \A q \in Waiting \ {k} : NotAfter(k, q)

\* The rows found by filter(recalc_in_progress=recalc).
Found(d) == {k \in known : recalc[k] = d}

(***************************************************************************)
(* Slips that the properties below are meant to catch; not part of the     *)
(* specification.                                                          *)
(***************************************************************************)
\* needs_recalculation reset by save_recalc_results.
SaveResetting(d) ==
    /\ daemon[d].pc = "save"
    /\ \E k \in Found(d) :
         /\ data' = [data EXCEPT ![k] = daemon[d].seen]
         /\ recalc' = [recalc EXCEPT ![k] = None]
         /\ invalid' = invalid \ {k}
         /\ UNCHANGED <<earlier, dated>>
    /\ daemon' = [daemon EXCEPT ![d] = Idle]
    /\ UNCHANGED <<results, known, cooling, writer, viewer, announced, spent>>

\* save_recalc_results that takes the ranking by its key and not by the
\* recalculation in progress.
SaveByKey(d) ==
    /\ daemon[d].pc = "save"
    /\ \E k \in known :
         /\ data' = [data EXCEPT ![k] = daemon[d].seen]
         /\ recalc' = [recalc EXCEPT ![k] = None]
    /\ daemon' = [daemon EXCEPT ![d] = Idle]
    /\ UNCHANGED <<results, known, invalid, cooling, earlier, dated, writer, viewer,
                   announced, spent>>

\* invalidate_contest that marks keys nobody has asked for yet.
InvalidateUnknown(w) ==
    /\ writer[w] # 0
    /\ invalid' = Keys
    /\ writer' = [writer EXCEPT ![w] = 0]
    /\ UNCHANGED <<results, known, cooling, recalc, data, earlier, dated, daemon,
                   viewer, announced, spent>>

(***************************************************************************)
(* update_user_results: the results are committed in transactions of their *)
(* own, the rankings are invalidated afterwards.                           *)
(***************************************************************************)
\* The results are updated, with or without a change.
UpdateResults(w, changed) ==
    /\ writer[w] = 0
    /\ changed => results < MaxChanges
    /\ results' = IF changed THEN results + 1 ELSE results
    /\ writer' = [writer EXCEPT ![w] = results']
    /\ UNCHANGED <<rows, daemon, viewer, announced, spent>>

\* Ranking.invalidate_contest
Invalidate(w) ==
    /\ writer[w] # 0
    /\ invalid' = known
    /\ announced' = IF writer[w] > announced THEN writer[w] ELSE announced
    /\ writer' = [writer EXCEPT ![w] = 0]
    /\ UNCHANGED <<results, known, cooling, recalc, data, earlier, dated, daemon,
                   viewer, spent>>

(***************************************************************************)
(* rankingsd                                                               *)
(***************************************************************************)
\* choose_for_recalculation; the row is locked from the query to the commit.
Choose(d, k) ==
    /\ daemon[d].pc = "idle"
    /\ First(k)
    /\ cooling' = cooling \cup {k}
    /\ invalid' = invalid \ {k}
    /\ recalc' = [recalc EXCEPT ![k] = d]
    /\ daemon' = [daemon EXCEPT ![d].pc = "chosen"]
    /\ UNCHANGED <<results, known, data, earlier, dated, writer, viewer, announced,
                   spent>>

CooldownOver(k) ==
    /\ k \in cooling
    /\ cooling' = cooling \ {k}
    /\ UNCHANGED <<results, known, invalid, recalc, data, earlier, dated, daemon,
                   writer, viewer, announced, spent>>

\* The entries of `earlier` that do not concern x.
Without(x) == {p \in earlier : p[1] # x /\ p[2] # x}

\* recalculate: note date_before and fetch the ranking, which is gone when
\* it was invalidated and another daemon has chosen it since.
Start(d) ==
    /\ daemon[d].pc = "chosen"
    /\ IF Found(d) # {}
       THEN /\ daemon' = [daemon EXCEPT ![d].pc = "build"]
            /\ dated' = dated \cup {d}
            /\ earlier' = earlier \cup ((dated \ {d}) \X {d})
       ELSE /\ daemon' = [daemon EXCEPT ![d] = Idle]
            /\ UNCHANGED <<dated, earlier>>
    /\ UNCHANGED <<results, known, invalid, cooling, recalc, data, writer, viewer,
                   announced, spent>>

\* build_ranking reads the results (its queries may see later ones as well).
Build(d) ==
    /\ daemon[d].pc = "build"
    /\ daemon' = [daemon EXCEPT ![d].pc = "save", ![d].seen = results]
    /\ UNCHANGED <<results, rows, writer, viewer, announced, spent>>

\* save_recalc_results; k's last_recalculation_date becomes date_before.
Save(d) ==
    /\ daemon[d].pc = "save"
    /\ \/ \E k \in Found(d) :
            /\ data' = [data EXCEPT ![k] = daemon[d].seen]
            /\ recalc' = [recalc EXCEPT ![k] = None]
            /\ dated' = (dated \ {d}) \cup {k}
            /\ LET named(c) == IF c = d THEN k ELSE c
               IN  earlier' = {<<named(p[1]), named(p[2])>> : p \in Without(k)}
       \/ /\ Found(d) = {}
          /\ dated' = dated \ {d}
          /\ earlier' = Without(d)
          /\ UNCHANGED <<data, recalc>>
    /\ daemon' = [daemon EXCEPT ![d] = Idle]
    /\ UNCHANGED <<results, known, invalid, cooling, writer, viewer, announced, spent>>

(***************************************************************************)
(* get_rendered_ranking: two queries, of the Ranking and then of its page. *)
(***************************************************************************)
LoadRanking(v, k) ==
    /\ viewer[v].pc = "idle"
    /\ known' = known \cup {k}
    /\ invalid' = IF k \in known THEN invalid ELSE invalid \cup {k}
    /\ viewer' = [viewer EXCEPT ![v] = [pc |-> "page", key |-> k, floor |-> announced,
                                         page |-> 0, upToDate |-> UpToDate(k)]]
    /\ UNCHANGED <<results, cooling, recalc, data, earlier, dated, daemon, writer,
                   announced, spent>>

ReadPage(v) ==
    /\ viewer[v].pc = "page"
    /\ viewer' = [viewer EXCEPT ![v].pc = "shown", ![v].page = data[viewer[v].key]]
    /\ UNCHANGED <<results, rows, daemon, writer, announced, spent>>

Leave(v) ==
    /\ viewer[v].pc = "shown"
    /\ viewer' = [viewer EXCEPT ![v] = [@ EXCEPT !.pc = "idle", !.upToDate = FALSE,
                                                 !.page = 0, !.floor = 0]]
    /\ UNCHANGED <<results, rows, daemon, writer, announced, spent>>

(***************************************************************************)
(* Disturbances                                                            *)
(***************************************************************************)
Disturb(kind) ==
    /\ kind \in Disturbances
    /\ spent < MaxDisturbances
    /\ spent' = spent + 1

\* rankingsd is stopped, or build_ranking raises; a new process starts.
DaemonDies(d) ==
    /\ daemon[d].pc # "idle"
    /\ Disturb("daemonDies")
    /\ recalc' = [k \in Keys |-> IF recalc[k] = d THEN Abandoned ELSE recalc[k]]
    /\ dated' = dated \ {d}
    /\ earlier' = Without(d)
    /\ daemon' = [daemon EXCEPT ![d] = Idle]
    /\ UNCHANGED <<results, known, invalid, cooling, data, writer, viewer, announced>>

\* A celery worker dies between the two steps of update_user_results.
WriterDies(w) ==
    /\ writer[w] # 0
    /\ Disturb("writerDies")
    /\ writer' = [writer EXCEPT ![w] = 0]
    /\ UNCHANGED <<results, rows, daemon, viewer, announced>>

Next ==
    \/ \E w \in Writers :
        \/ \E changed \in BOOLEAN : UpdateResults(w, changed)
        \/ Invalidate(w)
        \/ WriterDies(w)
    \/ \E k \in Keys : CooldownOver(k)
    \/ \E d \in Daemons :
        \/ \E k \in Keys : Choose(d, k)
        \/ Start(d)
        \/ Build(d)
        \/ Save(d)
        \/ DaemonDies(d)
    \/ \E v \in Viewers :
        \/ \E k \in Keys : LoadRanking(v, k)
        \/ ReadPage(v)
        \/ Leave(v)

Spec == Init /\ [][Next]_vars

\* rankingsd polls for ever, clocks advance and an update of the results
\* that does not die comes to its second step.
Fairness ==
    /\ \A d \in Daemons :
        WF_vars((\E k \in Keys : Choose(d, k)) \/ Start(d) \/ Build(d) \/ Save(d))
    /\ \A k \in Keys : WF_vars(CooldownOver(k))
    /\ \A w \in Writers : WF_vars(Invalidate(w))

FairSpec == Spec /\ Fairness

-----------------------------------------------------------------------------
(* Properties *)

\* A ranking that calls itself up to date includes every change of the
\* results that was announced to it, whatever recalculations overlap with
\* the invalidation (Ranking.is_up_to_date).
UpToDateIncludesAnnounced == \A k \in Keys : UpToDate(k) => data[k] >= announced

\* A page shown without the "outdated" note includes every change announced
\* before the request looked at the ranking, although the mark and the page
\* are read by separate queries.
ShownIsRecent ==
    \A v \in Viewers : viewer[v].pc = "shown" /\ viewer[v].upToDate =>
        viewer[v].page >= viewer[v].floor

\* A recalculation that was overtaken by a newer one never replaces its pages
\* (that is what RankingRecalc is for).
PagesNeverGoBack == [][\A k \in Keys : data'[k] >= data[k]]_data

\* A recalculation of a ranking is always some running daemon's, except
\* after a daemon died: no daemon works in vain for another one.
OneRecalculation ==
    \A k \in Keys : recalc[k] \in Daemons =>
        /\ daemon[recalc[k]].pc # "idle"
        /\ Found(recalc[k]) = {k}

\* Every announced change gets into every ranking that exists and was built
\* once, however often the rankings are invalidated meanwhile.
AnnouncedIsPublished ==
    \A k \in Keys, c \in 1 .. MaxChanges :
        (data[k] > 0 /\ announced >= c) ~> (data[k] >= c)
=============================================================================
