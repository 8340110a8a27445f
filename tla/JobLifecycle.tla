---------------------------- MODULE JobLifecycle ----------------------------
(***************************************************************************)
(* What the evaluation manager promises about its jobs: a job is started   *)
(* once, its phases are executed one after another, and once it has ended  *)
(* (finished, failed, cancelled or dropped) nothing is executed for it.    *)
(***************************************************************************)
EXTENDS Naturals

CONSTANTS Jobs, PhaseCount

VARIABLES status, done

lifecycleVars == <<status, done>>

LifecycleInit ==
    /\ status = [j \in Jobs |-> "new"]
    /\ done = [j \in Jobs |-> 0]

\* delay_environ is called with the environ of a new job.
Start(j) ==
    /\ status[j] = "new"
    /\ status' = [status EXCEPT ![j] = "active"]
    /\ UNCHANGED done

\* One more phase of the recipe is executed.
Advance(j) ==
    /\ status[j] = "active"
    /\ done[j] < PhaseCount
    /\ done' = [done EXCEPT ![j] = @ + 1]
    /\ UNCHANGED status

\* The job has been executed to the end, or given up.
End(j) ==
    /\ status[j] = "active"
    /\ status' = [status EXCEPT ![j] = "ended"]
    /\ UNCHANGED done

LifecycleNext == \E j \in Jobs : Start(j) \/ Advance(j) \/ End(j)

LifecycleSpec == LifecycleInit /\ [][LifecycleNext]_lifecycleVars

\* A job that was started ends.
FairLifecycle ==
    LifecycleSpec /\ \A j \in Jobs : WF_lifecycleVars(Advance(j) \/ End(j))
=============================================================================
