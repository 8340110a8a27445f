---------------------------- MODULE MCNotifications ----------------------------
EXTENDS Notifications, TLC

CONSTANTS u1, t1, t2, a1, a2, b1, m1, m2

MCOwner == [s \in Sockets |-> u1]

\* Two pages at a time, or a page that is connected again, which may be after
\* the server lost the broker or was restarted.
MCLayouts ==
    {[lines |-> (t1 :> <<a1>>) @@ (t2 :> <<b1>>), faults |-> 0],
     [lines |-> (t1 :> <<a1, a2>>) @@ (t2 :> << >>), faults |-> 1]}

\* The second one alone; without faults.
MCReconnect == {[lines |-> (t1 :> <<a1, a2>>) @@ (t2 :> << >>), faults |-> 1]}

MCQuiet == {[lines |-> (t1 :> <<a1, a2>>) @@ (t2 :> << >>), faults |-> 0]}
=============================================================================
