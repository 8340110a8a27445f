----------------------------- MODULE Notifications -----------------------------
(***************************************************************************)
(* Notifications from end to end: the server of NotifServer with the pages *)
(* of one user's browser (notifications/static/common/notifications.js),   *)
(* which share a local storage.                                            *)
(*                                                                         *)
(* A packet to the server is handled in the step that sends it: until it   *)
(* arrives the page could as well not have received what it receives       *)
(* meanwhile, and a packet that does not arrive has no effect.  The first  *)
(* packet of a socket is 'authenticate', in greeting until it arrives.     *)
(***************************************************************************)
EXTENDS NotifServer

CONSTANTS
    User,           \* whose browser it is
    Tabs,           \* pages
    Layouts,        \* bounds: the sockets each page may use, and the faults to come
    MaxClicks       \* bound: clicks of a page that are not answered

ASSUME NotificationsAssumption ==
    /\ User \in Users
    /\ \A l \in Layouts :
          /\ l.lines \in [Tabs -> Seq(Sockets)]
          /\ \A t \in Tabs : \A i \in DOMAIN l.lines[t] : Owner[l.lines[t][i]] = User
    /\ MaxClicks \in Nat

VARIABLES
    lines,          \* the sockets that a page uses one after the other
    page,           \* the socket a page is connected with
    greeting,       \* sockets whose 'authenticate' has not arrived yet
    shown,          \* messages: what the list of a page shows
    unconfirmed,    \* unconfirmedMessages
    count,          \* notifCount
    error,          \* the badge shows '!'
    storage         \* the messages in the local storage

tabState == <<shown, unconfirmed, count, error, storage>>
vars == <<serverVars, lines, page, greeting, tabState>>

\* The server's state, and what a page can hold.
TypeOK ==
    /\ ServerTypeOK
    /\ lines \in {l.lines : l \in Layouts}
    /\ page \in [Tabs -> Sockets \cup {None}]
    /\ greeting \subseteq Sockets
    /\ shown \in [Tabs -> SUBSET Messages]
    /\ unconfirmed \in [Tabs -> Seq(Messages)]
    /\ count \in [Tabs -> Nat]
    /\ error \in [Tabs -> BOOLEAN]
    /\ storage \subseteq Messages

Init ==
    /\ ServerInit
    /\ \E l \in Layouts : lines = l.lines /\ faults = l.faults
    /\ page = [t \in Tabs |-> None]
    /\ greeting = {}
    /\ shown = [t \in Tabs |-> {}]
    /\ unconfirmed = [t \in Tabs |-> << >>]
    /\ count = [t \in Tabs |-> 0]
    /\ error = [t \in Tabs |-> FALSE]
    /\ storage = {}

-----------------------------------------------------------------------------
(* The connection of a page *)

\* 'connect', for the first time or again: the page sends its session.
TabConnects(t) ==
    /\ page[t] = None
    /\ \E i \in DOMAIN lines[t] :
          /\ \A j \in 1..(i - 1) : conn[lines[t][j]] # "new"
          /\ Connect(lines[t][i])
          /\ page' = [page EXCEPT ![t] = lines[t][i]]
          /\ greeting' = greeting \cup {lines[t][i]}
    /\ UNCHANGED <<lines, tabState>>

\* The page finds that it is not connected any more, and notifWatchdog shows it
\* within two seconds; the server finds out later.
TabLoses(t) ==
    /\ page[t] # None
    /\ page' = [page EXCEPT ![t] = None]
    /\ error' = [error EXCEPT ![t] = TRUE]
    /\ UNCHANGED <<serverVars, lines, greeting, shown, unconfirmed, count, storage>>

\* The user reloads the page, or goes to another one.
Reload(t) ==
    /\ page' = [page EXCEPT ![t] = None]
    /\ shown' = [shown EXCEPT ![t] = {}]
    /\ unconfirmed' = [unconfirmed EXCEPT ![t] = << >>]
    /\ count' = [count EXCEPT ![t] = 0]
    /\ error' = [error EXCEPT ![t] = FALSE]
    /\ UNCHANGED <<serverVars, lines, greeting, storage>>

\* The server gets 'authenticate'.
Greeted(s) ==
    /\ s \in greeting
    /\ greeting' = greeting \ {s}
    /\ IF conn[s] = "open" THEN Authenticate(s) \/ AuthenticateCached(s)
       ELSE UNCHANGED serverVars
    /\ UNCHANGED <<lines, page, tabState>>

-----------------------------------------------------------------------------
(* What a page receives, and what its user clicks *)

\* The next packet of page t has this type.
Receives(t, type) ==
    /\ page[t] # None
    /\ wire[page[t]] # << >>
    /\ Head(wire[page[t]]).type = type
    /\ Receive(page[t])

\* updateNotifCount
ShowCount(t, n) ==
    /\ count' = [count EXCEPT ![t] = n]
    /\ error' = [error EXCEPT ![t] = FALSE]

OnAuthenticateAny(t) ==                                          \* mutant
    /\ Receives(t, "authenticate")
    /\ ShowCount(t, 0)
    /\ storage' \in SUBSET storage
    /\ shown' = [shown EXCEPT ![t] = @ \cup storage']
    /\ UNCHANGED <<lines, page, greeting, unconfirmed>>

\* The answer to 'authenticate': the storage is cleaned of the messages of more
\* than an hour ago, and what is left in it is shown.
OnAuthenticate(t) ==
    /\ Receives(t, "authenticate")
    /\ IF Head(wire[page[t]]).ok
       THEN /\ ShowCount(t, 0)
            /\ storage' \in SUBSET storage
            /\ shown' = [shown EXCEPT ![t] = @ \cup storage']
       ELSE /\ error' = [error EXCEPT ![t] = TRUE]
            /\ UNCHANGED <<count, storage, shown>>
    /\ UNCHANGED <<lines, page, greeting, unconfirmed>>

OnMessageReceivedAgain(t) ==                                     \* mutant
    LET id == Head(wire[page[t]]).id
    IN  /\ Receives(t, "message")
        /\ shown' = [shown EXCEPT ![t] = @ \cup {id}]
        /\ unconfirmed' = [unconfirmed EXCEPT ![t] = Append(@, id)]
        /\ ShowCount(t, count[t] + 1)
        /\ UNCHANGED <<lines, page, greeting, storage>>

\* 'message': one that is shown already is ignored.
OnMessageReceived(t) ==
    LET id == Head(wire[page[t]]).id
    IN  /\ Receives(t, "message")
        /\ IF id \in shown[t] THEN UNCHANGED <<shown, unconfirmed, count, error>>
           ELSE /\ shown' = [shown EXCEPT ![t] = @ \cup {id}]
                /\ unconfirmed' = [unconfirmed EXCEPT ![t] = Append(@, id)]
                /\ ShowCount(t, count[t] + 1)
        /\ UNCHANGED <<lines, page, greeting, storage>>

\* The answer to 'ack_nots': everything unconfirmed by now is stored.
OnAcknowledgeCompleted(t) ==
    /\ Receives(t, "ack_nots")
    /\ IF Head(wire[page[t]]).ok
       THEN /\ storage' = storage \cup RangeOf(unconfirmed[t])
            /\ ShowCount(t, 0)
       ELSE UNCHANGED <<storage, count, error>>
    /\ UNCHANGED <<lines, page, greeting, shown, unconfirmed>>

\* A click on the list: acknowledgeMessages names all that is unconfirmed.
AcknowledgeMessages(t) ==
    LET s == page[t]
        ids == unconfirmed[t]
    IN  /\ s # None
        /\ ids # << >>
        /\ s \notin greeting
        /\ Len(SelectSeq(wire[s], LAMBDA p : p.type = "ack_nots")) < MaxClicks
        /\ AckNots(s, ids) \/ AckRaises(s, ids) \/ AckUnauthorized(s)
        /\ UNCHANGED <<lines, page, greeting, tabState>>

-----------------------------------------------------------------------------

TabStep(t) ==
    \/ TabConnects(t) \/ TabLoses(t) \/ Reload(t)
    \/ OnAuthenticate(t) \/ OnMessageReceived(t) \/ OnAcknowledgeCompleted(t)
    \/ AcknowledgeMessages(t)

\* Steps of the server and the broker in which no browser takes part.
ServerStep ==
    /\ \/ ContextReady \/ InitContext \/ Restart
       \/ \E forced, restarted \in BOOLEAN : ContextClosed(forced, restarted)
       \/ \E u \in Users : Deliver(u) \/ WorkerClosed(u) \/ \E m \in Messages : Publish(u, m)
       \/ \E s \in Sockets : Disconnect(s) \/ \E ok \in BOOLEAN : AuthAnswered(s, ok)
    /\ UNCHANGED <<lines, page, greeting, tabState>>

Next == ServerStep \/ (\E t \in Tabs : TabStep(t)) \/ (\E s \in Sockets : Greeted(s))

Spec == Init /\ [][Next]_vars

Server(A) == A /\ UNCHANGED <<lines, page, greeting, tabState>>

\* The broker, the sockets, the processes and OIOIOI answer in the end.
Fairness ==
    /\ WF_vars(Server(ContextReady))
    /\ WF_vars(Server(InitContext))
    /\ \A u \in Users : WF_vars(Server(Deliver(u))) /\ WF_vars(Server(WorkerClosed(u)))
    /\ \A s \in Sockets :
          /\ WF_vars(Greeted(s))
          /\ WF_vars(Server(\E ok \in BOOLEAN : AuthAnswered(s, ok)))
    /\ \A t \in Tabs :
          WF_vars(OnAuthenticate(t) \/ OnMessageReceived(t) \/ OnAcknowledgeCompleted(t))

FairSpec == Spec /\ Fairness

-----------------------------------------------------------------------------
(* Properties *)

\* What was acknowledged had reached a page, and a page of its user named it: the
\* ids and the ack()s, which have none, never get out of step.
ReadWasShown ==
    \A u \in Users :
        RangeOf(acked[u]) \subseteq confirmed[u] \cap UNION {got[s] : s \in Sockets}

Pending(s) == s \in greeting \/ s \in asking \/ \E p \in RangeOf(wire[s]) : p.type = "authenticate"

\* A number on the badge says that the page is logged in or about to be: one
\* whose session was refused shows '!', whatever it clicks and receives.
HonestBadge ==
    \A t \in Tabs :
        LET s == page[t]
        IN  s # None /\ conn[s] = "open" /\ ~error[t] => s \in users[User] \/ Pending(s)

\* The pages of a user number their new messages: the badge never counts more
\* than there are in the list, and a message is new at most once in a page.
CountsNew ==
    \A t \in Tabs :
        /\ count[t] <= Len(unconfirmed[t])
        /\ \A i, j \in DOMAIN unconfirmed[t] :
              unconfirmed[t][i] = unconfirmed[t][j] => i = j

Waits(s) == \E t \in Tabs : page[t] = s /\ conn[s] = "open"
Attends(s) == Waits(s) /\ s \in users[User]

\* A connected page is logged in in the end, or says that it is not.
LogsInOrSays ==
    \A s \in Sockets :
        Waits(s) ~> (~Waits(s) \/ s \in users[User]
                     \/ \E t \in Tabs : page[t] = s /\ error[t])

\* While the user has a worker, a page that is logged in gets every message that
\* waits, those that were sent before it logged in included.
Arrives ==
    \A s \in Sockets : \A m \in Messages :
        (Attends(s) /\ worker[User] = "open"
           /\ m \in RangeOf(queue[User]) \cup RangeOf(inflight[User]))
        ~> (~Attends(s) \/ worker[User] # "open" \/ m \in RangeOf(acked[User])
            \/ \E t \in Tabs : page[t] = s /\ m \in shown[t])

\* "Upon successful completion, all messages addressed to associated user will
\* be forwarded to this socket until it disconnects" (notifications-server.js).
Forwarded ==
    \A s \in Sockets : \A m \in Messages :
        (Attends(s) /\ m \in published[User])
        ~> (~Attends(s) \/ m \in got[s] \/ m \in RangeOf(acked[User]))
=============================================================================
