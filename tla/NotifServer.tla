------------------------------ MODULE NotifServer ------------------------------
(***************************************************************************)
(* The notifications server (oioioi/notifications/server): a node process  *)
(* between the RabbitMQ queues of the users and the sockets of their       *)
(* browsers.  auth.js keeps which socket is whose, queuemanager.js keeps   *)
(* one worker per user with a socket and the messages that it has not      *)
(* acknowledged, and notifications-server.js connects the two.             *)
(*                                                                         *)
(* A callback of node runs to its end, so each is one step.  The broker    *)
(* and its client library rabbit.js, the sockets and the browsers are      *)
(* external: a worker takes the messages of its queue in order, ack()      *)
(* takes its oldest message off the broker, close() gives the others back  *)
(* and is followed by a 'close' event, ack() on a closed worker raises.    *)
(* An exception ends the process, which is started again.                  *)
(***************************************************************************)
EXTENDS Naturals, Sequences

CONSTANTS
    Users,
    Sockets,        \* connections; each is made and closed once
    Messages,       \* notifications, named by their uuid
    None,           \* no user, no message, no socket
    Owner,          \* Owner[s]: the user whose session the page of s is in
    MaxUnsent,      \* bound: ack()s that are still in the buffers of a connection
    MaxFaults       \* bound: losses of the broker's connection, and restarts

ASSUME NotifServerAssumption ==
    /\ None \notin Users \cup Messages \cup Sockets
    /\ Owner \in [Sockets -> Users]
    /\ MaxUnsent \in Nat
    /\ MaxFaults \in Nat

VARIABLES
    queue,          \* the broker: the messages in each user's queue, and ...
    inflight,       \* ... those its worker has and has not acknowledged
    worker,         \* workers: "none", "open", or "closing" until 'close'
    unack,          \* the keys of unackMessages, in the order they were added
    context,        \* the context: "starting", "connecting", "ready" or "lost"
    rabbit_ready,
    workers_connected,
    conn,           \* the sockets: "new", "open" or "closed"
    asking,         \* sockets whose session is being asked for at OIOIOI
    cached,         \* session_id_cache: the users whose session is in it
    sockets,        \* the user a socket has logged in as
    users,          \* the sockets of a user
    wire,           \* packets on their way to a browser
    published,      \* history: the messages sent to each user, ...
    got,            \* ... those that reached the browser of a socket, ...
    confirmed,      \* ... those browsers of a user asked to acknowledge, ...
    acked,          \* ... and the ack()s of the server, in their order
    faults          \* losses of the broker's connection and restarts to come

broker == <<queue, inflight>>
link == <<context, rabbit_ready, workers_connected>>
logins == <<conn, asking, cached, sockets, users>>
serverVars == <<broker, worker, unack, link, logins, wire,
                published, got, confirmed, acked, faults>>

Packets ==
    [type : {"message"}, ok : {TRUE}, id : Messages]
      \cup [type : {"authenticate", "ack_nots"}, ok : BOOLEAN, id : {None}]
Reply(type, ok) == [type |-> type, ok |-> ok, id |-> None]
Message(id) == [type |-> "message", ok |-> TRUE, id |-> id]

\* Every variable holds a value the code or the broker can give it.
ServerTypeOK ==
    /\ queue \in [Users -> Seq(Messages)]
    /\ inflight \in [Users -> Seq(Messages)]
    /\ worker \in [Users -> {"none", "open", "closing"}]
    /\ unack \in [Users -> Seq(Messages)]
    /\ context \in {"starting", "connecting", "ready", "lost"}
    /\ rabbit_ready \in BOOLEAN
    /\ workers_connected \subseteq Users
    /\ conn \in [Sockets -> {"new", "open", "closed"}]
    /\ asking \subseteq Sockets
    /\ cached \subseteq Users
    /\ sockets \in [Sockets -> Users \cup {None}]
    /\ users \in [Users -> SUBSET Sockets]
    /\ wire \in [Sockets -> Seq(Packets)]
    /\ published \in [Users -> SUBSET Messages]
    /\ got \in [Sockets -> SUBSET Messages]
    /\ confirmed \in [Users -> SUBSET Messages]
    /\ acked \in [Users -> Seq(Messages)]
    /\ faults \in Nat

ServerInit ==
    /\ queue = [u \in Users |-> << >>]
    /\ inflight = [u \in Users |-> << >>]
    /\ worker = [u \in Users |-> "none"]
    /\ unack = [u \in Users |-> << >>]
    /\ context = "starting"
    /\ rabbit_ready = FALSE
    /\ workers_connected = {}
    /\ conn = [s \in Sockets |-> "new"]
    /\ asking = {}
    /\ cached = {}
    /\ sockets = [s \in Sockets |-> None]
    /\ users = [u \in Users |-> {}]
    /\ wire = [s \in Sockets |-> << >>]
    /\ published = [u \in Users |-> {}]
    /\ got = [s \in Sockets |-> {}]
    /\ confirmed = [u \in Users |-> {}]
    /\ acked = [u \in Users |-> << >>]
    /\ faults \in 0..MaxFaults

-----------------------------------------------------------------------------
(* Packets *)

RangeOf(seq) == {seq[i] : i \in DOMAIN seq}

\* The ids of the messages on their way to the browser of s.
Coming(s) == {p.id : p \in {q \in RangeOf(wire[s]) : q.type = "message"}}

\* One packet to the sockets in ss: what is emitted to a closed one is lost.
Emit(ss, packet) ==
    wire' = [s \in Sockets |-> IF s \in ss /\ conn[s] = "open"
                               THEN Append(wire[s], packet) ELSE wire[s]]

-----------------------------------------------------------------------------
(* queuemanager.js *)

\* subscribe does nothing for a user who has a worker, and before 'ready'.
Subscribes(u) == worker[u] = "none" /\ rabbit_ready

SubscribeAllKeeping(us) ==                                       \* mutant
    /\ worker' = [u \in Users |-> IF u \in us THEN "open" ELSE worker[u]]
    /\ UNCHANGED unack

\* workers[u] is made for the users in us that have none.
SubscribeAll(us) ==
    /\ worker' = [u \in Users |-> IF u \in us THEN "open" ELSE worker[u]]
    /\ unack' = [u \in Users |-> IF u \in us THEN << >> ELSE unack[u]]

\* What the broker puts back before the rest of the queue of u: the messages its
\* worker has not acknowledged, and the last k it has, if those ack()s are lost.
Returned(u, k) == SubSeq(acked[u], Len(acked[u]) - k + 1, Len(acked[u])) \o inflight[u]

\* The workers of us are closed.
Closed(us) ==
    /\ worker' = [u \in Users |-> IF u \in us /\ worker[u] = "open" THEN "closing" ELSE worker[u]]
    /\ inflight' = [u \in Users |-> IF u \in us THEN << >> ELSE inflight[u]]

\* The ack()s that are lost with the connection: the last ones of each user.
Unsent == {lost \in [Users -> 0..MaxUnsent] : \A u \in Users : lost[u] <= Len(acked[u])}

LoseAcks(lost) ==
    acked' = [u \in Users |-> SubSeq(acked[u], 1, Len(acked[u]) - lost[u])]

\* The message is added under its id.
Kept(keys, id) == IF id \in RangeOf(keys) THEN keys ELSE Append(keys, id)

\* The 'data' event of a worker.
Deliver(u) ==
    /\ worker[u] = "open"
    /\ queue[u] # << >>
    /\ LET m == Head(queue[u])
       IN  /\ queue' = [queue EXCEPT ![u] = Tail(@)]
           /\ inflight' = [inflight EXCEPT ![u] = Append(@, m)]
           /\ unack' = [unack EXCEPT ![u] = Kept(@, m)]
           /\ Emit(users[u], Message(m))
    /\ UNCHANGED <<worker, link, logins, published, got, confirmed, acked, faults>>

\* The 'close' event of a worker.
WorkerClosed(u) ==
    /\ worker[u] = "closing"
    /\ worker' = [worker EXCEPT ![u] = "none"]
    /\ UNCHANGED <<broker, unack, link, logins, wire, published, got, confirmed, acked, faults>>

\* The context is made; its 'ready' subscribes the users in workers_connected.
ContextReady ==
    /\ context \in {"starting", "connecting"}
    /\ context' = "ready"
    /\ rabbit_ready' = TRUE
    /\ SubscribeAll({u \in workers_connected : worker[u] = "none"})
    /\ UNCHANGED <<broker, workers_connected, logins, wire, published, got, confirmed, acked, faults>>

\* The connection to the broker goes: by an error CONNECTION-FORCED and
\* 'close', or by 'close' alone.  The queues are durable and the messages are
\* not persistent, so a broker that was restarted has lost them.
ContextClosed(forced, restarted) ==
    /\ context = "ready"
    /\ faults > 0
    /\ faults' = faults - 1
    /\ context' = "lost"
    /\ rabbit_ready' = FALSE
    /\ workers_connected' = IF forced THEN {u \in Users : worker[u] # "none"}
                            ELSE workers_connected
    /\ \E lost \in Unsent :
          /\ queue' = [u \in Users |-> IF restarted THEN << >>
                                      ELSE Returned(u, lost[u]) \o queue[u]]
          /\ LoseAcks(lost)
    /\ Closed(Users)
    /\ UNCHANGED <<unack, logins, wire, published, got, confirmed>>

\* RETRY_WAIT is over: a new context, no workers, no messages.
InitContext ==
    /\ context = "lost"
    /\ context' = "connecting"
    /\ worker' = [u \in Users |-> "none"]
    /\ unack' = [u \in Users |-> << >>]
    /\ UNCHANGED <<broker, rabbit_ready, workers_connected, logins, wire, published, got,
                   confirmed, acked, faults>>

TakesBlindly(keys, ids, k) == k <= Len(ids) /\ k <= Len(keys)     \* mutant

\* The number of the first keys that acknowledging ids in turn takes away: each
\* call takes the first key, if that is the id.
Takes(keys, ids, k) ==
    \E at \in [1..k -> DOMAIN ids] :
        /\ \A i, j \in 1..k : i < j => at[i] < at[j]
        /\ \A i \in 1..k : keys[i] = ids[at[i]]

Acknowledges(keys, ids, k) ==
    Takes(keys, ids, k) /\ \A j \in 0..Len(keys) : Takes(keys, ids, j) => j <= k

ForgottenNone(keys, k) == keys                                   \* mutant

\* unackMessages without the keys that were taken.
Forgotten(keys, k) == SubSeq(keys, k + 1, Len(keys))

-----------------------------------------------------------------------------
(* auth.js and notifications-server.js *)

\* A browser connects; the server listens once the first context is ready.
Connect(s) ==
    /\ context # "starting"
    /\ conn[s] = "new"
    /\ conn' = [conn EXCEPT ![s] = "open"]
    /\ UNCHANGED <<broker, worker, unack, link, asking, cached, sockets, users, wire,
                   published, got, confirmed, acked, faults>>

RetransmittedNone(u) == << >>                                    \* mutant

RetransmittedOldest(u) ==                                        \* mutant
    [i \in DOMAIN unack[u] \cap {1} |-> Message(unack[u][i])]

\* retransmitNotifications
Retransmitted(u) == [i \in DOMAIN unack[u] |-> Message(unack[u][i])]

\* login is called back with a user: the first socket of a user subscribes, and
\* what the user has not acknowledged is sent again, to every socket of the user.
LoggedIn(s) ==
    LET u == Owner[s]
        first == users[u] = {} /\ Subscribes(u)
        again == IF first THEN << >> ELSE Retransmitted(u)
        answer == <<Reply("authenticate", TRUE)>>
    IN  /\ sockets' = [sockets EXCEPT ![s] = u]
        /\ users' = [users EXCEPT ![u] = @ \cup {s}]
        /\ SubscribeAll(IF first THEN {u} ELSE {})
        /\ wire' = [t \in Sockets |->
                      IF conn[t] # "open" THEN wire[t]
                      ELSE IF t = s THEN (wire[t] \o answer) \o again
                      ELSE IF t \in users[u] THEN wire[t] \o again
                      ELSE wire[t]]

\* 'authenticate' with a session that is in the cache.
AuthenticateCached(s) ==
    /\ conn[s] = "open"
    /\ s \notin asking
    /\ sockets[s] = None
    /\ Owner[s] \in cached
    /\ LoggedIn(s)
    /\ UNCHANGED <<broker, link, conn, asking, cached, published, got, confirmed, acked, faults>>

\* 'authenticate' with another one, or one whose entry has expired.
Authenticate(s) ==
    /\ conn[s] = "open"
    /\ s \notin asking
    /\ sockets[s] = None
    /\ asking' = asking \cup {s}
    /\ UNCHANGED <<broker, worker, unack, link, conn, cached, sockets, users, wire, published,
                   got, confirmed, acked, faults>>

AuthAnsweredOnSuccess(s, ok) ==                                  \* mutant
    /\ s \in asking
    /\ asking' = asking \ {s}
    /\ IF ok
       THEN LoggedIn(s) /\ cached' = cached \cup {Owner[s]}
       ELSE UNCHANGED <<worker, unack, sockets, users, cached, wire>>
    /\ UNCHANGED <<broker, link, conn, published, got, confirmed, acked, faults>>

\* OIOIOI answers; the socket may be closed by now.
AuthAnswered(s, ok) ==
    /\ s \in asking
    /\ asking' = asking \ {s}
    /\ IF ok
       THEN LoggedIn(s) /\ cached' = cached \cup {Owner[s]}
       ELSE Emit({s}, Reply("authenticate", FALSE)) /\ UNCHANGED <<worker, unack, sockets, users, cached>>
    /\ UNCHANGED <<broker, link, conn, published, got, confirmed, acked, faults>>

\* 'disconnect': logout unsubscribes with the last socket of the user.
Disconnect(s) ==
    LET u == sockets[s]
        last == u # None /\ users[u] = {s}
        closes == IF last /\ worker[u] # "none" THEN {u} ELSE {}
    IN  /\ conn[s] = "open"
        /\ conn' = [conn EXCEPT ![s] = "closed"]
        /\ wire' = [wire EXCEPT ![s] = << >>]
        /\ users' = [v \in Users |-> users[v] \ IF v = u THEN {s} ELSE {}]
        /\ sockets' = [sockets EXCEPT ![s] = None]
        /\ Closed(closes)
        /\ queue' = [v \in Users |-> (IF v \in closes THEN Returned(v, 0) ELSE << >>) \o queue[v]]
        /\ UNCHANGED <<unack, link, asking, cached, published, got, confirmed, acked, faults>>

\* 'ack_nots' from a socket that is not logged in.
AckUnauthorized(s) ==
    /\ conn[s] = "open"
    /\ sockets[s] = None
    /\ Emit({s}, Reply("ack_nots", FALSE))
    /\ UNCHANGED <<broker, worker, unack, link, logins, published, got, confirmed, acked, faults>>

\* 'ack_nots': k of the messages are acknowledged, and the answer is OK.
AckNots(s, ids) ==
    LET u == sockets[s]
    IN  /\ conn[s] = "open"
        /\ u # None
        /\ \E k \in 0..Len(unack[u]) :
              /\ Acknowledges(unack[u], ids, k)
              /\ k > 0 => worker[u] = "open"
              /\ unack' = [unack EXCEPT ![u] = Forgotten(@, k)]
              /\ inflight' = [inflight EXCEPT ![u] =
                                IF k > 0 THEN SubSeq(@, k + 1, Len(@)) ELSE @]
              /\ acked' = [acked EXCEPT ![u] = @ \o SubSeq(inflight[u], 1, k)]
        /\ confirmed' = [confirmed EXCEPT ![u] = @ \cup RangeOf(ids)]
        /\ Emit({s}, Reply("ack_nots", TRUE))
        /\ UNCHANGED <<queue, worker, link, logins, published, got, faults>>

\* The process ends and is started again.
Restarted ==
    /\ \E lost \in Unsent :
          /\ queue' = [u \in Users |-> Returned(u, lost[u]) \o queue[u]]
          /\ LoseAcks(lost)
    /\ inflight' = [u \in Users |-> << >>]
    /\ worker' = [u \in Users |-> "none"]
    /\ unack' = [u \in Users |-> << >>]
    /\ context' = "starting"
    /\ rabbit_ready' = FALSE
    /\ workers_connected' = {}
    /\ conn' = [s \in Sockets |-> IF conn[s] = "open" THEN "closed" ELSE conn[s]]
    /\ asking' = {}
    /\ cached' = {}
    /\ sockets' = [s \in Sockets |-> None]
    /\ users' = [u \in Users |-> {}]
    /\ wire' = [s \in Sockets |-> << >>]
    /\ UNCHANGED <<published, got>>

\* 'ack_nots' when the worker of the user is closed: ack() raises, which nothing
\* catches.
AckRaises(s, ids) ==
    LET u == sockets[s]
    IN  /\ conn[s] = "open"
        /\ u # None
        /\ worker[u] # "open"
        /\ \E k \in 1..Len(unack[u]) : Takes(unack[u], ids, k)
        /\ confirmed' = [confirmed EXCEPT ![u] = @ \cup RangeOf(ids)]
        /\ Restarted
        /\ UNCHANGED faults

\* Someone stops the process, or it ends for another reason.
Restart ==
    /\ faults > 0
    /\ faults' = faults - 1
    /\ Restarted
    /\ UNCHANGED confirmed

-----------------------------------------------------------------------------
(* The other programs *)

\* OIOIOI sends a notification to a user (base/notification.py).
Publish(u, m) ==
    /\ \A v \in Users : m \notin published[v]
    /\ published' = [published EXCEPT ![u] = @ \cup {m}]
    /\ queue' = [queue EXCEPT ![u] = Append(@, m)]
    /\ UNCHANGED <<inflight, worker, unack, link, logins, wire, got, confirmed, acked, faults>>

\* The next packet of a socket reaches its browser.
Receive(s) ==
    /\ wire[s] # << >>
    /\ wire' = [wire EXCEPT ![s] = Tail(@)]
    /\ got' = [got EXCEPT ![s] = @ \cup ({Head(wire[s]).id} \ {None})]
    /\ UNCHANGED <<broker, worker, unack, link, logins, published, confirmed, acked, faults>>

-----------------------------------------------------------------------------

ServerNext ==
    \/ ContextReady \/ InitContext \/ Restart
    \/ \E forced, restarted \in BOOLEAN : ContextClosed(forced, restarted)
    \/ \E u \in Users : Deliver(u) \/ WorkerClosed(u) \/ \E m \in Messages : Publish(u, m)
    \/ \E s \in Sockets :
          \/ Connect(s) \/ AuthenticateCached(s) \/ Authenticate(s) \/ Disconnect(s)
          \/ AckUnauthorized(s) \/ Receive(s)
          \/ \E ok \in BOOLEAN : AuthAnswered(s, ok)
          \/ \E ids \in Seq(Messages) : AckNots(s, ids) \/ AckRaises(s, ids)

ServerSpec == ServerInit /\ [][ServerNext]_serverVars

-----------------------------------------------------------------------------
(* Properties *)

\* What the server holds for a user is what the broker waits for, in the same
\* order: acknowledge() compares an id with the first key of the server, and
\* ack() takes the first message of the broker.
Mirror == \A u \in Users : worker[u] = "open" => unack[u] = inflight[u]

\* A message is only acknowledged when a browser of its user named it: the ids
\* and the ack()s, which have none, never get out of step.
AckedWasNamed == \A u \in Users : RangeOf(acked[u]) \subseteq confirmed[u]

\* "No socket will receive it anymore" (queuemanager.js): a message that was
\* acknowledged is in no queue and not held by the server any more.
AckedIsGone ==
    \A u \in Users :
        RangeOf(acked[u]) \cap (RangeOf(queue[u]) \cup RangeOf(inflight[u]) \cup RangeOf(unack[u])) = {}

\* A socket that is logged in has every message the server holds for its user, or
\* it is on its way: messages that come while a login is answered are not missed.
NothingMissed ==
    \A u \in Users : \A s \in users[u] :
        conn[s] = "open" => RangeOf(unack[u]) \subseteq got[s] \cup Coming(s)
=============================================================================
