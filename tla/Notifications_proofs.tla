-------------------------- MODULE Notifications_proofs --------------------------
(***************************************************************************)
(* Proofs about the notifications, for any number of users, sockets,       *)
(* messages, pages and faults.                                             *)
(*                                                                         *)
(* First about the server alone with any clients, ServerSpec: what is      *)
(* acknowledged at the broker was named by a browser of its user and does  *)
(* not come back, and a socket that is logged in has all the messages that *)
(* the server holds for its user.                                          *)
(*                                                                         *)
(* Then about Spec, the server with pages.  They are clients of it, so     *)
(* what is proved of the server holds of the whole.  What is acknowledged  *)
(* was received, the badge counts messages that are new in its page, and   *)
(* says so when the page's session was refused.                            *)
(***************************************************************************)
EXTENDS Notifications, SequenceTheorems, TLAPS

Distinct(s) == \A i, j \in DOMAIN s : s[i] = s[j] => i = j

\* All messages of a user that were not lost, in the order they were sent.
Track(u) == (acked[u] \o inflight[u]) \o queue[u]

\* Each message is in one place.
Placed ==
    \A u \in Users : Distinct(Track(u)) /\ RangeOf(Track(u)) \subseteq published[u]

\* A worker that is not open has no message, and one that is has a context.
Attached ==
    \A u \in Users : /\ worker[u] = "open" => rabbit_ready
                     /\ worker[u] # "open" => inflight[u] = << >>

ContextReadiness == rabbit_ready <=> context = "ready"

\* Only sockets that were connected log in.
Connected ==
    /\ \A s \in asking : conn[s] # "new"
    /\ \A u \in Users : \A s \in users[u] : conn[s] # "new"

AckedNotHeld == \A u \in Users : RangeOf(acked[u]) \cap RangeOf(unack[u]) = {}

IInv ==
    /\ ServerTypeOK /\ ContextReadiness /\ Attached /\ Connected /\ Placed
    /\ Mirror /\ AckedNotHeld /\ AckedWasNamed /\ NothingMissed

-----------------------------------------------------------------------------
(* Sequences *)

LEMMA RangeOfConcat ==
    ASSUME NEW S, NEW s \in Seq(S), NEW t \in Seq(S)
    PROVE  RangeOf(s \o t) = RangeOf(s) \cup RangeOf(t)
<1>1. /\ DOMAIN s = 1..Len(s) /\ DOMAIN t = 1..Len(t) /\ DOMAIN (s \o t) = 1..(Len(s) + Len(t))
      /\ Len(s) \in Nat /\ Len(t) \in Nat
  BY ConcatProperties, LenProperties
<1>2. \A i \in 1..(Len(s) + Len(t)) : (s \o t)[i] = IF i <= Len(s) THEN s[i] ELSE t[i - Len(s)]
  BY ConcatProperties
<1>3. RangeOf(s \o t) \subseteq RangeOf(s) \cup RangeOf(t)
  BY <1>1, <1>2 DEF RangeOf
<1>4. ASSUME NEW i \in DOMAIN s PROVE s[i] \in RangeOf(s \o t)
  <2>1. i \in DOMAIN (s \o t) /\ (s \o t)[i] = s[i]
    BY <1>1, <1>2
  <2> QED BY <2>1 DEF RangeOf
<1>5. ASSUME NEW i \in DOMAIN t PROVE t[i] \in RangeOf(s \o t)
  <2>1. i + Len(s) \in DOMAIN (s \o t) /\ (s \o t)[i + Len(s)] = t[i]
    BY <1>1, <1>2
  <2> QED BY <2>1 DEF RangeOf
<1>6. RangeOf(s) \subseteq RangeOf(s \o t) /\ RangeOf(t) \subseteq RangeOf(s \o t)
  BY <1>4, <1>5 DEF RangeOf
<1> QED BY <1>3, <1>6

LEMMA RangeOfAppend ==
    ASSUME NEW S, NEW s \in Seq(S), NEW e \in S
    PROVE  RangeOf(Append(s, e)) = RangeOf(s) \cup {e}
<1>1. <<e>> \in Seq(S) /\ RangeOf(<<e>>) = {e}
  BY DEF RangeOf
<1>2. RangeOf(s \o <<e>>) = RangeOf(s) \cup RangeOf(<<e>>)
  BY <1>1, RangeOfConcat
<1>3. Append(s, e) = s \o <<e>>
  BY AppendIsConcat
<1> QED BY <1>1, <1>2, <1>3

\* The parts of a sequence in which every message is once have none in common.
LEMMA DistinctParts ==
    ASSUME NEW S, NEW s \in Seq(S), NEW t \in Seq(S), Distinct(s \o t)
    PROVE  /\ Distinct(s) /\ Distinct(t)
           /\ RangeOf(s) \cap RangeOf(t) = {}
<1>1. /\ DOMAIN s = 1..Len(s) /\ DOMAIN t = 1..Len(t) /\ DOMAIN (s \o t) = 1..(Len(s) + Len(t))
      /\ Len(s) \in Nat /\ Len(t) \in Nat
  BY ConcatProperties, LenProperties
<1>2. \A i \in 1..(Len(s) + Len(t)) : (s \o t)[i] = IF i <= Len(s) THEN s[i] ELSE t[i - Len(s)]
  BY ConcatProperties
<1>3. \A i \in DOMAIN s : i \in DOMAIN (s \o t) /\ (s \o t)[i] = s[i]
  BY <1>1, <1>2
<1>4. \A i \in DOMAIN t : i + Len(s) \in DOMAIN (s \o t) /\ (s \o t)[i + Len(s)] = t[i]
  BY <1>1, <1>2
<1>5. Distinct(s)
  BY <1>3 DEF Distinct
<1>6. ASSUME NEW i \in DOMAIN t, NEW j \in DOMAIN t, t[i] = t[j] PROVE i = j
  <2>1. i + Len(s) = j + Len(s)
    BY <1>4, <1>6 DEF Distinct
  <2> QED BY <2>1, <1>1
<1>7. ASSUME NEW i \in DOMAIN s, NEW j \in DOMAIN t, s[i] = t[j] PROVE FALSE
  <2>1. i = j + Len(s)
    BY <1>3, <1>4, <1>7 DEF Distinct
  <2> QED BY <2>1, <1>1
<1> QED BY <1>5, <1>6, <1>7 DEF Distinct, RangeOf

LEMMA DistinctAppend ==
    ASSUME NEW S, NEW s \in Seq(S), NEW e \in S, Distinct(s), e \notin RangeOf(s)
    PROVE  Distinct(Append(s, e))
<1>1. /\ DOMAIN s = 1..Len(s) /\ Len(s) \in Nat /\ DOMAIN Append(s, e) = 1..(Len(s) + 1)
      /\ \A i \in 1..Len(s) : Append(s, e)[i] = s[i]
      /\ Append(s, e)[Len(s) + 1] = e
  BY AppendProperties, LenProperties
<1> QED BY <1>1 DEF Distinct, RangeOf

\* The first k and the others.
LEMMA Cut ==
    ASSUME NEW S, NEW s \in Seq(S), NEW k \in Nat, k <= Len(s)
    PROVE  /\ SubSeq(s, 1, k) \in Seq(S) /\ SubSeq(s, k + 1, Len(s)) \in Seq(S)
           /\ Len(SubSeq(s, 1, k)) = k
           /\ \A i \in 1..k : SubSeq(s, 1, k)[i] = s[i]
           /\ SubSeq(s, 1, k) \o SubSeq(s, k + 1, Len(s)) = s
<1>1. Len(s) \in Nat /\ \A i \in 1..Len(s) : s[i] \in S
  BY LenProperties, ElementOfSeq
<1>2. /\ SubSeq(s, 1, k) \in Seq(S) /\ Len(SubSeq(s, 1, k)) = k
      /\ \A i \in 1..k : SubSeq(s, 1, k)[i] = s[i]
  <2>1. \A i \in 1..k : s[i] \in S
    BY <1>1
  <2>2. /\ SubSeq(s, 1, k) \in Seq(S)
        /\ Len(SubSeq(s, 1, k)) = IF 1 <= k THEN k - 1 + 1 ELSE 0
        /\ \A i \in 1..(k - 1 + 1) : SubSeq(s, 1, k)[i] = s[1 + i - 1]
    BY <2>1, SubSeqProperties
  <2> QED BY <2>2
<1>3. SubSeq(s, k + 1, Len(s)) \in Seq(S)
  <2>1. \A i \in (k + 1)..Len(s) : s[i] \in S
    BY <1>1
  <2> QED BY <1>1, <2>1, SubSeqProperties
<1>4. SubSeq(s, 1, k) \o SubSeq(s, k + 1, Len(s)) = SubSeq(s, 1, Len(s))
  <2>1. 1 \in 1..(Len(s) + 1) /\ k \in (1 - 1)..Len(s) /\ Len(s) \in k..Len(s)
    BY <1>1
  <2> QED BY <2>1, ConcatAdjacentSubSeq
<1>5. SubSeq(s, 1, Len(s)) = s
  BY SubSeqFull
<1> QED BY <1>2, <1>3, <1>4, <1>5

LEMMA RangeOfCut ==
    ASSUME NEW S, NEW s \in Seq(S), NEW k \in Nat, k <= Len(s)
    PROVE  /\ RangeOf(s) = RangeOf(SubSeq(s, 1, k)) \cup RangeOf(SubSeq(s, k + 1, Len(s)))
           /\ RangeOf(SubSeq(s, 1, k)) = {s[i] : i \in 1..k}
<1>1. RangeOf(s) = RangeOf(SubSeq(s, 1, k)) \cup RangeOf(SubSeq(s, k + 1, Len(s)))
  <2> DEFINE a == SubSeq(s, 1, k)
             b == SubSeq(s, k + 1, Len(s))
  <2>1. a \in Seq(S) /\ b \in Seq(S) /\ a \o b = s
    BY Cut
  <2> HIDE DEF a, b
  <2>2. RangeOf(a \o b) = RangeOf(a) \cup RangeOf(b)
    BY <2>1, RangeOfConcat
  <2> QED BY <2>1, <2>2 DEF a, b
<1>2. DOMAIN SubSeq(s, 1, k) = 1..k /\ \A i \in 1..k : SubSeq(s, 1, k)[i] = s[i]
  BY Cut, LenProperties
<1> QED BY <1>1, <1>2 DEF RangeOf

\* A message that the worker takes stays in its place of the track, ...
LEMMA TrackTaken ==
    ASSUME NEW a \in Seq(Messages), NEW f \in Seq(Messages), NEW q \in Seq(Messages), q # << >>
    PROVE  /\ Head(q) \in Messages /\ Tail(q) \in Seq(Messages)
           /\ RangeOf(q) = {Head(q)} \cup RangeOf(Tail(q))
           /\ (a \o Append(f, Head(q))) \o Tail(q) = (a \o f) \o q
<1> DEFINE h == Head(q)
           r == Tail(q)
<1>1. Len(q) \in Nat /\ 1 <= Len(q)
  BY EmptySeq
<1>2. h \in Messages /\ r \in Seq(Messages) /\ <<h>> \in Seq(Messages)
  BY HeadTailProperties
<1>3. q = <<h>> \o r
  <2>1. 1 \in 1..Len(q) /\ Len(q) \in 1..Len(q)
    BY <1>1
  <2>2. SubSeq(q, 1, Len(q)) = <<q[1]>> \o SubSeq(q, 1 + 1, Len(q))
    BY <2>1, SubSeqRecursiveFirst
  <2>3. SubSeq(q, 1, Len(q)) = q
    BY SubSeqFull
  <2>4. h = q[1]
    OBVIOUS
  <2>5. r = SubSeq(q, 1 + 1, Len(q))
    BY TailIsSubSeq
  <2> QED BY <2>2, <2>3, <2>4, <2>5
<1> HIDE DEF h, r
<1>4. RangeOf(q) = {h} \cup RangeOf(r)
  <2>1. RangeOf(<<h>>) = {h}
    BY DEF RangeOf
  <2>2. RangeOf(<<h>> \o r) = RangeOf(<<h>>) \cup RangeOf(r)
    BY <1>2, RangeOfConcat
  <2> QED BY <1>3, <2>1, <2>2
<1>5. (a \o (f \o <<h>>)) \o r = (a \o f) \o q
  <2> SUFFICES ASSUME NEW x \in Seq(Messages), NEW y \in Seq(Messages), q = x \o y
               PROVE  (a \o (f \o x)) \o y = (a \o f) \o q
    BY <1>2, <1>3
  <2>1. (a \o f) \o x = a \o (f \o x)
    BY ONLY ConcatAssociative, a \in Seq(Messages), f \in Seq(Messages), x \in Seq(Messages), SMTT(60)
  <2>2. a \o f \in Seq(Messages)
    BY ConcatProperties
  <2>3. ((a \o f) \o x) \o y = (a \o f) \o (x \o y)
    BY ONLY ConcatAssociative, a \o f \in Seq(Messages), x \in Seq(Messages), y \in Seq(Messages), <2>2, SMTT(60)
  <2> QED BY <2>1, <2>3
<1>6. Append(f, h) = f \o <<h>>
  BY <1>2, AppendIsConcat
<1> QED BY <1>2, <1>4, <1>5, <1>6 DEF h, r

\* ... as do the first k, when they are acknowledged, ...
LEMMA TrackAcked ==
    ASSUME NEW a \in Seq(Messages), NEW f \in Seq(Messages), NEW q \in Seq(Messages),
           NEW k \in Nat, k <= Len(f)
    PROVE  ((a \o SubSeq(f, 1, k)) \o SubSeq(f, k + 1, Len(f))) \o q = (a \o f) \o q
<1>1. /\ SubSeq(f, 1, k) \in Seq(Messages) /\ SubSeq(f, k + 1, Len(f)) \in Seq(Messages)
      /\ SubSeq(f, 1, k) \o SubSeq(f, k + 1, Len(f)) = f
  BY Cut
<1> SUFFICES ASSUME NEW b \in Seq(Messages), NEW c \in Seq(Messages), b \o c = f
             PROVE  ((a \o b) \o c) \o q = (a \o f) \o q
  BY <1>1
<1>2. (a \o b) \o c = a \o (b \o c)
  BY ONLY ConcatAssociative, a \in Seq(Messages), b \in Seq(Messages), c \in Seq(Messages), SMTT(60)
<1> QED BY <1>2

\* ... and a new one comes after all others.
LEMMA TrackSent ==
    ASSUME NEW a \in Seq(Messages), NEW f \in Seq(Messages), NEW q \in Seq(Messages), NEW m \in Messages
    PROVE  /\ Append(q, m) \in Seq(Messages)
           /\ (a \o f) \o Append(q, m) = Append((a \o f) \o q, m)
<1> DEFINE g == a \o f
<1>1. <<m>> \in Seq(Messages) /\ g \in Seq(Messages)
  BY ConcatProperties
<1> HIDE DEF g
<1>2. Append(q, m) = q \o <<m>> /\ q \o <<m>> \in Seq(Messages)
  BY <1>1, AppendIsConcat, ConcatProperties
<1>3. g \o (q \o <<m>>) = (g \o q) \o <<m>>
  BY <1>1, ConcatAssociative, SMTT(60)
<1>4. g \o q \in Seq(Messages)
  BY <1>1, ConcatProperties
<1>5. (g \o q) \o <<m>> = Append(g \o q, m)
  BY <1>4, AppendIsConcat
<1>6. g \o Append(q, m) = Append(g \o q, m)
  BY <1>2, <1>3, <1>5
<1> QED BY <1>2, <1>6 DEF g

-----------------------------------------------------------------------------
(* Types *)

LEMMA Steps ==
    ASSUME [ServerNext]_serverVars
    PROVE  \/ ContextReady \/ InitContext \/ Restart
           \/ \E forced, restarted \in BOOLEAN : ContextClosed(forced, restarted)
           \/ \E u \in Users : Deliver(u)
           \/ \E u \in Users : WorkerClosed(u)
           \/ \E u \in Users, m \in Messages : Publish(u, m)
           \/ \E s \in Sockets : Connect(s)
           \/ \E s \in Sockets : AuthenticateCached(s)
           \/ \E s \in Sockets : Authenticate(s)
           \/ \E s \in Sockets : Disconnect(s)
           \/ \E s \in Sockets : AckUnauthorized(s)
           \/ \E s \in Sockets : Receive(s)
           \/ \E s \in Sockets, ok \in BOOLEAN : AuthAnswered(s, ok)
           \/ \E s \in Sockets, ids \in Seq(Messages) : AckNots(s, ids)
           \/ \E s \in Sockets, ids \in Seq(Messages) : AckRaises(s, ids)
           \/ UNCHANGED serverVars
BY DEF ServerNext

\* Packets that are put on the wires.
LEMMA WireType ==
    ASSUME ServerTypeOK, NEW u \in Users
    PROVE  /\ Reply("authenticate", TRUE) \in Packets /\ Reply("authenticate", FALSE) \in Packets
           /\ Reply("ack_nots", TRUE) \in Packets /\ Reply("ack_nots", FALSE) \in Packets
           /\ \A m \in Messages : Message(m) \in Packets
           /\ Retransmitted(u) \in Seq(Packets)
           /\ Len(Retransmitted(u)) = Len(unack[u])
           /\ \A i \in 1..Len(unack[u]) : Retransmitted(u)[i] = Message(unack[u][i])
<1>1. /\ Reply("authenticate", TRUE) \in Packets /\ Reply("authenticate", FALSE) \in Packets
      /\ Reply("ack_nots", TRUE) \in Packets /\ Reply("ack_nots", FALSE) \in Packets
  BY DEF Reply, Packets
<1>2. \A m \in Messages : Message(m) \in Packets
  BY DEF Message, Packets
<1>3. unack[u] \in Seq(Messages) /\ Len(unack[u]) \in Nat /\ DOMAIN unack[u] = 1..Len(unack[u])
      /\ \A i \in 1..Len(unack[u]) : unack[u][i] \in Messages
  BY LenProperties, ElementOfSeq DEF ServerTypeOK
<1>4. /\ Retransmitted(u) \in [1..Len(unack[u]) -> Packets]
      /\ \A i \in 1..Len(unack[u]) : Retransmitted(u)[i] = Message(unack[u][i])
  BY <1>2, <1>3 DEF Retransmitted
<1>5. Retransmitted(u) \in Seq(Packets)
  BY <1>3, <1>4, SeqDef
<1>6. Len(Retransmitted(u)) = Len(unack[u])
  BY <1>3, <1>4, <1>5, LenProperties
<1> QED BY <1>1, <1>2, <1>4, <1>5, <1>6

LEMMA Empty == ASSUME NEW S PROVE << >> \in Seq(S)
OBVIOUS

LEMMA InitType == ServerInit => ServerTypeOK
<1> SUFFICES ASSUME ServerInit PROVE ServerTypeOK
  OBVIOUS
<1>1. << >> \in Seq(Messages) /\ << >> \in Seq(Packets)
  BY Empty
<1>2. /\ queue \in [Users -> Seq(Messages)] /\ inflight \in [Users -> Seq(Messages)]
      /\ unack \in [Users -> Seq(Messages)] /\ acked \in [Users -> Seq(Messages)]
      /\ wire \in [Sockets -> Seq(Packets)]
  BY <1>1 DEF ServerInit
<1>3. faults \in Nat
  BY NotifServerAssumption DEF ServerInit
<1> QED BY <1>2, <1>3 DEF ServerInit, ServerTypeOK

LEMMA EmitType ==
    ASSUME ServerTypeOK, NEW ss, NEW p \in Packets, Emit(ss, p)
    PROVE  wire' \in [Sockets -> Seq(Packets)]
BY AppendProperties DEF ServerTypeOK, Emit

LEMMA ReturnedType ==
    ASSUME ServerTypeOK, NEW u \in Users, NEW k \in Nat, k <= Len(acked[u])
    PROVE  /\ Returned(u, k) \in Seq(Messages)
           /\ Returned(u, k) \o queue[u] \in Seq(Messages)
           /\ SubSeq(acked[u], 1, Len(acked[u]) - k) \in Seq(Messages)
<1> DEFINE n == Len(acked[u]) - k
<1>1. /\ acked[u] \in Seq(Messages) /\ inflight[u] \in Seq(Messages) /\ queue[u] \in Seq(Messages)
      /\ Len(acked[u]) \in Nat
  BY LenProperties DEF ServerTypeOK
<1>2. n \in Nat /\ n <= Len(acked[u])
  BY <1>1
<1> HIDE DEF n
<1>3. SubSeq(acked[u], 1, n) \in Seq(Messages) /\ SubSeq(acked[u], n + 1, Len(acked[u])) \in Seq(Messages)
  BY <1>1, <1>2, Cut
<1>4. SubSeq(acked[u], n + 1, Len(acked[u])) \o inflight[u] \in Seq(Messages)
  BY <1>1, <1>3, ConcatProperties
<1>5. (SubSeq(acked[u], n + 1, Len(acked[u])) \o inflight[u]) \o queue[u] \in Seq(Messages)
  BY <1>1, <1>4, ConcatProperties
<1> QED BY <1>3, <1>4, <1>5 DEF Returned, n

LEMMA LoginType ==
    ASSUME ServerTypeOK, NEW s \in Sockets, LoggedIn(s)
    PROVE  /\ sockets' \in [Sockets -> Users \cup {None}]
           /\ users' \in [Users -> SUBSET Sockets]
           /\ worker' \in [Users -> {"none", "open", "closing"}]
           /\ unack' \in [Users -> Seq(Messages)]
           /\ wire' \in [Sockets -> Seq(Packets)]
<1> DEFINE u == Owner[s]
           again == IF users[u] = {} /\ Subscribes(u) THEN << >> ELSE Retransmitted(u)
           answer == <<Reply("authenticate", TRUE)>>
<1>1. u \in Users
  BY NotifServerAssumption
<1>2. Retransmitted(u) \in Seq(Packets) /\ Reply("authenticate", TRUE) \in Packets
  BY <1>1, WireType
<1>3. again \in Seq(Packets) /\ answer \in Seq(Packets)
  <2>1. again \in Seq(Packets)
    BY <1>2, Empty
  <2>2. ASSUME NEW p \in Packets PROVE <<p>> \in Seq(Packets)
    OBVIOUS
  <2> QED BY <1>2, <2>1, <2>2
<1> HIDE DEF again, answer
<1>4. ASSUME NEW t \in Sockets
      PROVE  wire[t] \o again \in Seq(Packets) /\ (wire[t] \o answer) \o again \in Seq(Packets)
  <2>1. wire[t] \in Seq(Packets)
    BY DEF ServerTypeOK
  <2>2. wire[t] \o answer \in Seq(Packets)
    BY <1>3, <2>1, ConcatProperties
  <2> QED BY <1>3, <2>1, <2>2, ConcatProperties
<1>5. wire' = [t \in Sockets |->
                      IF conn[t] # "open" THEN wire[t]
                      ELSE IF t = s THEN (wire[t] \o answer) \o again
                      ELSE IF t \in users[u] THEN wire[t] \o again
                      ELSE wire[t]]
  BY DEF LoggedIn, again, answer
<1>6. wire' \in [Sockets -> Seq(Packets)]
  BY <1>4, <1>5 DEF ServerTypeOK
<1>7. sockets' \in [Sockets -> Users \cup {None}] /\ users' \in [Users -> SUBSET Sockets]
  BY <1>1 DEF LoggedIn, ServerTypeOK
<1>8. worker' \in [Users -> {"none", "open", "closing"}] /\ unack' \in [Users -> Seq(Messages)]
  BY DEF LoggedIn, SubscribeAll, ServerTypeOK
<1> QED BY <1>6, <1>7, <1>8

LEMMA RestartType ==
    ASSUME ServerTypeOK, Restarted, faults' \in Nat, confirmed' \in [Users -> SUBSET Messages]
    PROVE  ServerTypeOK'
<1> PICK lost \in Unsent : /\ queue' = [u \in Users |-> Returned(u, lost[u]) \o queue[u]]
                           /\ LoseAcks(lost)
  BY DEF Restarted
<1>1. ASSUME NEW u \in Users PROVE lost[u] \in Nat /\ lost[u] <= Len(acked[u])
  BY NotifServerAssumption DEF Unsent
<1>2. queue' \in [Users -> Seq(Messages)] /\ acked' \in [Users -> Seq(Messages)]
  BY <1>1, ReturnedType DEF LoseAcks
<1>3. << >> \in Seq(Messages) /\ << >> \in Seq(Packets)
  BY Empty
<1>4. /\ inflight' \in [Users -> Seq(Messages)] /\ unack' \in [Users -> Seq(Messages)]
      /\ wire' \in [Sockets -> Seq(Packets)]
  BY <1>3 DEF Restarted
<1>5. /\ conn' \in [Sockets -> {"new", "open", "closed"}]
      /\ worker' \in [Users -> {"none", "open", "closing"}]
      /\ sockets' \in [Sockets -> Users \cup {None}]
      /\ users' \in [Users -> SUBSET Sockets]
  BY DEF Restarted, ServerTypeOK
<1>6. /\ context' = "starting" /\ rabbit_ready' = FALSE /\ workers_connected' = {}
      /\ asking' = {} /\ cached' = {} /\ published' = published /\ got' = got
  BY DEF Restarted
<1> QED BY <1>2, <1>4, <1>5, <1>6 DEF ServerTypeOK

\* The k messages of AckNots are with the worker.
LEMMA AckNotsTakes ==
    ASSUME ServerTypeOK, Mirror, NEW s \in Sockets, NEW ids \in Seq(Messages), AckNots(s, ids)
    PROVE  \E u \in Users, k \in Nat :
              /\ u = sockets[s]
              /\ k <= Len(unack[u]) /\ k <= Len(inflight[u])
              /\ Takes(unack[u], ids, k)
              /\ k > 0 => worker[u] = "open" /\ unack[u] = inflight[u]
              /\ unack' = [unack EXCEPT ![u] = SubSeq(unack[u], k + 1, Len(unack[u]))]
              /\ inflight' = [inflight EXCEPT ![u] = SubSeq(inflight[u], k + 1, Len(inflight[u]))]
              /\ acked' = [acked EXCEPT ![u] = acked[u] \o SubSeq(inflight[u], 1, k)]
<1> DEFINE u == sockets[s]
<1>1. u \in Users
  BY DEF AckNots, ServerTypeOK
<1>2. /\ Len(unack[u]) \in Nat /\ Len(inflight[u]) \in Nat
      /\ inflight[u] \in Seq(Messages) /\ inflight \in [Users -> Seq(Messages)]
  BY <1>1, LenProperties DEF ServerTypeOK
<1>3. PICK k \in 0..Len(unack[u]) :
              /\ Takes(unack[u], ids, k)
              /\ k > 0 => worker[u] = "open"
              /\ unack' = [unack EXCEPT ![u] = SubSeq(unack[u], k + 1, Len(unack[u]))]
              /\ inflight' = [inflight EXCEPT ![u] =
                                IF k > 0 THEN SubSeq(inflight[u], k + 1, Len(inflight[u]))
                                ELSE inflight[u]]
              /\ acked' = [acked EXCEPT ![u] = acked[u] \o SubSeq(inflight[u], 1, k)]
  BY DEF AckNots, Acknowledges, Forgotten
<1>4. k \in Nat /\ k <= Len(unack[u])
  BY <1>2
<1>5. k > 0 => worker[u] = "open" /\ unack[u] = inflight[u]
  BY <1>1, <1>3 DEF Mirror
<1>6. k <= Len(inflight[u])
  BY <1>2, <1>4, <1>5
<1>7. k = 0 => SubSeq(inflight[u], k + 1, Len(inflight[u])) = inflight[u]
  BY <1>2, SubSeqFull
<1>8. (IF k > 0 THEN SubSeq(inflight[u], k + 1, Len(inflight[u])) ELSE inflight[u])
         = SubSeq(inflight[u], k + 1, Len(inflight[u]))
  <2>1. CASE k > 0
    BY <2>1
  <2>2. CASE k = 0
    BY <1>7, <2>2
  <2> QED BY <1>4, <2>1, <2>2
<1> QED BY <1>1, <1>3, <1>4, <1>5, <1>6, <1>8

LEMMA TypeStep ==
    ASSUME ServerTypeOK, Mirror, [ServerNext]_serverVars
    PROVE  ServerTypeOK'
<1>1. CASE ContextReady
  BY <1>1 DEF ContextReady, SubscribeAll, ServerTypeOK, logins, broker
<1>2. CASE InitContext
  BY <1>2 DEF InitContext, ServerTypeOK, logins, broker
<1>3. CASE Restart
  <2>1. faults' \in Nat /\ confirmed' = confirmed
    BY <1>3 DEF Restart, ServerTypeOK
  <2> QED BY <1>3, <2>1, RestartType DEF Restart, ServerTypeOK
<1>4. ASSUME NEW forced \in BOOLEAN, NEW restarted \in BOOLEAN, ContextClosed(forced, restarted)
      PROVE  ServerTypeOK'
  <2> PICK lost \in Unsent :
           /\ queue' = [u \in Users |-> IF restarted THEN << >> ELSE Returned(u, lost[u]) \o queue[u]]
           /\ LoseAcks(lost)
    BY <1>4 DEF ContextClosed
  <2>1. ASSUME NEW u \in Users PROVE lost[u] \in Nat /\ lost[u] <= Len(acked[u])
    BY NotifServerAssumption DEF Unsent
  <2>2. queue' \in [Users -> Seq(Messages)] /\ acked' \in [Users -> Seq(Messages)]
    BY <2>1, ReturnedType, Empty DEF LoseAcks
  <2>3. faults' \in Nat /\ workers_connected' \subseteq Users
    BY <1>4 DEF ContextClosed, ServerTypeOK
  <2>4. inflight' \in [Users -> Seq(Messages)] /\ worker' \in [Users -> {"none", "open", "closing"}]
    BY <1>4, Empty DEF ContextClosed, Closed, ServerTypeOK
  <2>5. /\ context' = "lost" /\ rabbit_ready' = FALSE
        /\ UNCHANGED <<unack, logins, wire, published, got, confirmed>>
    BY <1>4 DEF ContextClosed
  <2> QED BY <2>2, <2>3, <2>4, <2>5 DEF ServerTypeOK, logins
<1>5. ASSUME NEW u \in Users, Deliver(u) PROVE ServerTypeOK'
  <2>1. queue[u] \in Seq(Messages) /\ inflight[u] \in Seq(Messages) /\ unack[u] \in Seq(Messages)
    BY DEF ServerTypeOK
  <2>2. Head(queue[u]) \in Messages /\ Tail(queue[u]) \in Seq(Messages)
    BY <1>5, <2>1, HeadTailProperties DEF Deliver
  <2>3. /\ Append(inflight[u], Head(queue[u])) \in Seq(Messages)
        /\ Kept(unack[u], Head(queue[u])) \in Seq(Messages)
    BY <2>1, <2>2, AppendProperties DEF Kept
  <2>4. wire' \in [Sockets -> Seq(Packets)]
    <3>1. Emit(users[u], Message(Head(queue[u])))
      BY <1>5 DEF Deliver
    <3>2. Message(Head(queue[u])) \in Packets
      BY <2>2 DEF Message, Packets
    <3> QED BY <3>1, <3>2, EmitType
  <2> QED BY <1>5, <2>2, <2>3, <2>4 DEF Deliver, ServerTypeOK, link, logins
<1>6. ASSUME NEW u \in Users, WorkerClosed(u) PROVE ServerTypeOK'
  BY <1>6 DEF WorkerClosed, ServerTypeOK, broker, link, logins
<1>7. ASSUME NEW u \in Users, NEW m \in Messages, Publish(u, m) PROVE ServerTypeOK'
  <2>1. Append(queue[u], m) \in Seq(Messages)
    BY AppendProperties DEF ServerTypeOK
  <2> QED BY <1>7, <2>1 DEF Publish, ServerTypeOK, link, logins
<1>8. ASSUME NEW s \in Sockets, Connect(s) PROVE ServerTypeOK'
  BY <1>8 DEF Connect, ServerTypeOK, broker, link
<1>9. ASSUME NEW s \in Sockets, AuthenticateCached(s) PROVE ServerTypeOK'
  <2>1. LoggedIn(s)
    BY <1>9 DEF AuthenticateCached
  <2> QED BY <1>9, <2>1, LoginType DEF AuthenticateCached, ServerTypeOK, broker, link
<1>10. ASSUME NEW s \in Sockets, Authenticate(s) PROVE ServerTypeOK'
  BY <1>10 DEF Authenticate, ServerTypeOK, broker, link
<1>11. ASSUME NEW s \in Sockets, Disconnect(s) PROVE ServerTypeOK'
  <2> DEFINE u == sockets[s]
             closes == IF (u # None /\ users[u] = {s}) /\ worker[u] # "none" THEN {u} ELSE {}
  <2>1. ASSUME NEW v \in Users
        PROVE  (IF v \in closes THEN Returned(v, 0) ELSE << >>) \o queue[v] \in Seq(Messages)
    <3>1. Len(acked[v]) \in Nat /\ queue[v] \in Seq(Messages) /\ << >> \o queue[v] = queue[v]
      BY LenProperties, ConcatEmptySeq DEF ServerTypeOK
    <3>2. Returned(v, 0) \o queue[v] \in Seq(Messages)
      BY <3>1, ReturnedType
    <3> QED BY <3>1, <3>2
  <2>2. queue' = [v \in Users |-> (IF v \in closes THEN Returned(v, 0) ELSE << >>) \o queue[v]]
    BY <1>11 DEF Disconnect
  <2> HIDE DEF closes
  <2>3. queue' \in [Users -> Seq(Messages)]
    BY <2>1, <2>2
  <2>4. /\ worker' \in [Users -> {"none", "open", "closing"}]
        /\ inflight' \in [Users -> Seq(Messages)]
    BY <1>11 DEF Disconnect, Closed, ServerTypeOK
  <2>5. wire' \in [Sockets -> Seq(Packets)]
    BY <1>11 DEF Disconnect, ServerTypeOK
  <2>6. /\ conn' \in [Sockets -> {"new", "open", "closed"}]
        /\ sockets' \in [Sockets -> Users \cup {None}]
        /\ users' \in [Users -> SUBSET Sockets]
    BY <1>11 DEF Disconnect, ServerTypeOK
  <2>7. UNCHANGED <<unack, link, asking, cached, published, got, confirmed, acked, faults>>
    BY <1>11 DEF Disconnect
  <2> QED BY <2>3, <2>4, <2>5, <2>6, <2>7 DEF ServerTypeOK, link
<1>12. ASSUME NEW s \in Sockets, AckUnauthorized(s) PROVE ServerTypeOK'
  <2>1. wire' \in [Sockets -> Seq(Packets)]
    BY <1>12, WireType, EmitType DEF AckUnauthorized, Reply, Packets
  <2> QED BY <1>12, <2>1 DEF AckUnauthorized, ServerTypeOK, broker, link, logins
<1>13. ASSUME NEW s \in Sockets, Receive(s) PROVE ServerTypeOK'
  <2>1. wire[s] \in Seq(Packets) /\ wire[s] # << >>
    BY <1>13 DEF Receive, ServerTypeOK
  <2>2. Head(wire[s]) \in Packets /\ Tail(wire[s]) \in Seq(Packets)
    BY <2>1, HeadTailProperties
  <2>3. {Head(wire[s]).id} \ {None} \subseteq Messages
    BY <2>2 DEF Packets
  <2> QED BY <1>13, <2>2, <2>3 DEF Receive, ServerTypeOK, broker, link, logins
<1>14. ASSUME NEW s \in Sockets, NEW ok \in BOOLEAN, AuthAnswered(s, ok) PROVE ServerTypeOK'
  <2>1. CASE ok
    <3>1. LoggedIn(s) /\ cached' = cached \cup {Owner[s]} /\ Owner[s] \in Users
      BY <1>14, <2>1, NotifServerAssumption DEF AuthAnswered
    <3> QED BY <1>14, <3>1, LoginType DEF AuthAnswered, ServerTypeOK, broker, link
  <2>2. CASE ~ok
    <3>1. wire' \in [Sockets -> Seq(Packets)]
      BY <1>14, <2>2, EmitType DEF AuthAnswered, Reply, Packets
    <3> QED BY <1>14, <2>2, <3>1 DEF AuthAnswered, ServerTypeOK, broker, link
  <2> QED BY <2>1, <2>2
<1>15. ASSUME NEW s \in Sockets, NEW ids \in Seq(Messages), AckNots(s, ids) PROVE ServerTypeOK'
  <2> PICK u \in Users, k \in Nat :
              /\ u = sockets[s]
              /\ k <= Len(unack[u]) /\ k <= Len(inflight[u])
              /\ Takes(unack[u], ids, k)
              /\ k > 0 => worker[u] = "open" /\ unack[u] = inflight[u]
              /\ unack' = [unack EXCEPT ![u] = SubSeq(unack[u], k + 1, Len(unack[u]))]
              /\ inflight' = [inflight EXCEPT ![u] = SubSeq(inflight[u], k + 1, Len(inflight[u]))]
              /\ acked' = [acked EXCEPT ![u] = acked[u] \o SubSeq(inflight[u], 1, k)]
    BY <1>15, AckNotsTakes
  <2>1. unack[u] \in Seq(Messages) /\ inflight[u] \in Seq(Messages) /\ acked[u] \in Seq(Messages)
    BY DEF ServerTypeOK
  <2>2. /\ SubSeq(unack[u], k + 1, Len(unack[u])) \in Seq(Messages)
        /\ SubSeq(inflight[u], k + 1, Len(inflight[u])) \in Seq(Messages)
        /\ SubSeq(inflight[u], 1, k) \in Seq(Messages)
    BY <2>1, Cut
  <2>3. acked[u] \o SubSeq(inflight[u], 1, k) \in Seq(Messages)
    BY <2>1, <2>2, ConcatProperties
  <2>4. /\ unack' \in [Users -> Seq(Messages)] /\ inflight' \in [Users -> Seq(Messages)]
        /\ acked' \in [Users -> Seq(Messages)]
    BY <2>2, <2>3 DEF ServerTypeOK
  <2>5. RangeOf(ids) \subseteq Messages
    BY LenProperties, ElementOfSeq DEF RangeOf
  <2>6. wire' \in [Sockets -> Seq(Packets)]
    BY <1>15, WireType, EmitType DEF AckNots
  <2>7. /\ confirmed' = [confirmed EXCEPT ![u] = confirmed[u] \cup RangeOf(ids)]
        /\ UNCHANGED <<queue, worker, link, logins, published, got, faults>>
    BY <1>15 DEF AckNots
  <2> QED BY <2>4, <2>5, <2>6, <2>7 DEF ServerTypeOK, link, logins
<1>16. ASSUME NEW s \in Sockets, NEW ids \in Seq(Messages), AckRaises(s, ids) PROVE ServerTypeOK'
  <2>1. RangeOf(ids) \subseteq Messages
    BY LenProperties, ElementOfSeq DEF RangeOf
  <2>2. faults' \in Nat /\ confirmed' \in [Users -> SUBSET Messages]
    BY <1>16, <2>1 DEF AckRaises, ServerTypeOK
  <2> QED BY <1>16, <2>2, RestartType DEF AckRaises
<1>17. CASE UNCHANGED serverVars
  BY <1>17 DEF serverVars, ServerTypeOK, broker, link, logins
<1> QED BY <1>1, <1>2, <1>3, <1>4, <1>5, <1>6, <1>7, <1>8, <1>9, <1>10, <1>11, <1>12, <1>13,
           <1>14, <1>15, <1>16, <1>17, Steps

-----------------------------------------------------------------------------
(* The context and the workers *)

LEMMA ReadinessStep ==
    ASSUME ContextReadiness, [ServerNext]_serverVars PROVE ContextReadiness'
<1>1. ASSUME UNCHANGED link PROVE ContextReadiness'
  BY <1>1 DEF ContextReadiness, link
<1>2. CASE ContextReady
  BY <1>2 DEF ContextReady, ContextReadiness
<1>3. CASE InitContext
  BY <1>3 DEF InitContext, ContextReadiness
<1>4. CASE Restart
  BY <1>4 DEF Restart, Restarted, ContextReadiness
<1>5. ASSUME NEW forced \in BOOLEAN, NEW restarted \in BOOLEAN, ContextClosed(forced, restarted)
      PROVE  ContextReadiness'
  BY <1>5 DEF ContextClosed, ContextReadiness
<1>6. ASSUME NEW s \in Sockets, NEW ids \in Seq(Messages), AckRaises(s, ids)
      PROVE  ContextReadiness'
  BY <1>6 DEF AckRaises, Restarted, ContextReadiness
<1>7. \A u \in Users : Deliver(u) \/ WorkerClosed(u) => UNCHANGED link
  BY DEF Deliver, WorkerClosed
<1>8. \A u \in Users, m \in Messages : Publish(u, m) => UNCHANGED link
  BY DEF Publish
<1>9. ASSUME NEW s \in Sockets
      PROVE  Connect(s) \/ AuthenticateCached(s) \/ Authenticate(s) \/ Disconnect(s)
               \/ AckUnauthorized(s) \/ Receive(s) => UNCHANGED link
  BY DEF Connect, AuthenticateCached, Authenticate, Disconnect, AckUnauthorized, Receive
<1>10. \A s \in Sockets, ok \in BOOLEAN : AuthAnswered(s, ok) => UNCHANGED link
  BY DEF AuthAnswered
<1>11. \A s \in Sockets, ids \in Seq(Messages) : AckNots(s, ids) => UNCHANGED link
  BY DEF AckNots
<1>12. UNCHANGED serverVars => UNCHANGED link
  BY DEF serverVars
<1> QED BY <1>1, <1>2, <1>3, <1>4, <1>5, <1>6, <1>7, <1>8, <1>9, <1>10, <1>11, <1>12, Steps

LEMMA AttachedStep ==
    ASSUME ServerTypeOK, Mirror, ContextReadiness, Attached, [ServerNext]_serverVars
    PROVE  Attached'
<1>1. ASSUME UNCHANGED <<worker, inflight, rabbit_ready>> PROVE Attached'
  BY <1>1 DEF Attached
<1>2. CASE ContextReady
  BY <1>2 DEF ContextReady, SubscribeAll, Attached, broker
<1>3. CASE InitContext
  BY <1>3 DEF InitContext, Attached, ContextReadiness, broker
<1>4. ASSUME Restarted PROVE Attached'
  BY <1>4 DEF Restarted, Attached
<1>5. ASSUME NEW forced \in BOOLEAN, NEW restarted \in BOOLEAN, ContextClosed(forced, restarted)
      PROVE  Attached'
  BY <1>5 DEF ContextClosed, Closed, Attached, ServerTypeOK
<1>6. ASSUME NEW u \in Users, Deliver(u) PROVE Attached'
  BY <1>6 DEF Deliver, Attached, ServerTypeOK, link
<1>7. ASSUME NEW u \in Users, WorkerClosed(u) PROVE Attached'
  BY <1>7 DEF WorkerClosed, Attached, ServerTypeOK, link, broker
<1>8. ASSUME NEW s \in Sockets, LoggedIn(s), UNCHANGED <<inflight, rabbit_ready>> PROVE Attached'
  BY <1>8 DEF LoggedIn, SubscribeAll, Subscribes, Attached, ServerTypeOK
<1>9. ASSUME NEW s \in Sockets, Disconnect(s) PROVE Attached'
  BY <1>9 DEF Disconnect, Closed, Attached, ServerTypeOK, link
<1>10. ASSUME NEW s \in Sockets, NEW ids \in Seq(Messages), AckNots(s, ids) PROVE Attached'
  <2> PICK u \in Users, k \in Nat :
              /\ u = sockets[s]
              /\ k <= Len(unack[u]) /\ k <= Len(inflight[u])
              /\ Takes(unack[u], ids, k)
              /\ k > 0 => worker[u] = "open" /\ unack[u] = inflight[u]
              /\ unack' = [unack EXCEPT ![u] = SubSeq(unack[u], k + 1, Len(unack[u]))]
              /\ inflight' = [inflight EXCEPT ![u] = SubSeq(inflight[u], k + 1, Len(inflight[u]))]
              /\ acked' = [acked EXCEPT ![u] = acked[u] \o SubSeq(inflight[u], 1, k)]
    BY <1>10, AckNotsTakes
  <2>1. worker[u] # "open" => SubSeq(inflight[u], k + 1, Len(inflight[u])) = << >>
    <3>1. worker[u] # "open" => inflight[u] = << >> /\ k = 0
      BY DEF Attached
    <3>2. SubSeq(<< >>, 0 + 1, Len(<< >>)) = << >>
      OBVIOUS
    <3> QED BY <3>1, <3>2
  <2>2. UNCHANGED <<worker, rabbit_ready>>
    BY <1>10 DEF AckNots, link
  <2> QED BY <2>1, <2>2 DEF Attached, ServerTypeOK
<1>11. \A u \in Users, m \in Messages : Publish(u, m) => UNCHANGED <<worker, inflight, rabbit_ready>>
  BY DEF Publish, link
<1>12. ASSUME NEW s \in Sockets
       PROVE  Connect(s) \/ Authenticate(s) \/ AckUnauthorized(s) \/ Receive(s)
                => UNCHANGED <<worker, inflight, rabbit_ready>>
  BY DEF Connect, Authenticate, AckUnauthorized, Receive, link, broker
<1>13. ASSUME NEW s \in Sockets
       PROVE  AuthenticateCached(s) => LoggedIn(s) /\ UNCHANGED <<inflight, rabbit_ready>>
  BY DEF AuthenticateCached, link, broker
<1>14. ASSUME NEW s \in Sockets, NEW ok \in BOOLEAN
       PROVE  AuthAnswered(s, ok) => /\ LoggedIn(s) \/ UNCHANGED worker
                                     /\ UNCHANGED <<inflight, rabbit_ready>>
  BY DEF AuthAnswered, link, broker
<1>15. Restart => Restarted
  BY DEF Restart
<1>16. \A s \in Sockets, ids \in Seq(Messages) : AckRaises(s, ids) => Restarted
  BY DEF AckRaises
<1>17. UNCHANGED serverVars => UNCHANGED <<worker, inflight, rabbit_ready>>
  BY DEF serverVars, broker, link
<1> QED BY <1>1, <1>2, <1>3, <1>4, <1>5, <1>6, <1>7, <1>8, <1>9, <1>10, <1>11, <1>12, <1>13,
           <1>14, <1>15, <1>16, <1>17, Steps

LEMMA ConnectedStep ==
    ASSUME ServerTypeOK, Connected, [ServerNext]_serverVars PROVE Connected'
<1>1. ASSUME UNCHANGED <<asking, users, conn>> PROVE Connected'
  BY <1>1 DEF Connected
<1>2. ASSUME Restarted PROVE Connected'
  BY <1>2 DEF Restarted, Connected
<1>3. ASSUME NEW s \in Sockets, Connect(s) PROVE Connected'
  BY <1>3 DEF Connect, Connected, ServerTypeOK
<1>4. ASSUME NEW s \in Sockets, AuthenticateCached(s) PROVE Connected'
  BY <1>4 DEF AuthenticateCached, LoggedIn, Connected, ServerTypeOK
<1>5. ASSUME NEW s \in Sockets, Authenticate(s) PROVE Connected'
  BY <1>5 DEF Authenticate, Connected, ServerTypeOK
<1>6. ASSUME NEW s \in Sockets, Disconnect(s) PROVE Connected'
  <2>1. /\ conn' = [conn EXCEPT ![s] = "closed"] /\ asking' = asking
        /\ \A u \in Users : users'[u] \subseteq users[u]
    BY <1>6 DEF Disconnect
  <2> QED BY <2>1 DEF Connected, ServerTypeOK
<1>7. ASSUME NEW s \in Sockets, NEW ok \in BOOLEAN, AuthAnswered(s, ok) PROVE Connected'
  <2>1. s \in asking /\ asking' \subseteq asking /\ conn' = conn
    BY <1>7 DEF AuthAnswered
  <2>2. \A u \in Users : users'[u] \subseteq users[u] \cup {s}
    <3>1. CASE ok
      BY <1>7, <3>1 DEF AuthAnswered, LoggedIn, ServerTypeOK
    <3>2. CASE ~ok
      BY <1>7, <3>2 DEF AuthAnswered
    <3> QED BY <3>1, <3>2
  <2> QED BY <2>1, <2>2 DEF Connected
<1>8. ContextReady \/ InitContext => UNCHANGED <<asking, users, conn>>
  BY DEF ContextReady, InitContext, logins
<1>9. \A forced, restarted \in BOOLEAN :
          ContextClosed(forced, restarted) => UNCHANGED <<asking, users, conn>>
  BY DEF ContextClosed, logins
<1>10. \A u \in Users : Deliver(u) \/ WorkerClosed(u) => UNCHANGED <<asking, users, conn>>
  BY DEF Deliver, WorkerClosed, logins
<1>11. \A u \in Users, m \in Messages : Publish(u, m) => UNCHANGED <<asking, users, conn>>
  BY DEF Publish, logins
<1>12. \A s \in Sockets : AckUnauthorized(s) \/ Receive(s) => UNCHANGED <<asking, users, conn>>
  BY DEF AckUnauthorized, Receive, logins
<1>13. \A s \in Sockets, ids \in Seq(Messages) : AckNots(s, ids) => UNCHANGED <<asking, users, conn>>
  BY DEF AckNots, logins
<1>14. Restart => Restarted
  BY DEF Restart
<1>15. \A s \in Sockets, ids \in Seq(Messages) : AckRaises(s, ids) => Restarted
  BY DEF AckRaises
<1>16. UNCHANGED serverVars => UNCHANGED <<asking, users, conn>>
  BY DEF serverVars, logins
<1> QED BY <1>1, <1>2, <1>3, <1>4, <1>5, <1>6, <1>7, <1>8, <1>9, <1>10, <1>11, <1>12, <1>13,
           <1>14, <1>15, <1>16, Steps

-----------------------------------------------------------------------------
(* The messages *)

\* What the broker takes back keeps the track of the user.
LEMMA ReturnedTrack ==
    ASSUME ServerTypeOK, NEW u \in Users, NEW k \in Nat, k <= Len(acked[u])
    PROVE  (SubSeq(acked[u], 1, Len(acked[u]) - k) \o << >>) \o (Returned(u, k) \o queue[u]) = Track(u)
<1> DEFINE n == Len(acked[u]) - k
<1>1. /\ acked[u] \in Seq(Messages) /\ inflight[u] \in Seq(Messages) /\ queue[u] \in Seq(Messages)
      /\ Len(acked[u]) \in Nat
  BY LenProperties DEF ServerTypeOK
<1>2. n \in Nat /\ n <= Len(acked[u])
  BY <1>1
<1> HIDE DEF n
<1>3. PICK b \in Seq(Messages), c \in Seq(Messages) :
            /\ b = SubSeq(acked[u], 1, n) /\ c = SubSeq(acked[u], n + 1, Len(acked[u]))
            /\ b \o c = acked[u]
  <2>1. /\ SubSeq(acked[u], 1, n) \in Seq(Messages) /\ SubSeq(acked[u], n + 1, Len(acked[u])) \in Seq(Messages)
        /\ SubSeq(acked[u], 1, n) \o SubSeq(acked[u], n + 1, Len(acked[u])) = acked[u]
    BY <1>1, <1>2, Cut
  <2> QED BY <2>1
<1>4. PICK f \in Seq(Messages), q \in Seq(Messages) : f = inflight[u] /\ q = queue[u]
  BY <1>1
<1>5. b \o ((c \o f) \o q) = ((b \o c) \o f) \o q
  <2>1. c \o f \in Seq(Messages)
    BY ConcatProperties
  <2>2. (b \o (c \o f)) \o q = b \o ((c \o f) \o q)
    BY ONLY ConcatAssociative, b \in Seq(Messages), c \o f \in Seq(Messages), q \in Seq(Messages),
            <2>1, SMTT(60)
  <2>3. (b \o c) \o f = b \o (c \o f)
    BY ONLY ConcatAssociative, b \in Seq(Messages), c \in Seq(Messages), f \in Seq(Messages), SMTT(60)
  <2> QED BY <2>2, <2>3
<1>6. b \o << >> = b
  BY ConcatEmptySeq
<1> QED BY <1>3, <1>4, <1>5, <1>6 DEF Returned, Track, n

LEMMA AckedPrefix ==
    ASSUME ServerTypeOK, NEW lost \in Unsent, LoseAcks(lost), NEW u \in Users
    PROVE  /\ lost[u] \in Nat /\ lost[u] <= Len(acked[u])
           /\ acked'[u] = SubSeq(acked[u], 1, Len(acked[u]) - lost[u])
           /\ RangeOf(acked'[u]) \subseteq RangeOf(acked[u])
<1> DEFINE n == Len(acked[u]) - lost[u]
<1>1. lost[u] \in Nat /\ lost[u] <= Len(acked[u])
  BY NotifServerAssumption DEF Unsent
<1>2. acked[u] \in Seq(Messages) /\ Len(acked[u]) \in Nat
  BY LenProperties DEF ServerTypeOK
<1>3. acked'[u] = SubSeq(acked[u], 1, n)
  BY DEF LoseAcks
<1>4. n \in Nat /\ n <= Len(acked[u])
  BY <1>1, <1>2
<1> HIDE DEF n
<1>5. RangeOf(SubSeq(acked[u], 1, n)) \subseteq RangeOf(acked[u])
  BY <1>2, <1>4, RangeOfCut
<1> QED BY <1>1, <1>3, <1>5 DEF n

\* The next message of a queue is not with the worker and not acknowledged.
LEMMA NextIsNew ==
    ASSUME ServerTypeOK, Placed, NEW u \in Users, queue[u] # << >>
    PROVE  /\ Head(queue[u]) \notin RangeOf(acked[u])
           /\ Head(queue[u]) \notin RangeOf(inflight[u])
<1>1. acked[u] \in Seq(Messages) /\ inflight[u] \in Seq(Messages) /\ queue[u] \in Seq(Messages)
  BY DEF ServerTypeOK
<1>2. acked[u] \o inflight[u] \in Seq(Messages)
  BY <1>1, ConcatProperties
<1>3. Distinct((acked[u] \o inflight[u]) \o queue[u])
  BY DEF Placed, Track
<1>4. RangeOf(acked[u] \o inflight[u]) \cap RangeOf(queue[u]) = {}
  BY <1>1, <1>2, <1>3, DistinctParts
<1>5. RangeOf(acked[u] \o inflight[u]) = RangeOf(acked[u]) \cup RangeOf(inflight[u])
  BY <1>1, RangeOfConcat
<1>6. RangeOf(queue[u]) = {Head(queue[u])} \cup RangeOf(Tail(queue[u]))
  BY <1>1, TrackTaken
<1> QED BY <1>4, <1>5, <1>6

\* The messages that a worker has are all different.
LEMMA HeldOnce ==
    ASSUME ServerTypeOK, Placed, NEW u \in Users
    PROVE  Distinct(inflight[u])
<1>1. acked[u] \in Seq(Messages) /\ inflight[u] \in Seq(Messages) /\ queue[u] \in Seq(Messages)
  BY DEF ServerTypeOK
<1>2. acked[u] \o inflight[u] \in Seq(Messages)
  BY <1>1, ConcatProperties
<1>3. Distinct((acked[u] \o inflight[u]) \o queue[u])
  BY DEF Placed, Track
<1>4. Distinct(acked[u] \o inflight[u])
  BY <1>1, <1>2, <1>3, DistinctParts
<1> QED BY <1>1, <1>4, DistinctParts

LEMMA PlacedStep ==
    ASSUME ServerTypeOK, Mirror, Placed, [ServerNext]_serverVars
    PROVE  Placed'
<1>1. ASSUME published' = published, \A u \in Users : Track(u)' = Track(u) PROVE Placed'
  BY <1>1 DEF Placed
<1>2. ASSUME UNCHANGED <<queue, inflight, acked, published>> PROVE Placed'
  BY <1>2 DEF Placed, Track
<1>3. ASSUME Restarted PROVE Placed'
  <2> PICK lost \in Unsent : /\ queue' = [u \in Users |-> Returned(u, lost[u]) \o queue[u]]
                             /\ LoseAcks(lost)
    BY <1>3 DEF Restarted
  <2>1. ASSUME NEW u \in Users PROVE Track(u)' = Track(u)
    <3>1. /\ inflight'[u] = << >>
          /\ queue'[u] = Returned(u, lost[u]) \o queue[u]
      BY <1>3 DEF Restarted
    <3>2. /\ lost[u] \in Nat /\ lost[u] <= Len(acked[u])
          /\ acked'[u] = SubSeq(acked[u], 1, Len(acked[u]) - lost[u])
      BY AckedPrefix
    <3>3. Track(u)' = (acked'[u] \o inflight'[u]) \o queue'[u]
      BY DEF Track
    <3> QED BY <3>1, <3>2, <3>3, ReturnedTrack
  <2>2. published' = published
    BY <1>3 DEF Restarted
  <2> QED BY <1>1, <2>1, <2>2
<1>4. ASSUME NEW forced \in BOOLEAN, NEW restarted \in BOOLEAN, ContextClosed(forced, restarted)
      PROVE  Placed'
  <2> PICK lost \in Unsent :
           /\ queue' = [u \in Users |-> IF restarted THEN << >> ELSE Returned(u, lost[u]) \o queue[u]]
           /\ LoseAcks(lost)
    BY <1>4 DEF ContextClosed
  <2>1. ASSUME NEW u \in Users
        PROVE  Distinct(Track(u)') /\ RangeOf(Track(u)') \subseteq published[u]
    <3> DEFINE left == acked'[u] \o << >>
               back == Returned(u, lost[u]) \o queue[u]
    <3>1. /\ inflight'[u] = << >>
          /\ queue'[u] = IF restarted THEN << >> ELSE back
      BY <1>4 DEF ContextClosed, Closed
    <3>2. /\ lost[u] \in Nat /\ lost[u] <= Len(acked[u])
          /\ acked'[u] = SubSeq(acked[u], 1, Len(acked[u]) - lost[u])
      BY AckedPrefix
    <3>3. left \o back = Track(u)
      BY <3>2, ReturnedTrack
    <3>4. left \in Seq(Messages) /\ back \in Seq(Messages)
      BY <3>2, ReturnedType, ConcatEmptySeq
    <3>5. Track(u)' = left \o queue'[u]
      BY <3>1 DEF Track
    <3>6. left \o << >> = left
      BY <3>4, ConcatEmptySeq
    <3>7. Distinct(Track(u)) /\ RangeOf(Track(u)) \subseteq published[u]
      BY DEF Placed
    <3> HIDE DEF left, back
    <3>8. Distinct(left) /\ RangeOf(left) \subseteq published[u]
      <4>1. Distinct(left \o back)
        BY <3>3, <3>7
      <4>2. Distinct(left)
        BY <3>4, <4>1, DistinctParts, ZenonT(30)
      <4>3. RangeOf(left \o back) = RangeOf(left) \cup RangeOf(back)
        BY <3>4, RangeOfConcat, ZenonT(30)
      <4> QED BY <3>3, <3>7, <4>2, <4>3
    <3> QED BY <3>1, <3>3, <3>5, <3>6, <3>7, <3>8
  <2>2. published' = published
    BY <1>4 DEF ContextClosed
  <2> QED BY <2>1, <2>2 DEF Placed
<1>5. ASSUME NEW u \in Users, Deliver(u) PROVE Placed'
  <2>1. /\ queue[u] # << >> /\ published' = published /\ acked' = acked
        /\ queue' = [queue EXCEPT ![u] = Tail(queue[u])]
        /\ inflight' = [inflight EXCEPT ![u] = Append(inflight[u], Head(queue[u]))]
    BY <1>5 DEF Deliver
  <2>2. acked[u] \in Seq(Messages) /\ inflight[u] \in Seq(Messages) /\ queue[u] \in Seq(Messages)
    BY DEF ServerTypeOK
  <2>3. (acked[u] \o Append(inflight[u], Head(queue[u]))) \o Tail(queue[u]) = Track(u)
    <3>1. PICK a \in Seq(Messages), f \in Seq(Messages), q \in Seq(Messages) :
                a = acked[u] /\ f = inflight[u] /\ q = queue[u]
      BY <2>2
    <3>2. (a \o Append(f, Head(q))) \o Tail(q) = (a \o f) \o q
      <4>1. q # << >>
        BY <2>1, <3>1
      <4> QED BY ONLY <4>1, a \in Seq(Messages), f \in Seq(Messages), q \in Seq(Messages), TrackTaken, Zenon
    <3> QED BY <3>1, <3>2 DEF Track
  <2>4. ASSUME NEW v \in Users PROVE Track(v)' = Track(v)
    BY <2>1, <2>3 DEF Track, ServerTypeOK
  <2> QED BY <1>1, <2>1, <2>4
<1>6. ASSUME NEW s \in Sockets, Disconnect(s) PROVE Placed'
  <2> DEFINE closes == IF (sockets[s] # None /\ users[sockets[s]] = {s}) /\ worker[sockets[s]] # "none"
                       THEN {sockets[s]} ELSE {}
  <2>1. /\ queue' = [v \in Users |-> (IF v \in closes THEN Returned(v, 0) ELSE << >>) \o queue[v]]
        /\ inflight' = [v \in Users |-> IF v \in closes THEN << >> ELSE inflight[v]]
        /\ acked' = acked /\ published' = published
    BY <1>6 DEF Disconnect, Closed
  <2> HIDE DEF closes
  <2>2. ASSUME NEW v \in Users PROVE Track(v)' = Track(v)
    <3>1. acked[v] \in Seq(Messages) /\ queue[v] \in Seq(Messages) /\ Len(acked[v]) \in Nat
      BY LenProperties DEF ServerTypeOK
    <3>2. Track(v)' = (acked[v] \o inflight'[v]) \o queue'[v]
      BY <2>1 DEF Track
    <3>3. CASE v \in closes
      <4>1. (SubSeq(acked[v], 1, Len(acked[v]) - 0) \o << >>) \o (Returned(v, 0) \o queue[v]) = Track(v)
        <5>1. 0 \in Nat /\ 0 <= Len(acked[v])
          BY <3>1
        <5> QED BY <5>1, ReturnedTrack, ZenonT(30)
      <4>2. SubSeq(acked[v], 1, Len(acked[v]) - 0) = acked[v]
        BY <3>1, SubSeqFull
      <4> QED BY <2>1, <3>2, <3>3, <4>1, <4>2
    <3>4. CASE v \notin closes
      <4>1. << >> \o queue[v] = queue[v]
        BY <3>1, ConcatEmptySeq
      <4> QED BY <2>1, <3>2, <3>4, <4>1 DEF Track
    <3> QED BY <3>3, <3>4
  <2> QED BY <1>1, <2>1, <2>2
<1>7. ASSUME NEW s \in Sockets, NEW ids \in Seq(Messages), AckNots(s, ids) PROVE Placed'
  <2> PICK u \in Users, k \in Nat :
              /\ u = sockets[s]
              /\ k <= Len(unack[u]) /\ k <= Len(inflight[u])
              /\ Takes(unack[u], ids, k)
              /\ k > 0 => worker[u] = "open" /\ unack[u] = inflight[u]
              /\ unack' = [unack EXCEPT ![u] = SubSeq(unack[u], k + 1, Len(unack[u]))]
              /\ inflight' = [inflight EXCEPT ![u] = SubSeq(inflight[u], k + 1, Len(inflight[u]))]
              /\ acked' = [acked EXCEPT ![u] = acked[u] \o SubSeq(inflight[u], 1, k)]
    BY <1>7, AckNotsTakes
  <2>1. acked[u] \in Seq(Messages) /\ inflight[u] \in Seq(Messages) /\ queue[u] \in Seq(Messages)
    BY DEF ServerTypeOK
  <2>2. ((acked[u] \o SubSeq(inflight[u], 1, k)) \o SubSeq(inflight[u], k + 1, Len(inflight[u])))
           \o queue[u] = Track(u)
    <3>1. PICK a \in Seq(Messages), f \in Seq(Messages), q \in Seq(Messages) :
                a = acked[u] /\ f = inflight[u] /\ q = queue[u]
      BY <2>1
    <3>2. k <= Len(f)
      BY <3>1
    <3>3. ((a \o SubSeq(f, 1, k)) \o SubSeq(f, k + 1, Len(f))) \o q = (a \o f) \o q
      BY ONLY <3>2, a \in Seq(Messages), f \in Seq(Messages), q \in Seq(Messages), k \in Nat, TrackAcked, Zenon
    <3> QED BY <3>1, <3>3 DEF Track
  <2>3. queue' = queue /\ published' = published
    BY <1>7 DEF AckNots
  <2>4. ASSUME NEW v \in Users PROVE Track(v)' = Track(v)
    BY <2>2, <2>3 DEF Track, ServerTypeOK
  <2> QED BY <1>1, <2>3, <2>4
<1>8. ASSUME NEW u \in Users, NEW m \in Messages, Publish(u, m) PROVE Placed'
  <2>1. /\ m \notin published[u] /\ published' = [published EXCEPT ![u] = published[u] \cup {m}]
        /\ queue' = [queue EXCEPT ![u] = Append(queue[u], m)]
        /\ acked' = acked /\ inflight' = inflight
    BY <1>8 DEF Publish
  <2>2. acked[u] \in Seq(Messages) /\ inflight[u] \in Seq(Messages) /\ queue[u] \in Seq(Messages)
    BY DEF ServerTypeOK
  <2>3. Track(u) \in Seq(Messages)
    BY <2>2, ConcatProperties DEF Track
  <2>4. (acked[u] \o inflight[u]) \o Append(queue[u], m) = Append(Track(u), m)
    <3>1. PICK a \in Seq(Messages), f \in Seq(Messages), q \in Seq(Messages) :
                a = acked[u] /\ f = inflight[u] /\ q = queue[u]
      BY <2>2
    <3>2. (a \o f) \o Append(q, m) = Append((a \o f) \o q, m)
      BY TrackSent
    <3> QED BY <3>1, <3>2 DEF Track
  <2>5. Track(u)' = Append(Track(u), m)
    BY <2>1, <2>4 DEF Track, ServerTypeOK
  <2>6. Distinct(Track(u)) /\ RangeOf(Track(u)) \subseteq published[u]
    BY DEF Placed
  <2>7. Distinct(Append(Track(u), m))
    BY <2>1, <2>3, <2>6, DistinctAppend
  <2>8. RangeOf(Append(Track(u), m)) = RangeOf(Track(u)) \cup {m}
    BY <2>3, RangeOfAppend
  <2>9. published'[u] = published[u] \cup {m}
    BY <2>1 DEF ServerTypeOK
  <2>10. Distinct(Track(u)') /\ RangeOf(Track(u)') \subseteq published'[u]
    BY <2>5, <2>6, <2>7, <2>8, <2>9
  <2>11. ASSUME NEW v \in Users, v # u
         PROVE  Distinct(Track(v)') /\ RangeOf(Track(v)') \subseteq published'[v]
    BY <2>1, <2>11 DEF Track, Placed, ServerTypeOK
  <2> QED BY <2>10, <2>11 DEF Placed
<1>9. ContextReady \/ InitContext => UNCHANGED <<queue, inflight, acked, published>>
  BY DEF ContextReady, InitContext, broker
<1>10. \A u \in Users : WorkerClosed(u) => UNCHANGED <<queue, inflight, acked, published>>
  BY DEF WorkerClosed, broker
<1>11. ASSUME NEW s \in Sockets
       PROVE  Connect(s) \/ AuthenticateCached(s) \/ Authenticate(s) \/ AckUnauthorized(s)
                \/ Receive(s) => UNCHANGED <<queue, inflight, acked, published>>
  BY DEF Connect, AuthenticateCached, Authenticate, AckUnauthorized, Receive, broker
<1>12. \A s \in Sockets, ok \in BOOLEAN :
           AuthAnswered(s, ok) => UNCHANGED <<queue, inflight, acked, published>>
  BY DEF AuthAnswered, broker
<1>13. Restart => Restarted
  BY DEF Restart
<1>14. \A s \in Sockets, ids \in Seq(Messages) : AckRaises(s, ids) => Restarted
  BY DEF AckRaises
<1>15. UNCHANGED serverVars => UNCHANGED <<queue, inflight, acked, published>>
  BY DEF serverVars, broker
<1> QED BY <1>2, <1>3, <1>4, <1>5, <1>6, <1>7, <1>8, <1>9, <1>10, <1>11, <1>12, <1>13, <1>14,
           <1>15, Steps

LEMMA MirrorStep ==
    ASSUME ServerTypeOK, ContextReadiness, Attached, Placed, Mirror, [ServerNext]_serverVars
    PROVE  Mirror'
<1>1. ASSUME UNCHANGED <<worker, unack, inflight>> PROVE Mirror'
  BY <1>1 DEF Mirror
<1>2. CASE ContextReady
  BY <1>2 DEF ContextReady, SubscribeAll, Attached, Mirror, broker
<1>3. CASE InitContext
  BY <1>3 DEF InitContext, Mirror
<1>4. ASSUME Restarted PROVE Mirror'
  BY <1>4 DEF Restarted, Mirror
<1>5. ASSUME NEW forced \in BOOLEAN, NEW restarted \in BOOLEAN, ContextClosed(forced, restarted)
      PROVE  Mirror'
  BY <1>5 DEF ContextClosed, Closed, Mirror, ServerTypeOK
<1>6. ASSUME NEW u \in Users, Deliver(u) PROVE Mirror'
  <2>1. /\ worker[u] = "open" /\ queue[u] # << >> /\ worker' = worker
        /\ inflight' = [inflight EXCEPT ![u] = Append(inflight[u], Head(queue[u]))]
        /\ unack' = [unack EXCEPT ![u] = Kept(unack[u], Head(queue[u]))]
    BY <1>6 DEF Deliver
  <2>2. Head(queue[u]) \notin RangeOf(unack[u])
    BY <2>1, NextIsNew DEF Mirror
  <2>3. Kept(unack[u], Head(queue[u])) = Append(inflight[u], Head(queue[u]))
    BY <2>1, <2>2 DEF Kept, Mirror
  <2> QED BY <2>1, <2>3 DEF Mirror, ServerTypeOK
<1>7. ASSUME NEW u \in Users, WorkerClosed(u) PROVE Mirror'
  BY <1>7 DEF WorkerClosed, Mirror, ServerTypeOK, broker
<1>8. ASSUME NEW s \in Sockets, LoggedIn(s), inflight' = inflight PROVE Mirror'
  <2>1. ASSUME NEW us \in SUBSET Users, SubscribeAll(us), \A u \in us : worker[u] = "none"
        PROVE  Mirror'
    BY <1>8, <2>1 DEF SubscribeAll, Attached, Mirror
  <2>2. Owner[s] \in Users
    BY NotifServerAssumption
  <2>3. CASE users[Owner[s]] = {} /\ Subscribes(Owner[s])
    BY <1>8, <2>1, <2>2, <2>3 DEF LoggedIn, Subscribes
  <2>4. CASE ~(users[Owner[s]] = {} /\ Subscribes(Owner[s]))
    <3>1. SubscribeAll({})
      BY <1>8, <2>4 DEF LoggedIn
    <3> QED BY <2>1, <3>1
  <2> QED BY <2>3, <2>4
<1>9. ASSUME NEW s \in Sockets, Disconnect(s) PROVE Mirror'
  BY <1>9 DEF Disconnect, Closed, Mirror
<1>10. ASSUME NEW s \in Sockets, NEW ids \in Seq(Messages), AckNots(s, ids) PROVE Mirror'
  <2> PICK u \in Users, k \in Nat :
              /\ u = sockets[s]
              /\ k <= Len(unack[u]) /\ k <= Len(inflight[u])
              /\ Takes(unack[u], ids, k)
              /\ k > 0 => worker[u] = "open" /\ unack[u] = inflight[u]
              /\ unack' = [unack EXCEPT ![u] = SubSeq(unack[u], k + 1, Len(unack[u]))]
              /\ inflight' = [inflight EXCEPT ![u] = SubSeq(inflight[u], k + 1, Len(inflight[u]))]
              /\ acked' = [acked EXCEPT ![u] = acked[u] \o SubSeq(inflight[u], 1, k)]
    BY <1>10, AckNotsTakes
  <2>1. worker' = worker
    BY <1>10 DEF AckNots
  <2> QED BY <2>1 DEF Mirror, ServerTypeOK
<1>11. \A u \in Users, m \in Messages : Publish(u, m) => UNCHANGED <<worker, unack, inflight>>
  BY DEF Publish
<1>12. ASSUME NEW s \in Sockets
       PROVE  Connect(s) \/ Authenticate(s) \/ AckUnauthorized(s) \/ Receive(s)
                => UNCHANGED <<worker, unack, inflight>>
  BY DEF Connect, Authenticate, AckUnauthorized, Receive, broker
<1>13. \A s \in Sockets : AuthenticateCached(s) => LoggedIn(s) /\ inflight' = inflight
  BY DEF AuthenticateCached, broker
<1>14. ASSUME NEW s \in Sockets, NEW ok \in BOOLEAN
       PROVE  AuthAnswered(s, ok) => /\ LoggedIn(s) \/ UNCHANGED <<worker, unack>>
                                     /\ inflight' = inflight
  BY DEF AuthAnswered, broker
<1>15. Restart => Restarted
  BY DEF Restart
<1>16. \A s \in Sockets, ids \in Seq(Messages) : AckRaises(s, ids) => Restarted
  BY DEF AckRaises
<1>17. UNCHANGED serverVars => UNCHANGED <<worker, unack, inflight>>
  BY DEF serverVars, broker
<1> QED BY <1>1, <1>2, <1>3, <1>4, <1>5, <1>6, <1>7, <1>8, <1>9, <1>10, <1>11, <1>12, <1>13,
           <1>14, <1>15, <1>16, <1>17, Steps

\* The keys only go away, or the server knows none.
LEMMA LoginKeys ==
    ASSUME NEW s \in Sockets, LoggedIn(s), NEW u \in Users
    PROVE  unack'[u] \in {unack[u], << >>}
BY DEF LoggedIn, SubscribeAll

LEMMA AckedNotHeldStep ==
    ASSUME ServerTypeOK, Mirror, Placed, AckedNotHeld, [ServerNext]_serverVars
    PROVE  AckedNotHeld'
<1>1. ASSUME \A u \in Users : /\ RangeOf(acked'[u]) \subseteq RangeOf(acked[u])
                              /\ unack'[u] \in {unack[u], << >>}
      PROVE  AckedNotHeld'
  <2>1. RangeOf(<< >>) = {}
    BY DEF RangeOf
  <2> QED BY <1>1, <2>1 DEF AckedNotHeld
<1>2. ASSUME Restarted PROVE AckedNotHeld'
  BY <1>1, <1>2, AckedPrefix DEF Restarted
<1>3. ASSUME NEW forced \in BOOLEAN, NEW restarted \in BOOLEAN, ContextClosed(forced, restarted)
      PROVE  AckedNotHeld'
  BY <1>1, <1>3, AckedPrefix DEF ContextClosed
<1>4. ASSUME NEW u \in Users, Deliver(u) PROVE AckedNotHeld'
  <2>1. /\ queue[u] # << >> /\ acked' = acked
        /\ unack' = [unack EXCEPT ![u] = Kept(unack[u], Head(queue[u]))]
    BY <1>4 DEF Deliver
  <2>2. Head(queue[u]) \notin RangeOf(acked[u])
    BY <2>1, NextIsNew
  <2>3. RangeOf(Kept(unack[u], Head(queue[u]))) \subseteq RangeOf(unack[u]) \cup {Head(queue[u])}
    <3>1. unack[u] \in Seq(Messages) /\ queue[u] \in Seq(Messages)
      BY DEF ServerTypeOK
    <3>2. Head(queue[u]) \in Messages
      BY <2>1, <3>1, HeadTailProperties
    <3>3. RangeOf(Append(unack[u], Head(queue[u]))) = RangeOf(unack[u]) \cup {Head(queue[u])}
      BY <3>1, <3>2, RangeOfAppend
    <3> QED BY <3>3 DEF Kept
  <2> QED BY <2>1, <2>2, <2>3 DEF AckedNotHeld, ServerTypeOK
<1>5. ASSUME NEW s \in Sockets, NEW ids \in Seq(Messages), AckNots(s, ids) PROVE AckedNotHeld'
  <2> PICK u \in Users, k \in Nat :
              /\ u = sockets[s]
              /\ k <= Len(unack[u]) /\ k <= Len(inflight[u])
              /\ Takes(unack[u], ids, k)
              /\ k > 0 => worker[u] = "open" /\ unack[u] = inflight[u]
              /\ unack' = [unack EXCEPT ![u] = SubSeq(unack[u], k + 1, Len(unack[u]))]
              /\ inflight' = [inflight EXCEPT ![u] = SubSeq(inflight[u], k + 1, Len(inflight[u]))]
              /\ acked' = [acked EXCEPT ![u] = acked[u] \o SubSeq(inflight[u], 1, k)]
    BY <1>5, AckNotsTakes
  <2> DEFINE done == SubSeq(inflight[u], 1, k)
             rest == SubSeq(unack[u], k + 1, Len(unack[u]))
  <2>1. acked[u] \in Seq(Messages) /\ inflight[u] \in Seq(Messages) /\ unack[u] \in Seq(Messages)
    BY DEF ServerTypeOK
  <2>2. done \in Seq(Messages) /\ rest \in Seq(Messages)
    BY <2>1, Cut
  <2>3. RangeOf(rest) \subseteq RangeOf(unack[u])
    BY <2>1, RangeOfCut
  <2>4. RangeOf(done) \cap RangeOf(rest) = {}
    <3>1. CASE k = 0
      <4>1. RangeOf(done) = {inflight[u][i] : i \in 1..k}
        BY <2>1, RangeOfCut
      <4> QED BY <3>1, <4>1
    <3>2. CASE k > 0
      <4>1. Distinct(unack[u])
        BY <3>2, HeldOnce
      <4>2. done \o rest = unack[u]
        BY <2>1, <3>2, Cut
      <4> HIDE DEF done, rest
      <4>3. Distinct(done \o rest)
        BY <4>1, <4>2
      <4> QED BY <2>2, <4>3, DistinctParts
    <3> QED BY <3>1, <3>2
  <2>5. RangeOf(acked[u] \o done) = RangeOf(acked[u]) \cup RangeOf(done)
    <3> HIDE DEF done
    <3> QED BY <2>1, <2>2, RangeOfConcat
  <2>6. acked' = [acked EXCEPT ![u] = acked[u] \o done] /\ unack' = [unack EXCEPT ![u] = rest]
    OBVIOUS
  <2> HIDE DEF done, rest
  <2>7. RangeOf(acked'[u]) \cap RangeOf(unack'[u]) = {}
    BY <2>3, <2>4, <2>5, <2>6 DEF AckedNotHeld, ServerTypeOK
  <2> QED BY <2>6, <2>7 DEF AckedNotHeld, ServerTypeOK
<1>6. ContextReady \/ InitContext => acked' = acked /\ \A u \in Users : unack'[u] \in {unack[u], << >>}
  BY DEF ContextReady, InitContext, SubscribeAll
<1>7. \A u \in Users : WorkerClosed(u) => UNCHANGED <<acked, unack>>
  BY DEF WorkerClosed
<1>8. \A u \in Users, m \in Messages : Publish(u, m) => UNCHANGED <<acked, unack>>
  BY DEF Publish
<1>9. ASSUME NEW s \in Sockets
      PROVE  Connect(s) \/ Authenticate(s) \/ AckUnauthorized(s) \/ Receive(s) \/ Disconnect(s)
               => UNCHANGED <<acked, unack>>
  BY DEF Connect, Authenticate, AckUnauthorized, Receive, Disconnect
<1>10. ASSUME NEW s \in Sockets, AuthenticateCached(s)
       PROVE  acked' = acked /\ \A u \in Users : unack'[u] \in {unack[u], << >>}
  BY <1>10, LoginKeys DEF AuthenticateCached
<1>11. ASSUME NEW s \in Sockets, NEW ok \in BOOLEAN, AuthAnswered(s, ok)
       PROVE  acked' = acked /\ \A u \in Users : unack'[u] \in {unack[u], << >>}
  BY <1>11, LoginKeys DEF AuthAnswered
<1>12. Restart => Restarted
  BY DEF Restart
<1>13. \A s \in Sockets, ids \in Seq(Messages) : AckRaises(s, ids) => Restarted
  BY DEF AckRaises
<1>14. UNCHANGED serverVars => UNCHANGED <<acked, unack>>
  BY DEF serverVars
<1> QED BY <1>1, <1>2, <1>3, <1>4, <1>5, <1>6, <1>7, <1>8, <1>9, <1>10, <1>11, <1>12, <1>13,
           <1>14, Steps

LEMMA NamedStep ==
    ASSUME ServerTypeOK, Mirror, AckedWasNamed, [ServerNext]_serverVars
    PROVE  AckedWasNamed'
<1>1. ASSUME \A u \in Users : /\ RangeOf(acked'[u]) \subseteq RangeOf(acked[u])
                              /\ confirmed[u] \subseteq confirmed'[u]
      PROVE  AckedWasNamed'
  BY <1>1 DEF AckedWasNamed
<1>2. ASSUME Restarted, \A u \in Users : confirmed[u] \subseteq confirmed'[u] PROVE AckedWasNamed'
  BY <1>1, <1>2, AckedPrefix DEF Restarted
<1>3. ASSUME NEW forced \in BOOLEAN, NEW restarted \in BOOLEAN, ContextClosed(forced, restarted)
      PROVE  AckedWasNamed'
  BY <1>1, <1>3, AckedPrefix DEF ContextClosed
<1>4. ASSUME NEW s \in Sockets, NEW ids \in Seq(Messages), AckNots(s, ids) PROVE AckedWasNamed'
  <2> PICK u \in Users, k \in Nat :
              /\ u = sockets[s]
              /\ k <= Len(unack[u]) /\ k <= Len(inflight[u])
              /\ Takes(unack[u], ids, k)
              /\ k > 0 => worker[u] = "open" /\ unack[u] = inflight[u]
              /\ unack' = [unack EXCEPT ![u] = SubSeq(unack[u], k + 1, Len(unack[u]))]
              /\ inflight' = [inflight EXCEPT ![u] = SubSeq(inflight[u], k + 1, Len(inflight[u]))]
              /\ acked' = [acked EXCEPT ![u] = acked[u] \o SubSeq(inflight[u], 1, k)]
    BY <1>4, AckNotsTakes
  <2> DEFINE done == SubSeq(inflight[u], 1, k)
  <2>1. acked[u] \in Seq(Messages) /\ inflight[u] \in Seq(Messages)
    BY DEF ServerTypeOK
  <2>2. done \in Seq(Messages) /\ RangeOf(done) = {inflight[u][i] : i \in 1..k}
    BY <2>1, Cut, RangeOfCut
  <2>3. RangeOf(done) \subseteq RangeOf(ids)
    <3>1. PICK at \in [1..k -> DOMAIN ids] : \A i \in 1..k : unack[u][i] = ids[at[i]]
      BY DEF Takes
    <3>2. \A i \in 1..k : inflight[u][i] = ids[at[i]]
      BY <3>1
    <3> QED BY <2>2, <3>1, <3>2 DEF RangeOf
  <2>4. RangeOf(acked[u] \o done) = RangeOf(acked[u]) \cup RangeOf(done)
    <3> HIDE DEF done
    <3> QED BY <2>1, <2>2, RangeOfConcat
  <2>5. acked' = [acked EXCEPT ![u] = acked[u] \o done]
    OBVIOUS
  <2>6. confirmed' = [confirmed EXCEPT ![u] = confirmed[u] \cup RangeOf(ids)]
    BY <1>4 DEF AckNots
  <2> HIDE DEF done
  <2>7. RangeOf(acked'[u]) \subseteq confirmed'[u]
    BY <2>3, <2>4, <2>5, <2>6 DEF AckedWasNamed, ServerTypeOK
  <2> QED BY <2>5, <2>6, <2>7 DEF AckedWasNamed, ServerTypeOK
<1>5. ContextReady \/ InitContext => UNCHANGED <<acked, confirmed>>
  BY DEF ContextReady, InitContext
<1>6. \A u \in Users : Deliver(u) \/ WorkerClosed(u) => UNCHANGED <<acked, confirmed>>
  BY DEF Deliver, WorkerClosed
<1>7. \A u \in Users, m \in Messages : Publish(u, m) => UNCHANGED <<acked, confirmed>>
  BY DEF Publish
<1>8. ASSUME NEW s \in Sockets
      PROVE  Connect(s) \/ AuthenticateCached(s) \/ Authenticate(s) \/ AckUnauthorized(s)
               \/ Receive(s) \/ Disconnect(s) => UNCHANGED <<acked, confirmed>>
  BY DEF Connect, AuthenticateCached, Authenticate, AckUnauthorized, Receive, Disconnect
<1>9. \A s \in Sockets, ok \in BOOLEAN : AuthAnswered(s, ok) => UNCHANGED <<acked, confirmed>>
  BY DEF AuthAnswered
<1>10. Restart => Restarted /\ confirmed' = confirmed
  BY DEF Restart
<1>11. ASSUME NEW s \in Sockets, NEW ids \in Seq(Messages), AckRaises(s, ids)
       PROVE  Restarted /\ \A u \in Users : confirmed[u] \subseteq confirmed'[u]
  BY <1>11 DEF AckRaises, ServerTypeOK
<1>12. UNCHANGED serverVars => UNCHANGED <<acked, confirmed>>
  BY DEF serverVars
<1> QED BY <1>1, <1>2, <1>3, <1>4, <1>5, <1>6, <1>7, <1>8, <1>9, <1>10, <1>11, <1>12, Steps

-----------------------------------------------------------------------------
(* What the browsers have *)

\* The messages among packets.
Ids(packets) == {p.id : p \in {q \in RangeOf(packets) : q.type = "message"}}

LEMMA IdsOfConcat ==
    ASSUME NEW w \in Seq(Packets), NEW x \in Seq(Packets)
    PROVE  Ids(w \o x) = Ids(w) \cup Ids(x)
<1>1. RangeOf(w \o x) = RangeOf(w) \cup RangeOf(x)
  BY RangeOfConcat
<1> QED BY <1>1 DEF Ids

LEMMA IdsOfAppend ==
    ASSUME NEW w \in Seq(Packets), NEW p \in Packets
    PROVE  /\ Ids(w) \subseteq Ids(Append(w, p))
           /\ p.type = "message" => p.id \in Ids(Append(w, p))
<1>1. RangeOf(Append(w, p)) = RangeOf(w) \cup {p}
  BY RangeOfAppend
<1> QED BY <1>1 DEF Ids

\* The packet that a browser takes is not on its way any more.
LEMMA IdsOfTail ==
    ASSUME NEW w \in Seq(Packets), w # << >>
    PROVE  Ids(w) \subseteq Ids(Tail(w)) \cup ({Head(w).id} \ {None})
<1>1. Head(w) \in Packets /\ Tail(w) \in Seq(Packets) /\ <<Head(w)>> \in Seq(Packets)
  BY HeadTailProperties
<1>2. w = <<Head(w)>> \o Tail(w)
  <2>1. Len(w) \in Nat /\ 1 \in 1..Len(w) /\ Len(w) \in 1..Len(w)
    BY EmptySeq
  <2>2. SubSeq(w, 1, Len(w)) = <<w[1]>> \o SubSeq(w, 1 + 1, Len(w))
    BY <2>1, SubSeqRecursiveFirst
  <2>3. SubSeq(w, 1, Len(w)) = w
    BY SubSeqFull
  <2>4. Tail(w) = SubSeq(w, 1 + 1, Len(w))
    BY TailIsSubSeq
  <2>5. Head(w) = w[1]
    OBVIOUS
  <2> QED BY <2>2, <2>3, <2>4, <2>5
<1>3. PICK p \in Packets, r \in Seq(Packets) : p = Head(w) /\ r = Tail(w)
  BY <1>1
<1>4. <<p>> \in Seq(Packets)
  BY <1>1, <1>3
<1>5. Ids(<<p>> \o r) = Ids(<<p>>) \cup Ids(r)
  BY <1>4, IdsOfConcat
<1>6. RangeOf(<<p>>) = {p}
  BY DEF RangeOf
<1>7. p.type = "message" => p.id # None
  BY NotifServerAssumption DEF Packets
<1>8. Ids(<<p>>) \subseteq {p.id} \ {None}
  BY <1>6, <1>7 DEF Ids
<1> QED BY <1>2, <1>3, <1>5, <1>8

LEMMA RetransmittedIds ==
    ASSUME ServerTypeOK, NEW u \in Users
    PROVE  Ids(Retransmitted(u)) = RangeOf(unack[u])
<1>1. /\ Retransmitted(u) \in Seq(Packets) /\ unack[u] \in Seq(Messages)
      /\ Len(Retransmitted(u)) = Len(unack[u]) /\ Len(unack[u]) \in Nat
      /\ \A i \in 1..Len(unack[u]) : Retransmitted(u)[i] = Message(unack[u][i])
  BY WireType, LenProperties DEF ServerTypeOK
<1>2. DOMAIN Retransmitted(u) = 1..Len(unack[u]) /\ DOMAIN unack[u] = 1..Len(unack[u])
  BY <1>1, LenProperties
<1>3. RangeOf(Retransmitted(u)) = {Message(m) : m \in RangeOf(unack[u])}
  BY <1>1, <1>2 DEF RangeOf
<1>4. \A m : Message(m).type = "message" /\ Message(m).id = m
  BY DEF Message
<1> QED BY <1>3, <1>4 DEF Ids

LEMMA EmitIds ==
    ASSUME ServerTypeOK, NEW ss, NEW p \in Packets, Emit(ss, p), NEW s \in Sockets
    PROVE  /\ Ids(wire[s]) \subseteq Ids(wire'[s])
           /\ s \in ss /\ conn[s] = "open" /\ p.type = "message" => p.id \in Ids(wire'[s])
<1>1. wire[s] \in Seq(Packets)
  BY DEF ServerTypeOK
<1>2. PICK w \in Seq(Packets) : w = wire[s]
  BY <1>1
<1>3. /\ Ids(w) \subseteq Ids(Append(w, p))
      /\ p.type = "message" => p.id \in Ids(Append(w, p))
  BY IdsOfAppend
<1>4. wire'[s] = IF s \in ss /\ conn[s] = "open" THEN Append(w, p) ELSE w
  BY <1>2 DEF Emit
<1> QED BY <1>2, <1>3, <1>4

\* A step with which the browsers have as much, and the server holds no more.
LEMMA NoMore ==
    ASSUME NothingMissed,
           \A u \in Users : users'[u] \subseteq users[u],
           \A u \in Users : RangeOf(unack'[u]) \subseteq RangeOf(unack[u]),
           \A u \in Users : \A s \in users'[u] : conn'[s] = "open" =>
               conn[s] = "open" /\ got[s] \cup Ids(wire[s]) \subseteq got'[s] \cup Ids(wire'[s])
    PROVE  NothingMissed'
<1> SUFFICES ASSUME NEW u \in Users, NEW s \in users'[u], conn'[s] = "open"
             PROVE  RangeOf(unack'[u]) \subseteq got'[s] \cup Ids(wire'[s])
  BY DEF NothingMissed, Coming, Ids
<1>1. RangeOf(unack[u]) \subseteq got[s] \cup Ids(wire[s])
  BY DEF NothingMissed, Coming, Ids
<1> QED BY <1>1

LEMMA NothingMissedLogin ==
    ASSUME ServerTypeOK, NothingMissed, NEW s \in Sockets, LoggedIn(s), conn' = conn, got' = got
    PROVE  NothingMissed'
<1> DEFINE o == Owner[s]
           first == users[o] = {} /\ Subscribes(o)
           again == IF first THEN << >> ELSE Retransmitted(o)
           answer == <<Reply("authenticate", TRUE)>>
<1>1. o \in Users
  BY NotifServerAssumption
<1>2. Retransmitted(o) \in Seq(Packets) /\ Ids(Retransmitted(o)) = RangeOf(unack[o])
  BY <1>1, WireType, RetransmittedIds
<1>3. again \in Seq(Packets) /\ answer \in Seq(Packets)
  <2>1. again \in Seq(Packets)
    BY <1>2, Empty
  <2>2. ASSUME NEW p \in Packets PROVE <<p>> \in Seq(Packets)
    OBVIOUS
  <2>3. Reply("authenticate", TRUE) \in Packets
    BY <1>1, WireType
  <2> QED BY <2>1, <2>2, <2>3
<1>4. /\ users' = [users EXCEPT ![o] = users[o] \cup {s}]
      /\ unack' = [u \in Users |-> IF u = o /\ first THEN << >> ELSE unack[u]]
      /\ wire' = [t \in Sockets |->
                      IF conn[t] # "open" THEN wire[t]
                      ELSE IF t = s THEN (wire[t] \o answer) \o again
                      ELSE IF t \in users[o] THEN wire[t] \o again
                      ELSE wire[t]]
  BY DEF LoggedIn, SubscribeAll
<1>5. ~first => Ids(again) = RangeOf(unack[o])
  BY <1>2
<1> HIDE DEF again, answer, first
<1>6. ASSUME NEW t \in Sockets, conn[t] = "open"
      PROVE  /\ Ids(wire[t]) \subseteq Ids(wire'[t])
             /\ t = s => Ids(again) \subseteq Ids(wire'[t])
  <2>1. PICK w \in Seq(Packets) : w = wire[t]
    BY DEF ServerTypeOK
  <2>2. PICK x \in Seq(Packets), y \in Seq(Packets) : x = answer /\ y = again
    BY <1>3
  <2>3. w \o x \in Seq(Packets) /\ Ids(w \o x) = Ids(w) \cup Ids(x)
    BY IdsOfConcat, ConcatProperties
  <2>4. Ids((w \o x) \o y) = Ids(w \o x) \cup Ids(y)
    BY <2>3, IdsOfConcat
  <2>5. Ids(w \o y) = Ids(w) \cup Ids(y)
    BY IdsOfConcat
  <2>6. wire'[t] \in {w, w \o y, (w \o x) \o y} /\ (t = s => wire'[t] = (w \o x) \o y)
    BY <1>4, <1>6, <2>1, <2>2
  <2> QED BY <2>1, <2>2, <2>3, <2>4, <2>5, <2>6
<1>7. ASSUME NEW u \in Users, NEW t \in users'[u], conn[t] = "open"
      PROVE  RangeOf(unack'[u]) \subseteq got[t] \cup Ids(wire'[t])
  <2>1. t \in Sockets
    BY <1>4 DEF ServerTypeOK
  <2>2. RangeOf(<< >>) = {}
    BY DEF RangeOf
  <2>3. unack'[u] \in {unack[u], << >>}
    BY <1>4
  <2>4. CASE t \in users[u]
    <3>1. RangeOf(unack[u]) \subseteq got[t] \cup Ids(wire[t])
      BY <1>7, <2>4 DEF NothingMissed, Coming, Ids
    <3> QED BY <1>6, <1>7, <2>1, <2>2, <2>3, <3>1
  <2>5. CASE t \notin users[u]
    <3>1. u = o /\ t = s
      BY <1>1, <1>4, <2>5 DEF ServerTypeOK
    <3>2. CASE first
      BY <1>4, <2>2, <3>1, <3>2
    <3>3. CASE ~first
      BY <1>4, <1>5, <1>6, <1>7, <2>1, <3>1, <3>3
    <3> QED BY <3>2, <3>3
  <2> QED BY <2>4, <2>5
<1> QED BY <1>7 DEF NothingMissed, Coming, Ids

LEMMA NothingMissedStep ==
    ASSUME ServerTypeOK, Mirror, Connected, NothingMissed, [ServerNext]_serverVars
    PROVE  NothingMissed'
<1>1. ASSUME UNCHANGED <<users, conn, wire, got>>, \A u \in Users : unack'[u] \in {unack[u], << >>}
      PROVE  NothingMissed'
  <2>1. RangeOf(<< >>) = {}
    BY DEF RangeOf
  <2> QED BY <1>1, <2>1, NoMore
<1>2. ASSUME Restarted PROVE NothingMissed'
  BY <1>2 DEF Restarted, NothingMissed
<1>3. ASSUME NEW u \in Users, Deliver(u) PROVE NothingMissed'
  <2> DEFINE m == Head(queue[u])
  <2>1. /\ queue[u] # << >> /\ Emit(users[u], Message(m)) /\ UNCHANGED <<users, conn, got>>
        /\ unack' = [unack EXCEPT ![u] = Kept(unack[u], m)]
    BY <1>3 DEF Deliver, logins
  <2>2. unack[u] \in Seq(Messages) /\ m \in Messages
    BY <2>1, HeadTailProperties DEF ServerTypeOK
  <2>3. RangeOf(Kept(unack[u], m)) \subseteq RangeOf(unack[u]) \cup {m}
    BY <2>2, RangeOfAppend DEF Kept
  <2>4. Message(m) \in Packets /\ Message(m).type = "message" /\ Message(m).id = m
    BY <2>2 DEF Message, Packets
  <2>5. ASSUME NEW t \in Sockets
        PROVE  /\ Ids(wire[t]) \subseteq Ids(wire'[t])
               /\ t \in users[u] /\ conn[t] = "open" => m \in Ids(wire'[t])
    BY <2>1, <2>4, EmitIds
  <2> HIDE DEF m
  <2>6. ASSUME NEW v \in Users, NEW t \in users[v], conn[t] = "open"
        PROVE  RangeOf(unack'[v]) \subseteq got[t] \cup Ids(wire'[t])
    <3>1. t \in Sockets
      BY DEF ServerTypeOK
    <3>2. RangeOf(unack[v]) \subseteq got[t] \cup Ids(wire[t])
      BY <2>6 DEF NothingMissed, Coming, Ids
    <3>3. RangeOf(unack'[v]) \subseteq RangeOf(unack[v]) \cup IF v = u THEN {m} ELSE {}
      BY <2>1, <2>3 DEF ServerTypeOK
    <3>4. CASE v = u
      BY <2>5, <2>6, <3>1, <3>2, <3>3, <3>4
    <3>5. CASE v # u
      BY <2>5, <3>1, <3>2, <3>3, <3>5
    <3> QED BY <3>4, <3>5
  <2> QED BY <2>1, <2>6 DEF NothingMissed, Coming, Ids
<1>4. ASSUME NEW s \in Sockets, Connect(s) PROVE NothingMissed'
  <2>1. conn[s] = "new" /\ conn' = [conn EXCEPT ![s] = "open"] /\ UNCHANGED <<users, unack, wire, got>>
    BY <1>4 DEF Connect
  <2>2. \A u \in Users : s \notin users[u]
    BY <2>1 DEF Connected
  <2>3. \A u \in Users : \A t \in users'[u] : t \in Sockets /\ conn'[t] = conn[t]
    BY <2>1, <2>2 DEF ServerTypeOK
  <2> QED BY <2>1, <2>3, NoMore
<1>5. ASSUME NEW ss, NEW p \in Packets, Emit(ss, p), UNCHANGED <<users, conn, got>>,
             \A u \in Users : RangeOf(unack'[u]) \subseteq RangeOf(unack[u])
      PROVE  NothingMissed'
  <2>1. \A t \in Sockets : Ids(wire[t]) \subseteq Ids(wire'[t])
    BY <1>5, EmitIds
  <2>2. \A u \in Users : \A t \in users'[u] : t \in Sockets
    BY <1>5 DEF ServerTypeOK
  <2> QED BY <1>5, <2>1, <2>2, NoMore
<1>6. ASSUME NEW s \in Sockets, AuthenticateCached(s) PROVE NothingMissed'
  <2>1. LoggedIn(s) /\ conn' = conn /\ got' = got
    BY <1>6 DEF AuthenticateCached
  <2> QED BY <2>1, NothingMissedLogin
<1>7. ASSUME NEW s \in Sockets, NEW ok \in BOOLEAN, AuthAnswered(s, ok) PROVE NothingMissed'
  <2>1. CASE ok
    <3>1. LoggedIn(s) /\ conn' = conn /\ got' = got
      BY <1>7, <2>1 DEF AuthAnswered
    <3> QED BY <3>1, NothingMissedLogin
  <2>2. CASE ~ok
    <3>1. Emit({s}, Reply("authenticate", FALSE)) /\ UNCHANGED <<users, conn, got, unack>>
      BY <1>7, <2>2 DEF AuthAnswered
    <3>2. Reply("authenticate", FALSE) \in Packets
      BY DEF Reply, Packets
    <3> QED BY <1>5, <3>1, <3>2
  <2> QED BY <2>1, <2>2
<1>8. ASSUME NEW s \in Sockets, Disconnect(s) PROVE NothingMissed'
  <2>1. /\ conn' = [conn EXCEPT ![s] = "closed"] /\ UNCHANGED <<unack, got>>
        /\ wire' = [wire EXCEPT ![s] = << >>]
        /\ \A u \in Users : users'[u] \subseteq users[u]
    BY <1>8 DEF Disconnect
  <2>2. ASSUME NEW u \in Users, NEW t \in users'[u], conn'[t] = "open"
        PROVE  conn[t] = "open" /\ wire'[t] = wire[t]
    <3>1. t \in Sockets
      BY <2>1 DEF ServerTypeOK
    <3> QED BY <2>1, <2>2, <3>1 DEF ServerTypeOK
  <2> QED BY <2>1, <2>2, NoMore
<1>9. ASSUME NEW s \in Sockets, AckUnauthorized(s) PROVE NothingMissed'
  <2>1. Emit({s}, Reply("ack_nots", FALSE)) /\ UNCHANGED <<users, conn, got, unack>>
    BY <1>9 DEF AckUnauthorized, logins
  <2>2. Reply("ack_nots", FALSE) \in Packets
    BY DEF Reply, Packets
  <2> QED BY <1>5, <2>1, <2>2
<1>10. ASSUME NEW s \in Sockets, NEW ids \in Seq(Messages), AckNots(s, ids) PROVE NothingMissed'
  <2> PICK u \in Users, k \in Nat :
              /\ u = sockets[s]
              /\ k <= Len(unack[u]) /\ k <= Len(inflight[u])
              /\ Takes(unack[u], ids, k)
              /\ k > 0 => worker[u] = "open" /\ unack[u] = inflight[u]
              /\ unack' = [unack EXCEPT ![u] = SubSeq(unack[u], k + 1, Len(unack[u]))]
              /\ inflight' = [inflight EXCEPT ![u] = SubSeq(inflight[u], k + 1, Len(inflight[u]))]
              /\ acked' = [acked EXCEPT ![u] = acked[u] \o SubSeq(inflight[u], 1, k)]
    BY <1>10, AckNotsTakes
  <2>1. Emit({s}, Reply("ack_nots", TRUE)) /\ UNCHANGED <<users, conn, got>>
    BY <1>10 DEF AckNots, logins
  <2>2. Reply("ack_nots", TRUE) \in Packets
    BY DEF Reply, Packets
  <2>3. unack[u] \in Seq(Messages)
    BY DEF ServerTypeOK
  <2>4. RangeOf(SubSeq(unack[u], k + 1, Len(unack[u]))) \subseteq RangeOf(unack[u])
    BY <2>3, RangeOfCut
  <2>5. \A v \in Users : RangeOf(unack'[v]) \subseteq RangeOf(unack[v])
    BY <2>4 DEF ServerTypeOK
  <2> QED BY <1>5, <2>1, <2>2, <2>5
<1>11. ASSUME NEW s \in Sockets, Receive(s) PROVE NothingMissed'
  <2>1. /\ wire[s] # << >> /\ wire' = [wire EXCEPT ![s] = Tail(wire[s])]
        /\ got' = [got EXCEPT ![s] = got[s] \cup ({Head(wire[s]).id} \ {None})]
        /\ UNCHANGED <<users, conn, unack>>
    BY <1>11 DEF Receive, logins
  <2>2. PICK w \in Seq(Packets) : w = wire[s]
    BY DEF ServerTypeOK
  <2>3. Ids(w) \subseteq Ids(Tail(w)) \cup ({Head(w).id} \ {None})
    BY <2>1, <2>2, IdsOfTail
  <2>4. got[s] \cup Ids(wire[s]) \subseteq got'[s] \cup Ids(wire'[s])
    BY <2>1, <2>2, <2>3 DEF ServerTypeOK
  <2>5. \A t \in Sockets : got[t] \cup Ids(wire[t]) \subseteq got'[t] \cup Ids(wire'[t])
    BY <2>1, <2>4 DEF ServerTypeOK
  <2>6. \A u \in Users : \A t \in users'[u] : t \in Sockets
    BY <2>1 DEF ServerTypeOK
  <2> QED BY <2>1, <2>5, <2>6, NoMore
<1>12. ContextReady \/ InitContext =>
          /\ UNCHANGED <<users, conn, wire, got>>
          /\ \A u \in Users : unack'[u] \in {unack[u], << >>}
  BY DEF ContextReady, InitContext, SubscribeAll, logins
<1>13. \A forced, restarted \in BOOLEAN :
          ContextClosed(forced, restarted) => UNCHANGED <<users, conn, wire, got, unack>>
  BY DEF ContextClosed, logins
<1>14. \A u \in Users : WorkerClosed(u) => UNCHANGED <<users, conn, wire, got, unack>>
  BY DEF WorkerClosed, logins
<1>15. \A u \in Users, m \in Messages : Publish(u, m) => UNCHANGED <<users, conn, wire, got, unack>>
  BY DEF Publish, logins
<1>16. \A s \in Sockets : Authenticate(s) => UNCHANGED <<users, conn, wire, got, unack>>
  BY DEF Authenticate
<1>17. Restart => Restarted
  BY DEF Restart
<1>18. \A s \in Sockets, ids \in Seq(Messages) : AckRaises(s, ids) => Restarted
  BY DEF AckRaises
<1>19. UNCHANGED serverVars => UNCHANGED <<users, conn, wire, got, unack>>
  BY DEF serverVars, logins
<1> QED BY <1>1, <1>2, <1>3, <1>4, <1>6, <1>7, <1>8, <1>9, <1>10, <1>11, <1>12, <1>13,
           <1>14, <1>15, <1>16, <1>17, <1>18, <1>19, Steps

-----------------------------------------------------------------------------
(* Theorems about the server *)

LEMMA InitInv == ServerInit => IInv
<1> SUFFICES ASSUME ServerInit PROVE IInv
  OBVIOUS
<1>1. ServerTypeOK
  BY InitType
<1>2. << >> \in Seq(Messages) /\ << >> \o << >> = << >> /\ RangeOf(<< >>) = {} /\ Distinct(<< >>)
  BY DEF RangeOf, Distinct
<1>3. Placed
  BY <1>2 DEF ServerInit, Placed, Track
<1>4. AckedNotHeld /\ AckedWasNamed /\ NothingMissed
  BY <1>2 DEF ServerInit, AckedNotHeld, AckedWasNamed, NothingMissed
<1>5. ContextReadiness /\ Attached /\ Connected /\ Mirror
  BY DEF ServerInit, ContextReadiness, Attached, Connected, Mirror
<1> QED BY <1>1, <1>3, <1>4, <1>5 DEF IInv

LEMMA StepInv == IInv /\ [ServerNext]_serverVars => IInv'
<1> SUFFICES ASSUME IInv, [ServerNext]_serverVars PROVE IInv'
  OBVIOUS
<1>1. /\ ServerTypeOK /\ ContextReadiness /\ Attached /\ Connected /\ Placed
      /\ Mirror /\ AckedNotHeld /\ AckedWasNamed /\ NothingMissed
  BY DEF IInv
<1>2. ServerTypeOK' /\ ContextReadiness' /\ Attached'
  BY <1>1, TypeStep, ReadinessStep, AttachedStep
<1>3. Connected' /\ Placed' /\ Mirror'
  BY <1>1, ConnectedStep, PlacedStep, MirrorStep
<1>4. AckedNotHeld' /\ AckedWasNamed' /\ NothingMissed'
  BY <1>1, AckedNotHeldStep, NamedStep, NothingMissedStep
<1> QED BY <1>2, <1>3, <1>4 DEF IInv

\* The inductive invariant holds of every behaviour.
THEOREM Invariant == ServerSpec => []IInv
BY InitInv, StepInv, PTL DEF ServerSpec

\* Every variable keeps its type, whatever the browsers and the broker do.
THEOREM ServerTypes == ServerSpec => []ServerTypeOK
<1>1. IInv => ServerTypeOK
  BY DEF IInv
<1> QED BY <1>1, Invariant, PTL

\* An open worker has exactly the messages that the server holds for its user,
\* in the same order: the ids of the browsers and the ack()s mean the same.
THEOREM MirrorHolds == ServerSpec => []Mirror
<1>1. IInv => Mirror
  BY DEF IInv
<1> QED BY <1>1, Invariant, PTL

\* Only what a browser of the user named is acknowledged at the broker.
THEOREM OnlyNamedAcked == ServerSpec => []AckedWasNamed
<1>1. IInv => AckedWasNamed
  BY DEF IInv
<1> QED BY <1>1, Invariant, PTL

\* What was acknowledged, and not lost with the connection, does not come again.
THEOREM AckedStaysGone == ServerSpec => []AckedIsGone
<1>1. IInv => AckedIsGone
  <2> SUFFICES ASSUME IInv, NEW u \in Users
               PROVE  RangeOf(acked[u]) \cap (RangeOf(queue[u]) \cup RangeOf(inflight[u]) \cup RangeOf(unack[u])) = {}
    BY DEF AckedIsGone
  <2>1. acked[u] \in Seq(Messages) /\ inflight[u] \in Seq(Messages) /\ queue[u] \in Seq(Messages)
    BY DEF IInv, ServerTypeOK
  <2>2. acked[u] \o inflight[u] \in Seq(Messages)
    BY <2>1, ConcatProperties
  <2>3. Distinct((acked[u] \o inflight[u]) \o queue[u])
    BY DEF IInv, Placed, Track
  <2>4. /\ Distinct(acked[u] \o inflight[u])
        /\ RangeOf(acked[u] \o inflight[u]) \cap RangeOf(queue[u]) = {}
    BY <2>1, <2>2, <2>3, DistinctParts
  <2>5. RangeOf(acked[u]) \cap RangeOf(inflight[u]) = {}
    BY <2>1, <2>4, DistinctParts
  <2>6. RangeOf(acked[u] \o inflight[u]) = RangeOf(acked[u]) \cup RangeOf(inflight[u])
    BY <2>1, RangeOfConcat
  <2>7. RangeOf(acked[u]) \cap RangeOf(unack[u]) = {}
    BY DEF IInv, AckedNotHeld
  <2> QED BY <2>4, <2>5, <2>6, <2>7
<1> QED BY <1>1, Invariant, PTL

\* No login is answered without the messages that wait for its user.
THEOREM NoLoginMisses == ServerSpec => []NothingMissed
<1>1. IInv => NothingMissed
  BY DEF IInv
<1> QED BY <1>1, Invariant, PTL

-----------------------------------------------------------------------------
(* The pages *)

LaidOut == lines \in {l.lines : l \in Layouts}

\* What the pages hold.
PagesType ==
    /\ LaidOut
    /\ page \in [Tabs -> Sockets \cup {None}]
    /\ greeting \subseteq Sockets
    /\ shown \in [Tabs -> SUBSET Messages]
    /\ unconfirmed \in [Tabs -> Seq(Messages)]
    /\ count \in [Tabs -> Nat]
    /\ error \in [Tabs -> BOOLEAN]
    /\ storage \subseteq Messages

LEMMA PageSteps ==
    ASSUME [Next]_vars
    PROVE  \/ ServerStep
           \/ \E t \in Tabs : TabConnects(t)
           \/ \E t \in Tabs : TabLoses(t)
           \/ \E t \in Tabs : Reload(t)
           \/ \E t \in Tabs : OnAuthenticate(t)
           \/ \E t \in Tabs : OnMessageReceived(t)
           \/ \E t \in Tabs : OnAcknowledgeCompleted(t)
           \/ \E t \in Tabs : AcknowledgeMessages(t)
           \/ \E s \in Sockets : Greeted(s)
           \/ UNCHANGED vars
BY DEF Next, TabStep

\* Each page has sockets of the user.
LEMMA LinesType ==
    ASSUME PagesType, NEW t \in Tabs, NEW i \in DOMAIN lines[t]
    PROVE  lines[t][i] \in Sockets /\ Owner[lines[t][i]] = User
<1>1. PICK l \in Layouts : lines = l.lines
  BY DEF PagesType, LaidOut
<1>2. l.lines[t] \in Seq(Sockets) /\ Owner[l.lines[t][i]] = User
  BY <1>1, NotificationsAssumption
<1>3. PICK q \in Seq(Sockets) : q = l.lines[t]
  BY <1>2
<1>4. i \in 1..Len(q)
  BY <1>1, <1>3, LenProperties
<1>5. q[i] \in Sockets
  BY <1>4, ElementOfSeq
<1> QED BY <1>1, <1>2, <1>3, <1>5

\* The packet that a page takes.
LEMMA ReceivedType ==
    ASSUME ServerTypeOK, PagesType, NEW t \in Tabs, NEW type, Receives(t, type)
    PROVE  /\ page[t] \in Sockets
           /\ Head(wire[page[t]]) \in Packets
           /\ type = "message" => Head(wire[page[t]]).id \in Messages
<1>1. page[t] \in Sockets
  BY DEF Receives, PagesType
<1>2. wire[page[t]] \in Seq(Packets) /\ wire[page[t]] # << >>
  BY <1>1 DEF ServerTypeOK, Receives
<1>3. Head(wire[page[t]]) \in Packets
  BY <1>2, HeadTailProperties
<1>4. Head(wire[page[t]]).type = type
  BY DEF Receives
<1> QED BY <1>1, <1>3, <1>4 DEF Packets

LEMMA InitPages == Init => PagesType
<1> SUFFICES ASSUME Init PROVE PagesType
  OBVIOUS
<1>1. unconfirmed \in [Tabs -> Seq(Messages)]
  BY Empty DEF Init
<1> QED BY <1>1 DEF Init, PagesType, LaidOut

LEMMA PagesTypeStep ==
    ASSUME ServerTypeOK, PagesType, [Next]_vars
    PROVE  PagesType'
<1>1. CASE ServerStep
  BY <1>1 DEF ServerStep, PagesType, LaidOut, tabState
<1>2. ASSUME NEW t \in Tabs, TabConnects(t) PROVE PagesType'
  <2>1. PICK i \in DOMAIN lines[t] : /\ page' = [page EXCEPT ![t] = lines[t][i]]
                                    /\ greeting' = greeting \cup {lines[t][i]}
    BY <1>2 DEF TabConnects
  <2>2. lines[t][i] \in Sockets
    BY LinesType
  <2> QED BY <1>2, <2>1, <2>2 DEF TabConnects, PagesType, LaidOut, tabState
<1>3. ASSUME NEW t \in Tabs, TabLoses(t) PROVE PagesType'
  BY <1>3 DEF TabLoses, PagesType, LaidOut
<1>4. ASSUME NEW t \in Tabs, Reload(t) PROVE PagesType'
  <2>1. unconfirmed' \in [Tabs -> Seq(Messages)]
    BY <1>4, Empty DEF Reload, PagesType, LaidOut
  <2> QED BY <1>4, <2>1 DEF Reload, PagesType, LaidOut
<1>5. ASSUME NEW t \in Tabs, OnAuthenticate(t) PROVE PagesType'
  <2>1. \/ /\ storage' \subseteq storage
           /\ shown' = [shown EXCEPT ![t] = shown[t] \cup storage']
           /\ count' = [count EXCEPT ![t] = 0] /\ error' = [error EXCEPT ![t] = FALSE]
        \/ UNCHANGED <<shown, count, storage>> /\ error' = [error EXCEPT ![t] = TRUE]
    BY <1>5 DEF OnAuthenticate, ShowCount
  <2>2. storage' \subseteq Messages
    BY <2>1 DEF PagesType
  <2>3. shown' \in [Tabs -> SUBSET Messages]
    BY <2>1, <2>2 DEF PagesType
  <2>4. count' \in [Tabs -> Nat] /\ error' \in [Tabs -> BOOLEAN]
    <3>1. count' \in [Tabs -> Nat]
      <4>1. count' = [count EXCEPT ![t] = 0] \/ count' = count
        BY <2>1, Zenon
      <4> QED BY <4>1 DEF PagesType
    <3>2. CASE error' = [error EXCEPT ![t] = FALSE]
      BY <3>1, <3>2 DEF PagesType
    <3>3. CASE error' = [error EXCEPT ![t] = TRUE]
      BY <3>1, <3>3 DEF PagesType
    <3> QED BY <2>1, <3>2, <3>3, Zenon
  <2>5. UNCHANGED <<lines, page, greeting, unconfirmed>>
    BY <1>5 DEF OnAuthenticate
  <2>6. LaidOut'
    BY <2>5 DEF PagesType, LaidOut
  <2>7. page' \in [Tabs -> Sockets \cup {None}] /\ greeting' \subseteq Sockets
    BY <2>5 DEF PagesType
  <2>8. unconfirmed' \in [Tabs -> Seq(Messages)]
    BY <2>5 DEF PagesType
  <2> QED BY <2>2, <2>3, <2>4, <2>6, <2>7, <2>8 DEF PagesType
<1>6. ASSUME NEW t \in Tabs, OnMessageReceived(t) PROVE PagesType'
  <2> DEFINE id == Head(wire[page[t]]).id
  <2>1. id \in Messages
    BY <1>6, ReceivedType DEF OnMessageReceived
  <2> HIDE DEF id
  <2>2. Append(unconfirmed[t], id) \in Seq(Messages) /\ count[t] + 1 \in Nat
    BY <2>1, AppendProperties DEF PagesType
  <2>3. /\ \/ UNCHANGED <<shown, unconfirmed, count, error>>
           \/ /\ shown' = [shown EXCEPT ![t] = shown[t] \cup {id}]
              /\ unconfirmed' = [unconfirmed EXCEPT ![t] = Append(unconfirmed[t], id)]
              /\ count' = [count EXCEPT ![t] = count[t] + 1]
              /\ error' = [error EXCEPT ![t] = FALSE]
        /\ UNCHANGED <<lines, page, greeting, storage>>
    BY <1>6 DEF OnMessageReceived, ShowCount, id
  <2>4. shown' \in [Tabs -> SUBSET Messages]
    <3>1. shown' = [shown EXCEPT ![t] = shown[t] \cup {id}] \/ shown' = shown
      BY <2>3, Zenon
    <3>2. PICK new \in SUBSET Messages : new = shown[t] \cup {id}
      BY <2>1 DEF PagesType
    <3>3. CASE shown' = [shown EXCEPT ![t] = new]
      BY <3>3 DEF PagesType
    <3>4. CASE shown' = shown
      BY <3>4 DEF PagesType
    <3> QED BY <3>1, <3>2, <3>3, <3>4, Zenon
  <2>5. unconfirmed' \in [Tabs -> Seq(Messages)]
    <3>1. unconfirmed' = [unconfirmed EXCEPT ![t] = Append(unconfirmed[t], id)] \/ unconfirmed' = unconfirmed
      BY <2>3, Zenon
    <3> QED BY <2>2, <3>1 DEF PagesType
  <2>6. count' \in [Tabs -> Nat] /\ error' \in [Tabs -> BOOLEAN]
    <3>1. count' \in [Tabs -> Nat]
      <4>1. count' = [count EXCEPT ![t] = count[t] + 1] \/ count' = count
        BY <2>3, Zenon
      <4> QED BY <2>2, <4>1 DEF PagesType
    <3>2. CASE error' = [error EXCEPT ![t] = FALSE]
      BY <3>1, <3>2 DEF PagesType
    <3>3. CASE error' = error
      BY <3>1, <3>3 DEF PagesType
    <3>4. error' = [error EXCEPT ![t] = FALSE] \/ error' = error
      BY <2>3, Zenon
    <3> QED BY <3>2, <3>3, <3>4, Zenon
  <2>7. LaidOut'
    BY <2>3 DEF PagesType, LaidOut
  <2>8. page' \in [Tabs -> Sockets \cup {None}] /\ greeting' \subseteq Sockets /\ storage' \subseteq Messages
    BY <2>3 DEF PagesType
  <2> QED BY <2>4, <2>5, <2>6, <2>7, <2>8 DEF PagesType
<1>7. ASSUME NEW t \in Tabs, OnAcknowledgeCompleted(t) PROVE PagesType'
  <2>1. RangeOf(unconfirmed[t]) \subseteq Messages
    <3>1. PICK q \in Seq(Messages) : q = unconfirmed[t]
      BY DEF PagesType
    <3>2. RangeOf(q) \subseteq Messages
      BY LenProperties, ElementOfSeq DEF RangeOf
    <3> QED BY <3>1, <3>2
  <2>2. \/ /\ storage' = storage \cup RangeOf(unconfirmed[t])
           /\ count' = [count EXCEPT ![t] = 0] /\ error' = [error EXCEPT ![t] = FALSE]
        \/ UNCHANGED <<storage, count, error>>
    BY <1>7 DEF OnAcknowledgeCompleted, ShowCount
  <2>3. storage' \subseteq Messages
    BY <2>1, <2>2 DEF PagesType
  <2>4. count' \in [Tabs -> Nat] /\ error' \in [Tabs -> BOOLEAN]
    <3>1. count' \in [Tabs -> Nat]
      <4>1. count' = [count EXCEPT ![t] = 0] \/ count' = count
        BY <2>2, Zenon
      <4> QED BY <4>1 DEF PagesType
    <3>2. CASE error' = [error EXCEPT ![t] = FALSE]
      BY <3>1, <3>2 DEF PagesType
    <3>3. CASE error' = error
      BY <3>1, <3>3 DEF PagesType
    <3>4. error' = [error EXCEPT ![t] = FALSE] \/ error' = error
      BY <2>2, Zenon
    <3> QED BY <3>2, <3>3, <3>4, Zenon
  <2>5. UNCHANGED <<lines, page, greeting, shown, unconfirmed>>
    BY <1>7 DEF OnAcknowledgeCompleted
  <2>6. LaidOut'
    BY <2>5 DEF PagesType, LaidOut
  <2>7. page' \in [Tabs -> Sockets \cup {None}] /\ greeting' \subseteq Sockets
    BY <2>5 DEF PagesType
  <2>8. unconfirmed' \in [Tabs -> Seq(Messages)] /\ shown' \in [Tabs -> SUBSET Messages]
    BY <2>5 DEF PagesType
  <2> QED BY <2>3, <2>4, <2>6, <2>7, <2>8 DEF PagesType
<1>8. ASSUME NEW t \in Tabs, AcknowledgeMessages(t) PROVE PagesType'
  BY <1>8 DEF AcknowledgeMessages, PagesType, LaidOut, tabState
<1>9. ASSUME NEW s \in Sockets, Greeted(s) PROVE PagesType'
  BY <1>9 DEF Greeted, PagesType, LaidOut, tabState
<1>10. CASE UNCHANGED vars
  BY <1>10 DEF vars, PagesType, LaidOut, tabState
<1> QED BY <1>1, <1>2, <1>3, <1>4, <1>5, <1>6, <1>7, <1>8, <1>9, <1>10, PageSteps

\* A page does what a client of the server may do.
LEMMA ClientStep ==
    ASSUME ServerTypeOK, PagesType, [Next]_vars
    PROVE  [ServerNext]_serverVars
<1>1. CASE ServerStep
  BY <1>1 DEF ServerStep, ServerNext
<1>2. ASSUME NEW t \in Tabs, TabConnects(t) PROVE ServerNext
  <2>1. PICK i \in DOMAIN lines[t] : Connect(lines[t][i])
    BY <1>2 DEF TabConnects
  <2> QED BY <2>1, LinesType DEF ServerNext
<1>3. ASSUME NEW t \in Tabs, TabLoses(t) \/ Reload(t) PROVE UNCHANGED serverVars
  BY <1>3 DEF TabLoses, Reload
<1>4. ASSUME NEW t \in Tabs, NEW type, Receives(t, type) PROVE ServerNext
  <2>1. page[t] \in Sockets /\ Receive(page[t])
    BY <1>4, ReceivedType DEF Receives
  <2> QED BY <2>1 DEF ServerNext
<1>5. ASSUME NEW t \in Tabs, AcknowledgeMessages(t) PROVE ServerNext
  <2>1. page[t] \in Sockets /\ unconfirmed[t] \in Seq(Messages)
    BY <1>5 DEF AcknowledgeMessages, PagesType
  <2>2. \/ AckNots(page[t], unconfirmed[t])
        \/ AckRaises(page[t], unconfirmed[t])
        \/ AckUnauthorized(page[t])
    BY <1>5 DEF AcknowledgeMessages
  <2> QED BY <2>1, <2>2 DEF ServerNext
<1>6. ASSUME NEW s \in Sockets, Greeted(s) PROVE [ServerNext]_serverVars
  BY <1>6 DEF Greeted, ServerNext
<1>7. UNCHANGED vars => UNCHANGED serverVars
  BY DEF vars
<1>8. \A t \in Tabs : OnAuthenticate(t) => Receives(t, "authenticate")
  BY DEF OnAuthenticate
<1>9. \A t \in Tabs : OnMessageReceived(t) => Receives(t, "message")
  BY DEF OnMessageReceived
<1>10. \A t \in Tabs : OnAcknowledgeCompleted(t) => Receives(t, "ack_nots")
  BY DEF OnAcknowledgeCompleted
<1> QED BY <1>1, <1>2, <1>3, <1>4, <1>5, <1>6, <1>7, <1>8, <1>9, <1>10, PageSteps

LEMMA TypesInvariant == Spec => [](IInv /\ PagesType)
<1>1. Init => IInv /\ PagesType
  BY InitInv, InitPages DEF Init
<1>2. IInv /\ PagesType /\ [Next]_vars => IInv' /\ PagesType'
  <2> SUFFICES ASSUME IInv, PagesType, [Next]_vars PROVE IInv' /\ PagesType'
    OBVIOUS
  <2>1. ServerTypeOK
    BY DEF IInv
  <2>2. [ServerNext]_serverVars
    BY <2>1, ClientStep
  <2> QED BY <2>1, <2>2, StepInv, PagesTypeStep
<1> QED BY <1>1, <1>2, PTL DEF Spec

\* The whole system implements the server with clients that may do anything: the
\* theorems about the server hold of it.
THEOREM PagesAreClients == Spec => ServerSpec
<1>1. Init => ServerInit
  BY DEF Init
<1>2. IInv /\ PagesType /\ [Next]_vars => [ServerNext]_serverVars
  BY ClientStep DEF IInv
<1> QED BY <1>1, <1>2, TypesInvariant, PTL DEF Spec, ServerSpec

\* The server and the pages keep the types of their variables.
THEOREM Types == Spec => []TypeOK
<1>1. IInv /\ PagesType => TypeOK
  BY DEF IInv, PagesType, LaidOut, TypeOK
<1> QED BY <1>1, TypesInvariant, PTL

-----------------------------------------------------------------------------
(* What was received *)

Seen == UNION {got[s] : s \in Sockets}

\* What a page has as unconfirmed was received, and so was what the browsers
\* asked to acknowledge.
SeenInv ==
    /\ \A t \in Tabs : RangeOf(unconfirmed[t]) \subseteq Seen
    /\ \A u \in Users : confirmed[u] \subseteq Seen

\* Nothing that was received is taken back.
LEMMA SeenGrows ==
    ASSUME ServerTypeOK, [ServerNext]_serverVars
    PROVE  Seen \subseteq Seen'
<1> SUFFICES ASSUME NEW s \in Sockets PROVE got[s] \subseteq got'[s]
  BY DEF Seen
<1>1. ASSUME NEW r \in Sockets, Receive(r) PROVE got[s] \subseteq got'[s]
  BY <1>1 DEF Receive, ServerTypeOK
<1>2. ContextReady \/ InitContext \/ Restart => got' = got
  BY DEF ContextReady, InitContext, Restart, Restarted
<1>3. \A forced, restarted \in BOOLEAN : ContextClosed(forced, restarted) => got' = got
  BY DEF ContextClosed
<1>4. \A u \in Users : Deliver(u) \/ WorkerClosed(u) => got' = got
  BY DEF Deliver, WorkerClosed
<1>5. \A u \in Users, m \in Messages : Publish(u, m) => got' = got
  BY DEF Publish
<1>6. ASSUME NEW r \in Sockets
      PROVE  Connect(r) \/ AuthenticateCached(r) \/ Authenticate(r) \/ Disconnect(r)
               \/ AckUnauthorized(r) => got' = got
  BY DEF Connect, AuthenticateCached, Authenticate, Disconnect, AckUnauthorized
<1>7. \A r \in Sockets, ok \in BOOLEAN : AuthAnswered(r, ok) => got' = got
  BY DEF AuthAnswered
<1>8. \A r \in Sockets, ids \in Seq(Messages) : AckNots(r, ids) => got' = got
  BY DEF AckNots
<1>9. \A r \in Sockets, ids \in Seq(Messages) : AckRaises(r, ids) => got' = got
  BY DEF AckRaises, Restarted
<1>10. UNCHANGED serverVars => got' = got
  BY DEF serverVars
<1> QED BY <1>1, <1>2, <1>3, <1>4, <1>5, <1>6, <1>7, <1>8, <1>9, <1>10, Steps

\* Only clicks name messages.
LEMMA ConfirmedKept ==
    /\ \A t \in Tabs : TabConnects(t) => confirmed' = confirmed
    /\ \A t \in Tabs : TabLoses(t) \/ Reload(t) => confirmed' = confirmed
    /\ \A t \in Tabs : OnAuthenticate(t) \/ OnMessageReceived(t) \/ OnAcknowledgeCompleted(t)
                         => confirmed' = confirmed
    /\ \A s \in Sockets : Greeted(s) => confirmed' = confirmed
    /\ ServerStep => confirmed' = confirmed
    /\ UNCHANGED vars => confirmed' = confirmed
<1>1. \A t \in Tabs : TabConnects(t) => confirmed' = confirmed
  BY DEF TabConnects, Connect
<1>2. \A t \in Tabs : TabLoses(t) \/ Reload(t) => confirmed' = confirmed
  BY DEF TabLoses, Reload, serverVars
<1>3. \A t \in Tabs : OnAuthenticate(t) \/ OnMessageReceived(t) \/ OnAcknowledgeCompleted(t)
                         => confirmed' = confirmed
  BY DEF OnAuthenticate, OnMessageReceived, OnAcknowledgeCompleted, Receives, Receive
<1>4. \A s \in Sockets : Greeted(s) => confirmed' = confirmed
  BY DEF Greeted, Authenticate, AuthenticateCached, serverVars
<1>5. ServerStep => confirmed' = confirmed
  <2>1. ContextReady \/ InitContext \/ Restart => confirmed' = confirmed
    BY DEF ContextReady, InitContext, Restart
  <2>2. \A forced, restarted \in BOOLEAN : ContextClosed(forced, restarted) => confirmed' = confirmed
    BY DEF ContextClosed
  <2>3. \A u \in Users : Deliver(u) \/ WorkerClosed(u) => confirmed' = confirmed
    BY DEF Deliver, WorkerClosed
  <2>4. \A u \in Users, m \in Messages : Publish(u, m) => confirmed' = confirmed
    BY DEF Publish
  <2>5. \A s \in Sockets : Disconnect(s) => confirmed' = confirmed
    BY DEF Disconnect
  <2>6. \A s \in Sockets, ok \in BOOLEAN : AuthAnswered(s, ok) => confirmed' = confirmed
    BY DEF AuthAnswered
  <2> QED BY <2>1, <2>2, <2>3, <2>4, <2>5, <2>6 DEF ServerStep
<1>6. UNCHANGED vars => confirmed' = confirmed
  BY DEF vars, serverVars
<1> QED BY <1>1, <1>2, <1>3, <1>4, <1>5, <1>6

\* What one page does with its unconfirmed messages.
LEMMA UnconfirmedStep ==
    ASSUME ServerTypeOK, PagesType, [Next]_vars, NEW t \in Tabs
    PROVE  \/ unconfirmed'[t] = unconfirmed[t] /\ shown[t] \subseteq shown'[t]
              /\ count'[t] \in {count[t], 0}
           \/ unconfirmed'[t] = << >> /\ count'[t] = 0
           \/ \E m \in Messages :
                 /\ m \notin shown[t] /\ m \in Seen'
                 /\ unconfirmed'[t] = Append(unconfirmed[t], m)
                 /\ shown'[t] = shown[t] \cup {m}
                 /\ count'[t] = count[t] + 1
<1> DEFINE Kept0 == unconfirmed'[t] = unconfirmed[t] /\ shown[t] \subseteq shown'[t]
                      /\ count'[t] \in {count[t], 0}
<1>1. ASSUME UNCHANGED <<unconfirmed, shown, count>> PROVE Kept0
  BY <1>1
<1>2. ASSUME NEW r \in Tabs, Reload(r) PROVE Kept0 \/ (unconfirmed'[t] = << >> /\ count'[t] = 0)
  <2>1. /\ unconfirmed' = [unconfirmed EXCEPT ![r] = << >>]
        /\ shown' = [shown EXCEPT ![r] = {}]
        /\ count' = [count EXCEPT ![r] = 0]
    BY <1>2 DEF Reload
  <2>2. CASE r = t
    <3>1. unconfirmed'[t] = << >>
      BY <2>1, <2>2 DEF PagesType
    <3>2. count'[t] = 0
      BY <2>1, <2>2 DEF PagesType
    <3> QED BY <3>1, <3>2
  <2>3. CASE r # t
    <3>1. unconfirmed'[t] = unconfirmed[t]
      BY <2>1, <2>3 DEF PagesType
    <3>2. shown'[t] = shown[t]
      BY <2>1, <2>3 DEF PagesType
    <3>3. count'[t] = count[t]
      BY <2>1, <2>3 DEF PagesType
    <3> QED BY <3>1, <3>2, <3>3
  <2> QED BY <2>2, <2>3
<1>3. ASSUME NEW r \in Tabs, OnAuthenticate(r) PROVE Kept0
  <2>1. count' = [count EXCEPT ![r] = 0] \/ count' = count
    BY <1>3, Zenon DEF OnAuthenticate, ShowCount
  <2>2. shown' = [shown EXCEPT ![r] = shown[r] \cup storage'] \/ shown' = shown
    BY <1>3, Zenon DEF OnAuthenticate
  <2>3. unconfirmed' = unconfirmed
    BY <1>3 DEF OnAuthenticate
  <2> QED BY <2>1, <2>2, <2>3 DEF PagesType
<1>4. ASSUME NEW r \in Tabs, OnMessageReceived(r)
      PROVE  \/ Kept0
             \/ \E m \in Messages :
                 /\ m \notin shown[t] /\ m \in Seen'
                 /\ unconfirmed'[t] = Append(unconfirmed[t], m)
                 /\ shown'[t] = shown[t] \cup {m}
                 /\ count'[t] = count[t] + 1
  <2> DEFINE id == Head(wire[page[r]]).id
  <2>1. id \in Messages /\ page[r] \in Sockets
    BY <1>4, ReceivedType DEF OnMessageReceived
  <2>2. id \in Seen'
    <3>1. got' = [got EXCEPT ![page[r]] = got[page[r]] \cup ({id} \ {None})]
      BY <1>4 DEF OnMessageReceived, Receives, Receive
    <3>2. id # None
      BY <2>1, NotifServerAssumption
    <3> HIDE DEF id
    <3> QED BY <2>1, <3>1, <3>2 DEF Seen, ServerTypeOK
  <2>3. CASE id \in shown[r]
    <3>1. UNCHANGED <<unconfirmed, shown, count>>
      BY <1>4, <2>3 DEF OnMessageReceived
    <3> QED BY <1>1, <3>1
  <2>4. CASE id \notin shown[r]
    <3>1. /\ shown' = [shown EXCEPT ![r] = shown[r] \cup {id}]
          /\ unconfirmed' = [unconfirmed EXCEPT ![r] = Append(unconfirmed[r], id)]
          /\ count' = [count EXCEPT ![r] = count[r] + 1]
      BY <1>4, <2>4 DEF OnMessageReceived, ShowCount
    <3> HIDE DEF id
    <3>2. CASE r = t
      BY <2>1, <2>2, <2>4, <3>1, <3>2 DEF PagesType
    <3>3. CASE r # t
      BY <3>1, <3>3 DEF PagesType
    <3> QED BY <3>2, <3>3
  <2> QED BY <2>3, <2>4
<1>5. ASSUME NEW r \in Tabs, OnAcknowledgeCompleted(r) PROVE Kept0
  <2>1. count' = [count EXCEPT ![r] = 0] \/ count' = count
    BY <1>5, Zenon DEF OnAcknowledgeCompleted, ShowCount
  <2>2. UNCHANGED <<unconfirmed, shown>>
    BY <1>5 DEF OnAcknowledgeCompleted
  <2> QED BY <2>1, <2>2 DEF PagesType
<1>6. \A r \in Tabs : TabConnects(r) => UNCHANGED <<unconfirmed, shown, count>>
  BY DEF TabConnects, tabState
<1>7. \A r \in Tabs : TabLoses(r) => UNCHANGED <<unconfirmed, shown, count>>
  BY DEF TabLoses
<1>8. \A r \in Tabs : AcknowledgeMessages(r) => UNCHANGED <<unconfirmed, shown, count>>
  BY DEF AcknowledgeMessages, tabState
<1>9. \A s \in Sockets : Greeted(s) => UNCHANGED <<unconfirmed, shown, count>>
  BY DEF Greeted, tabState
<1>10. ServerStep => UNCHANGED <<unconfirmed, shown, count>>
  BY DEF ServerStep, tabState
<1>11. UNCHANGED vars => UNCHANGED <<unconfirmed, shown, count>>
  BY DEF vars, tabState
<1> QED BY <1>1, <1>2, <1>3, <1>4, <1>5, <1>6, <1>7, <1>8, <1>9, <1>10, <1>11, PageSteps
\* The clicks of a page name what it has as unconfirmed.
LEMMA ClickNames ==
    ASSUME ServerTypeOK, PagesType, NEW t \in Tabs, AcknowledgeMessages(t), NEW u \in Users
    PROVE  confirmed'[u] \subseteq confirmed[u] \cup RangeOf(unconfirmed[t])
<1>1. CASE AckNots(page[t], unconfirmed[t]) \/ AckRaises(page[t], unconfirmed[t])
  <2>1. confirmed' = [confirmed EXCEPT ![sockets[page[t]]] = @ \cup RangeOf(unconfirmed[t])]
    BY <1>1 DEF AckNots, AckRaises
  <2> QED BY <2>1 DEF ServerTypeOK
<1>2. CASE AckUnauthorized(page[t])
  BY <1>2 DEF AckUnauthorized
<1> QED BY <1>1, <1>2 DEF AcknowledgeMessages

LEMMA SeenStep ==
    ASSUME ServerTypeOK, PagesType, SeenInv, [Next]_vars
    PROVE  SeenInv'
<1>1. Seen \subseteq Seen'
  BY ClientStep, SeenGrows
<1>2. ASSUME NEW t \in Tabs PROVE RangeOf(unconfirmed'[t]) \subseteq Seen'
  <2>1. RangeOf(unconfirmed[t]) \subseteq Seen'
    BY <1>1 DEF SeenInv
  <2>2. CASE unconfirmed'[t] = unconfirmed[t]
    BY <2>1, <2>2
  <2>3. CASE unconfirmed'[t] = << >>
    BY <2>3 DEF RangeOf
  <2>4. ASSUME NEW m \in Messages, m \in Seen', unconfirmed'[t] = Append(unconfirmed[t], m)
        PROVE  RangeOf(unconfirmed'[t]) \subseteq Seen'
    <3>1. PICK q \in Seq(Messages) : q = unconfirmed[t]
      BY DEF PagesType
    <3>2. RangeOf(Append(q, m)) = RangeOf(q) \cup {m}
      BY RangeOfAppend
    <3> QED BY <2>1, <2>4, <3>1, <3>2
  <2> QED BY <2>2, <2>3, <2>4, UnconfirmedStep
<1>3. ASSUME NEW u \in Users PROVE confirmed'[u] \subseteq Seen'
  <2>1. confirmed[u] \subseteq Seen'
    BY <1>1 DEF SeenInv
  <2>2. ASSUME NEW t \in Tabs, AcknowledgeMessages(t) PROVE confirmed'[u] \subseteq Seen'
    <3>1. RangeOf(unconfirmed[t]) \subseteq Seen'
      BY <1>1 DEF SeenInv
    <3> QED BY <2>1, <2>2, <3>1, ClickNames
  <2>3. CASE confirmed' = confirmed
    BY <2>1, <2>3
  <2> QED BY <2>2, <2>3, ConfirmedKept, PageSteps
<1>4. (\A t \in Tabs : RangeOf(unconfirmed'[t]) \subseteq Seen')
        /\ (\A u \in Users : confirmed'[u] \subseteq Seen')
  BY <1>2, <1>3
<1> QED BY <1>4 DEF SeenInv, RangeOf

\* What was acknowledged had reached a page of the user: retransmissions, lost
\* acknowledgments and restarts never let the server take a message off the
\* queue that no browser received.
THEOREM ReadWasReceived == Spec => []ReadWasShown
<1>1. Init => SeenInv
  BY DEF Init, ServerInit, SeenInv, RangeOf
<1>2. ServerTypeOK /\ PagesType /\ SeenInv /\ [Next]_vars => SeenInv'
  BY SeenStep
<1>3. IInv /\ PagesType => ServerTypeOK /\ PagesType /\ AckedWasNamed
  BY DEF IInv
<1>4. AckedWasNamed /\ SeenInv => ReadWasShown
  BY DEF AckedWasNamed, SeenInv, ReadWasShown, Seen
<1> QED BY <1>1, <1>2, <1>3, <1>4, TypesInvariant, PTL DEF Spec

-----------------------------------------------------------------------------
(* What is new in a page *)

\* The unconfirmed messages of a page are different ones of its list.
NewInv ==
    \A t \in Tabs :
        /\ RangeOf(unconfirmed[t]) \subseteq shown[t]
        /\ Distinct(unconfirmed[t])
        /\ count[t] <= Len(unconfirmed[t])

LEMMA NewStep ==
    ASSUME ServerTypeOK, PagesType, NewInv, [Next]_vars
    PROVE  NewInv'
<1> SUFFICES ASSUME NEW t \in Tabs
             PROVE  /\ RangeOf(unconfirmed'[t]) \subseteq shown'[t]
                    /\ Distinct(unconfirmed'[t])
                    /\ count'[t] <= Len(unconfirmed'[t])
  BY DEF NewInv, RangeOf, Distinct
<1>1. PICK q \in Seq(Messages) : q = unconfirmed[t]
  BY DEF PagesType
<1>2. PICK n \in Nat : n = count[t]
  BY DEF PagesType
<1>3. RangeOf(q) \subseteq shown[t] /\ Distinct(q) /\ n <= Len(q) /\ Len(q) \in Nat
  BY <1>1, <1>2, LenProperties DEF NewInv
<1>4. CASE /\ unconfirmed'[t] = unconfirmed[t] /\ shown[t] \subseteq shown'[t]
           /\ count'[t] \in {count[t], 0}
  BY <1>1, <1>2, <1>3, <1>4
<1>5. CASE unconfirmed'[t] = << >> /\ count'[t] = 0
  BY <1>5 DEF RangeOf, Distinct
<1>6. ASSUME NEW m \in Messages,
             /\ m \notin shown[t] /\ m \in Seen'
             /\ unconfirmed'[t] = Append(unconfirmed[t], m)
             /\ shown'[t] = shown[t] \cup {m}
             /\ count'[t] = count[t] + 1
      PROVE  /\ RangeOf(unconfirmed'[t]) \subseteq shown'[t]
             /\ Distinct(unconfirmed'[t])
             /\ count'[t] <= Len(unconfirmed'[t])
  <2>1. RangeOf(Append(q, m)) = RangeOf(q) \cup {m}
    BY RangeOfAppend
  <2>2. Distinct(Append(q, m))
    BY <1>3, <1>6, DistinctAppend
  <2>3. Len(Append(q, m)) = Len(q) + 1
    BY AppendProperties
  <2>4. n + 1 <= Len(q) + 1
    BY <1>3
  <2> QED BY <1>1, <1>2, <1>3, <1>6, <2>1, <2>2, <2>3, <2>4
<1> QED BY <1>4, <1>5, <1>6, UnconfirmedStep

\* The badge counts messages of the list, each of them once, whatever the server
\* sends again after a page is connected anew.
THEOREM BadgeCountsNew == Spec => []CountsNew
<1>1. Init => NewInv
  BY DEF Init, NewInv, RangeOf, Distinct
<1>2. ServerTypeOK /\ PagesType /\ NewInv /\ [Next]_vars => NewInv'
  BY NewStep
<1>3. IInv /\ PagesType => ServerTypeOK /\ PagesType
  BY DEF IInv
<1>4. NewInv => CountsNew
  BY DEF NewInv, CountsNew, Distinct
<1> QED BY <1>1, <1>2, <1>3, <1>4, TypesInvariant, PTL DEF Spec

-----------------------------------------------------------------------------
(* What the badge says of the login *)

\* Sockets are logged in as their owner, and auth.js has them in both maps.
LoginsMatch ==
    \A s \in Sockets : /\ sockets[s] \in {None, Owner[s]}
                       /\ \A u \in Users : s \in users[u] <=> sockets[s] = u

\* Messages and positive answers are on their way to sockets that are logged in.
OkIsLoggedIn ==
    \A s \in Sockets : \A p \in RangeOf(wire[s]) : p.ok => sockets[s] = Owner[s]

\* No two pages have the same socket, and each has one of its user.
PagesApart ==
    \A t \in Tabs : page[t] # None =>
        /\ conn[page[t]] # "new" /\ Owner[page[t]] = User
        /\ \A r \in Tabs : page[r] = page[t] => r = t

HonestInv == LoginsMatch /\ OkIsLoggedIn /\ PagesApart /\ HonestBadge

\* Steps of the server that neither take a packet nor open a socket.
Sends ==
    \/ ContextReady \/ InitContext \/ Restart
    \/ \E forced, restarted \in BOOLEAN : ContextClosed(forced, restarted)
    \/ \E u \in Users : Deliver(u) \/ WorkerClosed(u) \/ \E m \in Messages : Publish(u, m)
    \/ \E s \in Sockets :
          \/ AuthenticateCached(s) \/ Authenticate(s) \/ Disconnect(s) \/ AckUnauthorized(s)
          \/ \E ok \in BOOLEAN : AuthAnswered(s, ok)
          \/ \E ids \in Seq(Messages) : AckNots(s, ids) \/ AckRaises(s, ids)

LEMMA RangeOfTail ==
    ASSUME NEW S, NEW q \in Seq(S), q # << >>
    PROVE  RangeOf(q) = {Head(q)} \cup RangeOf(Tail(q))
<1>1. Head(q) \in S /\ Tail(q) \in Seq(S) /\ <<Head(q)>> \in Seq(S)
  BY HeadTailProperties
<1>2. q = <<Head(q)>> \o Tail(q)
  <2>1. Len(q) \in Nat /\ 1 \in 1..Len(q) /\ Len(q) \in 1..Len(q)
    BY EmptySeq
  <2>2. SubSeq(q, 1, Len(q)) = <<q[1]>> \o SubSeq(q, 1 + 1, Len(q))
    BY <2>1, SubSeqRecursiveFirst
  <2>3. SubSeq(q, 1, Len(q)) = q
    BY SubSeqFull
  <2>4. Tail(q) = SubSeq(q, 1 + 1, Len(q))
    BY TailIsSubSeq
  <2>5. Head(q) = q[1]
    OBVIOUS
  <2> QED BY <2>2, <2>3, <2>4, <2>5
<1>3. PICK x \in Seq(S), r \in Seq(S) : x = <<Head(q)>> /\ r = Tail(q)
  BY <1>1
<1>4. RangeOf(x \o r) = RangeOf(x) \cup RangeOf(r)
  BY RangeOfConcat
<1>5. RangeOf(<<Head(q)>>) = {Head(q)}
  BY DEF RangeOf
<1> QED BY <1>2, <1>3, <1>4, <1>5

\* What is emitted is on the wire with what was there.
LEMMA EmitRange ==
    ASSUME ServerTypeOK, NEW ss, NEW p \in Packets, Emit(ss, p), NEW s \in Sockets
    PROVE  RangeOf(wire'[s]) = RangeOf(wire[s]) \cup
                                (IF s \in ss /\ conn[s] = "open" THEN {p} ELSE {})
<1>1. PICK w \in Seq(Packets) : w = wire[s]
  BY DEF ServerTypeOK
<1>2. RangeOf(Append(w, p)) = RangeOf(w) \cup {p}
  BY RangeOfAppend
<1>3. wire'[s] = IF s \in ss /\ conn[s] = "open" THEN Append(w, p) ELSE w
  BY <1>1 DEF Emit
<1> QED BY <1>1, <1>2, <1>3

\* A login puts its answer, and messages, on the wires of sockets of the user.
LEMMA LoginRange ==
    ASSUME ServerTypeOK, NEW r \in Sockets, LoggedIn(r), NEW s \in Sockets
    PROVE  /\ RangeOf(wire[s]) \subseteq RangeOf(wire'[s])
           /\ \/ RangeOf(wire'[s]) = RangeOf(wire[s])
              \/ s = r
              \/ s \in users[Owner[r]]
<1> DEFINE o == Owner[r]
           again == IF users[o] = {} /\ Subscribes(o) THEN << >> ELSE Retransmitted(o)
           answer == <<Reply("authenticate", TRUE)>>
<1>1. o \in Users
  BY NotifServerAssumption
<1>2. Retransmitted(o) \in Seq(Packets) /\ Reply("authenticate", TRUE) \in Packets
  BY <1>1, WireType
<1>3. again \in Seq(Packets) /\ answer \in Seq(Packets)
  <2>1. again \in Seq(Packets)
    BY <1>2, Empty
  <2>2. ASSUME NEW p \in Packets PROVE <<p>> \in Seq(Packets)
    OBVIOUS
  <2> QED BY <1>2, <2>1, <2>2
<1>4. wire' = [t \in Sockets |->
                      IF conn[t] # "open" THEN wire[t]
                      ELSE IF t = r THEN (wire[t] \o answer) \o again
                      ELSE IF t \in users[o] THEN wire[t] \o again
                      ELSE wire[t]]
  BY DEF LoggedIn
<1> HIDE DEF again, answer
<1>5. PICK w \in Seq(Packets) : w = wire[s]
  BY DEF ServerTypeOK
<1>6. PICK x \in Seq(Packets), y \in Seq(Packets) : x = answer /\ y = again
  BY <1>3
<1>7. w \o x \in Seq(Packets) /\ RangeOf(w \o x) = RangeOf(w) \cup RangeOf(x)
  BY RangeOfConcat, ConcatProperties
<1>8. RangeOf((w \o x) \o y) = RangeOf(w \o x) \cup RangeOf(y)
  <2>1. PICK z \in Seq(Packets) : z = w \o x
    BY <1>7
  <2>2. RangeOf(z \o y) = RangeOf(z) \cup RangeOf(y)
    BY RangeOfConcat
  <2> QED BY <2>1, <2>2
<1>9. RangeOf(w \o y) = RangeOf(w) \cup RangeOf(y)
  BY RangeOfConcat
<1>10. wire'[s] \in {w, w \o y, (w \o x) \o y}
        /\ (wire'[s] = w \/ s = r \/ s \in users[o])
  BY <1>4, <1>5, <1>6
<1> QED BY <1>5, <1>7, <1>8, <1>9, <1>10

LEMMA RestartedLogins ==
    ASSUME ServerTypeOK, Restarted, NEW s \in Sockets
    PROVE  /\ conn'[s] # "open" /\ sockets'[s] = None /\ wire'[s] = << >>
           /\ \A u \in Users : users'[u] = {}
BY DEF Restarted, ServerTypeOK

LEMMA LoginsMatchStep ==
    ASSUME ServerTypeOK, LoginsMatch, [ServerNext]_serverVars
    PROVE  LoginsMatch'
<1>1. CASE UNCHANGED <<sockets, users>>
  BY <1>1 DEF LoginsMatch
<1>2. ASSUME NEW r \in Sockets, LoggedIn(r) PROVE LoginsMatch'
  <2>1. /\ sockets' = [sockets EXCEPT ![r] = Owner[r]]
        /\ users' = [users EXCEPT ![Owner[r]] = users[Owner[r]] \cup {r}]
        /\ Owner[r] \in Users
    BY <1>2, NotifServerAssumption DEF LoggedIn
  <2>2. ASSUME NEW s \in Sockets PROVE sockets'[s] = IF s = r THEN Owner[r] ELSE sockets[s]
    BY <2>1 DEF ServerTypeOK
  <2>3. ASSUME NEW u \in Users
        PROVE users'[u] = IF u = Owner[r] THEN users[u] \cup {r} ELSE users[u]
    BY <2>1 DEF ServerTypeOK
  <2>4. ASSUME NEW u \in Users PROVE r \in users[u] => u = Owner[r]
    BY NotifServerAssumption DEF LoginsMatch
  <2>5. ASSUME NEW s \in Sockets
        PROVE  sockets'[s] \in {None, Owner[s]}
    BY <2>2 DEF LoginsMatch
  <2>6. ASSUME NEW s \in Sockets, NEW u \in Users
        PROVE  s \in users'[u] <=> sockets'[s] = u
    <3>1. CASE s = r
      BY <2>2, <2>3, <2>4, <3>1
    <3>2. CASE s # r
      <4>1. s \in users'[u] <=> s \in users[u]
        BY <2>3, <3>2
      <4>2. sockets'[s] = sockets[s]
        BY <2>2, <3>2
      <4> QED BY <4>1, <4>2 DEF LoginsMatch
    <3> QED BY <3>1, <3>2
  <2> QED BY <2>5, <2>6 DEF LoginsMatch
<1>3. ASSUME NEW r \in Sockets, Disconnect(r) PROVE LoginsMatch'
  <2>1. /\ sockets' = [sockets EXCEPT ![r] = None]
        /\ users' = [v \in Users |-> users[v] \ IF v = sockets[r] THEN {r} ELSE {}]
    BY <1>3 DEF Disconnect
  <2>2. ASSUME NEW s \in Sockets PROVE sockets'[s] = IF s = r THEN None ELSE sockets[s]
    BY <2>1 DEF ServerTypeOK
  <2>3. ASSUME NEW u \in Users PROVE users'[u] = IF u = sockets[r] THEN users[u] \ {r} ELSE users[u]
    BY <2>1
  <2>4. ASSUME NEW s \in Sockets
        PROVE  sockets'[s] \in {None, Owner[s]}
    BY <2>2 DEF LoginsMatch
  <2>5. ASSUME NEW s \in Sockets, NEW u \in Users
        PROVE  s \in users'[u] <=> sockets'[s] = u
    <3>1. u # None
      BY NotifServerAssumption
    <3>2. CASE s = r
      <4>1. s \in users[u] <=> sockets[s] = u
        BY DEF LoginsMatch
      <4> QED BY <2>2, <2>3, <3>1, <3>2, <4>1
    <3>3. CASE s # r
      <4>1. s \in users'[u] <=> s \in users[u]
        BY <2>3, <3>3
      <4>2. sockets'[s] = sockets[s]
        BY <2>2, <3>3
      <4> QED BY <4>1, <4>2 DEF LoginsMatch
    <3> QED BY <3>2, <3>3
  <2> QED BY <2>4, <2>5 DEF LoginsMatch
<1>4. CASE Restarted
  BY <1>4, RestartedLogins, NotifServerAssumption DEF LoginsMatch
<1>5. ContextReady \/ InitContext \/ (\E forced, restarted \in BOOLEAN : ContextClosed(forced, restarted))
        => UNCHANGED <<sockets, users>>
  BY DEF ContextReady, InitContext, ContextClosed, logins
<1>6. \A u \in Users : Deliver(u) \/ WorkerClosed(u) \/ (\E m \in Messages : Publish(u, m))
        => UNCHANGED <<sockets, users>>
  BY DEF Deliver, WorkerClosed, Publish, logins
<1>7. \A s \in Sockets : Connect(s) \/ Authenticate(s) \/ AckUnauthorized(s) \/ Receive(s)
        => UNCHANGED <<sockets, users>>
  BY DEF Connect, Authenticate, AckUnauthorized, Receive, logins
<1>8. \A s \in Sockets, ids \in Seq(Messages) : AckNots(s, ids) => UNCHANGED <<sockets, users>>
  BY DEF AckNots, logins
<1>9. \A s \in Sockets, ids \in Seq(Messages) : AckRaises(s, ids) => Restarted
  BY DEF AckRaises
<1>10. Restart => Restarted
  BY DEF Restart
<1>11. \A s \in Sockets : AuthenticateCached(s) => LoggedIn(s)
  BY DEF AuthenticateCached
<1>12. \A s \in Sockets, ok \in BOOLEAN : AuthAnswered(s, ok) => LoggedIn(s) \/ UNCHANGED <<sockets, users>>
  BY DEF AuthAnswered
<1>13. UNCHANGED serverVars => UNCHANGED <<sockets, users>>
  BY DEF serverVars, logins
<1> QED BY <1>1, <1>2, <1>3, <1>4, <1>5, <1>6, <1>7, <1>8, <1>9, <1>10, <1>11, <1>12, <1>13, Steps

\* What a step of Sends does to a socket: one that is still open keeps its login
\* and its packets, a positive packet goes to one that is logged in, and one that
\* is asked for is logged in or told that it is not.
Answers(s) ==
    /\ conn'[s] = "open" => /\ conn[s] = "open"
                            /\ sockets[s] = Owner[s] => sockets'[s] = Owner[s]
                            /\ RangeOf(wire[s]) \subseteq RangeOf(wire'[s])
    /\ \A p \in RangeOf(wire'[s]) : p.ok => sockets'[s] = Owner[s]
    /\ conn'[s] = "open" /\ s \in asking =>
          \/ s \in asking' \/ sockets'[s] = Owner[s]
          \/ \E p \in RangeOf(wire'[s]) : p.type = "authenticate"

LEMMA SendsStep ==
    ASSUME ServerTypeOK, LoginsMatch, OkIsLoggedIn, Sends, NEW s \in Sockets
    PROVE  Answers(s)
<1>1. ASSUME UNCHANGED <<conn, sockets, wire>>, asking \subseteq asking' PROVE Answers(s)
  BY <1>1 DEF Answers, OkIsLoggedIn
<1>2. ASSUME UNCHANGED <<conn, sockets>>, asking \subseteq asking' \cup {s}, NEW p \in Packets, NEW ss,
             Emit(ss, p), s \in ss => (p.ok => sockets[s] = Owner[s]),
             s \in asking' \/ s \notin asking \/ (s \in ss /\ p.type = "authenticate")
      PROVE  Answers(s)
  <2>1. RangeOf(wire'[s]) = RangeOf(wire[s]) \cup (IF s \in ss /\ conn[s] = "open" THEN {p} ELSE {})
    BY <1>2, EmitRange
  <2> QED BY <1>2, <2>1 DEF Answers, OkIsLoggedIn
<1>3. ASSUME NEW r \in Sockets, LoggedIn(r), UNCHANGED conn, asking \subseteq asking' \cup {r}
      PROVE  Answers(s)
  <2>1. sockets' = [sockets EXCEPT ![r] = Owner[r]] /\ Owner[r] \in Users
    BY <1>3, NotifServerAssumption DEF LoggedIn
  <2>2. sockets'[s] = IF s = r THEN Owner[r] ELSE sockets[s]
    BY <2>1 DEF ServerTypeOK
  <2>3. s \in users[Owner[r]] => sockets[s] = Owner[s]
    BY <2>1, NotifServerAssumption DEF LoginsMatch
  <2>4. /\ RangeOf(wire[s]) \subseteq RangeOf(wire'[s])
        /\ RangeOf(wire'[s]) = RangeOf(wire[s]) \/ s = r \/ s \in users[Owner[r]]
    BY <1>3, LoginRange
  <2> QED BY <1>3, <2>2, <2>3, <2>4 DEF Answers, OkIsLoggedIn
<1>4. CASE Restarted
  <2>1. conn'[s] # "open" /\ RangeOf(wire'[s]) = {}
    BY <1>4, RestartedLogins DEF RangeOf
  <2> QED BY <2>1 DEF Answers
<1>5. ASSUME NEW r \in Sockets, Disconnect(r) PROVE Answers(s)
  <2>1. /\ conn' = [conn EXCEPT ![r] = "closed"] /\ wire' = [wire EXCEPT ![r] = << >>]
        /\ sockets' = [sockets EXCEPT ![r] = None] /\ asking' = asking
    BY <1>5 DEF Disconnect
  <2>2. CASE s = r
    <3>1. conn'[s] = "closed" /\ wire'[s] = << >>
      BY <2>1, <2>2 DEF ServerTypeOK
    <3>2. conn'[s] # "open" /\ RangeOf(wire'[s]) = {}
      BY <3>1 DEF RangeOf
    <3> QED BY <3>2 DEF Answers
  <2>3. CASE s # r
    <3>1. conn'[s] = conn[s] /\ wire'[s] = wire[s] /\ sockets'[s] = sockets[s]
      BY <2>1, <2>3 DEF ServerTypeOK
    <3> QED BY <2>1, <3>1 DEF Answers, OkIsLoggedIn
  <2> QED BY <2>2, <2>3
<1>6. ContextReady \/ InitContext \/ (\E forced, restarted \in BOOLEAN : ContextClosed(forced, restarted))
        => Answers(s)
  BY <1>1 DEF ContextReady, InitContext, ContextClosed, logins
<1>7. \A u \in Users : WorkerClosed(u) \/ (\E m \in Messages : Publish(u, m)) => Answers(s)
  BY <1>1 DEF WorkerClosed, Publish, logins
<1>8. \A r \in Sockets : Authenticate(r) => Answers(s)
  BY <1>1 DEF Authenticate
<1>9. ASSUME NEW u \in Users, Deliver(u) PROVE Answers(s)
  <2>1. PICK m \in Messages : Emit(users[u], Message(m))
    <3>1. queue[u] \in Seq(Messages) /\ queue[u] # << >>
      BY <1>9 DEF Deliver, ServerTypeOK
    <3>2. Head(queue[u]) \in Messages
      BY <3>1, HeadTailProperties
    <3> QED BY <1>9, <3>2 DEF Deliver
  <2>2. Message(m) \in Packets
    BY DEF Message, Packets
  <2>3. s \in users[u] => sockets[s] = Owner[s]
    BY NotifServerAssumption DEF LoginsMatch
  <2>4. UNCHANGED <<conn, sockets, asking>>
    BY <1>9 DEF Deliver, logins
  <2> QED BY <1>2, <2>1, <2>2, <2>3, <2>4
<1>10. ASSUME NEW r \in Sockets, AckUnauthorized(r) PROVE Answers(s)
  <2>1. /\ Emit({r}, Reply("ack_nots", FALSE)) /\ UNCHANGED <<conn, sockets, asking>>
        /\ Reply("ack_nots", FALSE) \in Packets /\ ~Reply("ack_nots", FALSE).ok
    BY <1>10 DEF AckUnauthorized, logins, Reply, Packets
  <2> QED BY <1>2, <2>1
<1>11. ASSUME NEW r \in Sockets, NEW ids \in Seq(Messages), AckNots(r, ids) PROVE Answers(s)
  <2>1. /\ Emit({r}, Reply("ack_nots", TRUE)) /\ UNCHANGED <<conn, sockets, asking>>
        /\ Reply("ack_nots", TRUE) \in Packets /\ sockets[r] # None
    BY <1>11 DEF AckNots, logins, Reply, Packets
  <2>2. sockets[r] = Owner[r]
    BY <2>1 DEF LoginsMatch
  <2> QED BY <1>2, <2>1, <2>2
<1>12. ASSUME NEW r \in Sockets, NEW ok \in BOOLEAN, AuthAnswered(r, ok) PROVE Answers(s)
  <2>1. UNCHANGED conn /\ asking' = asking \ {r}
    BY <1>12 DEF AuthAnswered
  <2>2. CASE LoggedIn(r)
    BY <1>3, <2>1, <2>2
  <2>3. CASE Emit({r}, Reply("authenticate", FALSE)) /\ UNCHANGED sockets
    <3>1. /\ Reply("authenticate", FALSE) \in Packets /\ ~Reply("authenticate", FALSE).ok
          /\ Reply("authenticate", FALSE).type = "authenticate"
      BY DEF Reply, Packets
    <3>2. s \in {r} \/ s \in asking' \/ s \notin asking
      BY <2>1
    <3>3. CASE s = r
      BY <1>2, <2>1, <2>3, <3>1, <3>3
    <3>4. CASE s # r
      <4>1. PICK p \in Packets : p = Reply("authenticate", FALSE)
        BY <3>1
      <4>2. RangeOf(wire'[s]) = RangeOf(wire[s]) \cup
                                 (IF s \in {r} /\ conn[s] = "open" THEN {p} ELSE {})
        BY <2>3, <4>1, EmitRange
      <4>3. s \notin {r}
        BY <3>4
      <4>4. RangeOf(wire'[s]) = RangeOf(wire[s])
        BY <4>2, <4>3
      <4> QED BY <2>1, <2>3, <3>4, <4>4 DEF Answers, OkIsLoggedIn
    <3> QED BY <3>3, <3>4
  <2> QED BY <1>12, <2>2, <2>3 DEF AuthAnswered
<1>13. \A r \in Sockets : AuthenticateCached(r) => Answers(s)
  BY <1>3 DEF AuthenticateCached
<1>14. Restart => Restarted
  BY DEF Restart
<1>15. \A r \in Sockets, ids \in Seq(Messages) : AckRaises(r, ids) => Restarted
  BY DEF AckRaises
<1> QED BY <1>4, <1>5, <1>6, <1>7, <1>8, <1>9, <1>10, <1>11, <1>12, <1>13, <1>14, <1>15 DEF Sends

LEMMA ReceiveStep ==
    ASSUME ServerTypeOK, NEW r \in Sockets, Receive(r), NEW s \in Sockets
    PROVE  /\ UNCHANGED <<conn, sockets, users, asking>>
           /\ s # r => wire'[s] = wire[s]
           /\ RangeOf(wire[r]) = {Head(wire[r])} \cup RangeOf(wire'[r])
<1>1. PICK q \in Seq(Packets) : q = wire[r]
  BY DEF ServerTypeOK
<1>2. q # << >> /\ wire' = [wire EXCEPT ![r] = Tail(wire[r])]
  BY <1>1 DEF Receive
<1>3. wire'[r] = Tail(q) /\ (s # r => wire'[s] = wire[s])
  BY <1>1, <1>2 DEF ServerTypeOK
<1>4. RangeOf(q) = {Head(q)} \cup RangeOf(Tail(q))
  BY <1>2, RangeOfTail
<1>5. UNCHANGED <<conn, sockets, users, asking>>
  BY DEF Receive, logins
<1> QED BY <1>1, <1>3, <1>4, <1>5

\* A step sends, or connects or receives, or changes nothing.
LEMMA SendsOrNot ==
    ASSUME [ServerNext]_serverVars
    PROVE  \/ Sends \/ UNCHANGED serverVars
           \/ \E s \in Sockets : Connect(s)
           \/ \E s \in Sockets : Receive(s)
BY Steps DEF Sends

LEMMA OkStep ==
    ASSUME ServerTypeOK, LoginsMatch, OkIsLoggedIn, [ServerNext]_serverVars
    PROVE  OkIsLoggedIn'
<1> SUFFICES ASSUME NEW s \in Sockets, NEW p \in RangeOf(wire'[s]), p.ok
             PROVE  sockets'[s] = Owner[s]
  BY DEF OkIsLoggedIn, RangeOf
<1>1. CASE Sends
  BY <1>1, SendsStep DEF Answers
<1>2. CASE UNCHANGED <<wire, sockets>>
  BY <1>2 DEF OkIsLoggedIn
<1>3. ASSUME NEW r \in Sockets, Receive(r) PROVE sockets'[s] = Owner[s]
  <2>1. sockets' = sockets /\ p \in RangeOf(wire[s])
    BY <1>3, ReceiveStep
  <2> QED BY <2>1 DEF OkIsLoggedIn
<1>4. \A r \in Sockets : Connect(r) => UNCHANGED <<wire, sockets>>
  BY DEF Connect
<1>5. UNCHANGED serverVars => UNCHANGED <<wire, sockets>>
  BY DEF serverVars, logins
<1> QED BY <1>1, <1>2, <1>3, <1>4, <1>5, SendsOrNot

\* A socket that was opened is not new again.
LEMMA ConnStep ==
    ASSUME ServerTypeOK, [ServerNext]_serverVars, NEW s \in Sockets, conn[s] # "new"
    PROVE  conn'[s] # "new"
<1>1. CASE UNCHANGED conn
  BY <1>1
<1>2. ASSUME NEW r \in Sockets, Connect(r) \/ Disconnect(r) PROVE conn'[s] # "new"
  <2>1. conn' = [conn EXCEPT ![r] = "open"] \/ conn' = [conn EXCEPT ![r] = "closed"]
    BY <1>2 DEF Connect, Disconnect
  <2> QED BY <2>1 DEF ServerTypeOK
<1>3. CASE Restarted
  BY <1>3 DEF Restarted
<1>4. ContextReady \/ InitContext \/ (\E forced, restarted \in BOOLEAN : ContextClosed(forced, restarted))
        => UNCHANGED conn
  BY DEF ContextReady, InitContext, ContextClosed, logins
<1>5. \A u \in Users : Deliver(u) \/ WorkerClosed(u) \/ (\E m \in Messages : Publish(u, m))
        => UNCHANGED conn
  BY DEF Deliver, WorkerClosed, Publish, logins
<1>6. \A r \in Sockets : AuthenticateCached(r) \/ Authenticate(r) \/ AckUnauthorized(r) \/ Receive(r)
        => UNCHANGED conn
  BY DEF AuthenticateCached, Authenticate, AckUnauthorized, Receive, logins
<1>7. \A r \in Sockets, ok \in BOOLEAN : AuthAnswered(r, ok) => UNCHANGED conn
  BY DEF AuthAnswered
<1>8. \A r \in Sockets, ids \in Seq(Messages) : AckNots(r, ids) => UNCHANGED conn
  BY DEF AckNots, logins
<1>9. \A r \in Sockets, ids \in Seq(Messages) : AckRaises(r, ids) => Restarted
  BY DEF AckRaises
<1>10. Restart => Restarted
  BY DEF Restart
<1>11. UNCHANGED serverVars => UNCHANGED conn
  BY DEF serverVars, logins
<1> QED BY <1>1, <1>2, <1>3, <1>4, <1>5, <1>6, <1>7, <1>8, <1>9, <1>10, <1>11, Steps

\* Where a page may be after a step: where it was, nowhere, or at a new socket.
LEMMA PageMoves ==
    ASSUME ServerTypeOK, PagesType, [Next]_vars
    PROVE  \/ page' = page
           \/ \E t \in Tabs : page' = [page EXCEPT ![t] = None]
           \/ \E t \in Tabs, s \in Sockets :
                 /\ TabConnects(t) /\ Owner[s] = User /\ Connect(s)
                 /\ page' = [page EXCEPT ![t] = s]
                 /\ greeting' = greeting \cup {s}
                 /\ error' = error
<1>1. ASSUME NEW t \in Tabs, TabConnects(t)
      PROVE  \E s \in Sockets : /\ TabConnects(t) /\ Owner[s] = User /\ Connect(s)
                                /\ page' = [page EXCEPT ![t] = s]
                                /\ greeting' = greeting \cup {s}
                                /\ error' = error
  <2>1. PICK i \in DOMAIN lines[t] : /\ Connect(lines[t][i])
                                     /\ page' = [page EXCEPT ![t] = lines[t][i]]
                                     /\ greeting' = greeting \cup {lines[t][i]}
    BY <1>1 DEF TabConnects
  <2>2. error' = error
    BY <1>1 DEF TabConnects, tabState
  <2> QED BY <1>1, <2>1, <2>2, LinesType
<1>2. \A t \in Tabs : TabLoses(t) \/ Reload(t) => page' = [page EXCEPT ![t] = None]
  BY DEF TabLoses, Reload
<1>3. \A t \in Tabs : OnAuthenticate(t) \/ OnMessageReceived(t) \/ OnAcknowledgeCompleted(t)
                          \/ AcknowledgeMessages(t) => page' = page
  BY DEF OnAuthenticate, OnMessageReceived, OnAcknowledgeCompleted, AcknowledgeMessages
<1>4. ServerStep \/ (\E s \in Sockets : Greeted(s)) \/ UNCHANGED vars => page' = page
  BY DEF ServerStep, Greeted, vars
<1> QED BY <1>1, <1>2, <1>3, <1>4, PageSteps

LEMMA PagesApartStep ==
    ASSUME ServerTypeOK, PagesType, PagesApart, [Next]_vars
    PROVE  PagesApart'
<1> SUFFICES ASSUME NEW t \in Tabs, page'[t] # None
             PROVE  /\ conn'[page'[t]] # "new" /\ Owner[page'[t]] = User
                    /\ \A r \in Tabs : page'[r] = page'[t] => r = t
  BY DEF PagesApart
<1>1. ASSUME NEW s \in Sockets, conn[s] # "new" PROVE conn'[s] # "new"
  BY <1>1, ClientStep, ConnStep
<1>2. CASE page' = page
  BY <1>1, <1>2 DEF PagesApart, PagesType
<1>3. ASSUME NEW r \in Tabs, page' = [page EXCEPT ![r] = None]
      PROVE  /\ conn'[page'[t]] # "new" /\ Owner[page'[t]] = User
             /\ \A q \in Tabs : page'[q] = page'[t] => q = t
  <2>1. ASSUME NEW q \in Tabs PROVE page'[q] = IF q = r THEN None ELSE page[q]
    BY <1>3 DEF PagesType
  <2>2. page'[t] = page[t] /\ page[t] # None /\ page[t] \in Sockets
    BY <2>1 DEF PagesType
  <2>3. conn[page[t]] # "new" /\ Owner[page[t]] = User
    BY <2>2 DEF PagesApart
  <2>4. ASSUME NEW q \in Tabs, page'[q] = page'[t] PROVE q = t
    <3>1. page[q] = page[t]
      BY <2>1, <2>2, <2>4
    <3> QED BY <2>2, <3>1 DEF PagesApart
  <2> QED BY <1>1, <2>2, <2>3, <2>4
<1>4. ASSUME NEW r \in Tabs, NEW s \in Sockets,
             Owner[s] = User, Connect(s), page' = [page EXCEPT ![r] = s]
      PROVE  /\ conn'[page'[t]] # "new" /\ Owner[page'[t]] = User
             /\ \A q \in Tabs : page'[q] = page'[t] => q = t
  <2>1. ASSUME NEW q \in Tabs PROVE page'[q] = IF q = r THEN s ELSE page[q]
    BY <1>4 DEF PagesType
  <2>2. conn[s] = "new" /\ conn'[s] = "open" /\ s # None
    BY <1>4, NotifServerAssumption DEF Connect, ServerTypeOK
  <2>3. \A q \in Tabs : page[q] # s
    BY <2>2 DEF PagesApart
  <2> QED BY <1>1, <1>4, <2>1, <2>2, <2>3 DEF PagesApart, PagesType
<1> QED BY <1>2, <1>3, <1>4, PageMoves

\* A page that is at a socket and shows a number is logged in, or will hear.
Says(s) == sockets[s] = Owner[s] \/ Pending(s)

\* What a step of Sends leaves of it.
LEMMA SaysKept ==
    ASSUME NEW s \in Sockets, Says(s), Answers(s), conn'[s] = "open", s \in greeting => s \in greeting'
    PROVE  Says(s)'
BY DEF Says, Answers, Pending

LEMMA GreetedStep ==
    ASSUME ServerTypeOK, LoginsMatch, OkIsLoggedIn, NEW r \in Sockets, Greeted(r),
           NEW s \in Sockets, Says(s), conn'[s] = "open"
    PROVE  Says(s)'
<1>1. CASE conn[r] # "open"
  <2>1. UNCHANGED <<conn, sockets, wire, asking>> /\ greeting' = greeting \ {r}
    BY <1>1 DEF Greeted, serverVars, logins
  <2>2. s # r
    BY <1>1, <2>1
  <2> QED BY <2>1, <2>2 DEF Says, Pending
<1>2. ASSUME Authenticate(r) PROVE Says(s)'
  <2>1. UNCHANGED <<sockets, wire>> /\ asking' = asking \cup {r} /\ greeting' = greeting \ {r}
    BY <1>2 DEF Greeted, Authenticate
  <2> QED BY <2>1 DEF Says, Pending
<1>3. ASSUME AuthenticateCached(r) PROVE Says(s)'
  <2>1. Answers(s) /\ greeting' = greeting \ {r}
    BY <1>3, SendsStep DEF Sends, Greeted
  <2>2. CASE s = r
    <3>1. sockets' = [sockets EXCEPT ![r] = Owner[r]]
      BY <1>3 DEF AuthenticateCached, LoggedIn
    <3>2. sockets'[s] = Owner[s]
      BY <2>2, <3>1 DEF ServerTypeOK
    <3> QED BY <3>2 DEF Says
  <2>3. CASE s # r
    BY <2>1, <2>3, SaysKept
  <2> QED BY <2>2, <2>3
<1> QED BY <1>1, <1>2, <1>3 DEF Greeted

\* What the page of s shows after it received a packet.
LEMMA HeardStep ==
    ASSUME ServerTypeOK, PagesType, OkIsLoggedIn, NEW t \in Tabs, NEW s \in Sockets, page[t] = s,
           NEW type, Receives(t, type), ~error[t] => Says(s),
           \/ Head(wire[s]).ok
           \/ (error' = error /\ type # "authenticate")
           \/ (error' = [error EXCEPT ![t] = TRUE]),
           ~error'[t], greeting' = greeting
    PROVE  Says(s)'
<1>1. Receive(s) /\ Head(wire[s]).type = type
  BY DEF Receives
<1>2. /\ UNCHANGED <<conn, sockets, users, asking>>
      /\ RangeOf(wire[s]) = {Head(wire[s])} \cup RangeOf(wire'[s])
  BY <1>1, ReceiveStep
<1>3. CASE Head(wire[s]).ok
  BY <1>2, <1>3 DEF OkIsLoggedIn, Says
<1>4. CASE error' = error /\ type # "authenticate"
  BY <1>1, <1>2, <1>4 DEF Says, Pending
<1>5. CASE error' = [error EXCEPT ![t] = TRUE]
  BY <1>5 DEF PagesType
<1> QED BY <1>3, <1>4, <1>5

LEMMA HonestStep ==
    ASSUME ServerTypeOK, PagesType, HonestInv, [Next]_vars
    PROVE  HonestInv'
<1>1. LoginsMatch' /\ OkIsLoggedIn' /\ PagesApart'
  BY ClientStep, LoginsMatchStep, OkStep, PagesApartStep DEF HonestInv
<1>2. LoginsMatch /\ OkIsLoggedIn /\ PagesApart
  BY DEF HonestInv
<1>3. page' \in [Tabs -> Sockets \cup {None}]
  BY PagesTypeStep DEF PagesType
<1> SUFFICES ASSUME NEW t \in Tabs, NEW s \in Sockets, page'[t] = s, conn'[s] = "open", ~error'[t]
             PROVE  Says(s)'
  <2>1. SUFFICES ASSUME NEW t \in Tabs, NEW s \in Sockets, page'[t] = s, conn'[s] = "open", ~error'[t]
                 PROVE  s \in users'[User] \/ Pending(s)'
    BY <1>1, <1>3 DEF HonestInv, HonestBadge, Pending
  <2>2. sockets'[s] = Owner[s] => s \in users'[User]
    BY <1>1, <2>1, NotifServerAssumption, NotificationsAssumption DEF LoginsMatch, PagesApart
  <2>3. Says(s)'
    BY <2>1
  <2> QED BY <2>2, <2>3 DEF Says
<1>5. ASSUME page[t] = s, conn[s] = "open", ~error[t] PROVE Says(s)
  <2>1. Owner[s] = User
    BY <1>2, <1>5, NotifServerAssumption DEF PagesApart
  <2>2. s \in users[User] \/ Pending(s)
    BY <1>5, NotifServerAssumption DEF HonestInv, HonestBadge
  <2> QED BY <1>2, <2>1, <2>2, NotificationsAssumption DEF LoginsMatch, Says
<1>6. ASSUME Sends, page' = page, error' = error, greeting' = greeting PROVE Says(s)'
  <2>1. Answers(s)
    BY <1>2, <1>6, SendsStep
  <2>2. conn[s] = "open" /\ Says(s)
    BY <1>3, <1>5, <1>6, <2>1 DEF Answers
  <2> QED BY <1>3, <1>6, <2>1, <2>2, SaysKept
<1>7. CASE ServerStep
  <2>1. Sends /\ UNCHANGED <<page, error, greeting>>
    BY <1>7 DEF ServerStep, Sends, tabState
  <2> QED BY <1>6, <2>1
<1>8. ASSUME NEW r \in Tabs, AcknowledgeMessages(r) PROVE Says(s)'
  <2>1. page[r] \in Sockets /\ unconfirmed[r] \in Seq(Messages)
    BY <1>8 DEF AcknowledgeMessages, PagesType
  <2>2. \/ AckNots(page[r], unconfirmed[r])
        \/ AckRaises(page[r], unconfirmed[r])
        \/ AckUnauthorized(page[r])
    BY <1>8 DEF AcknowledgeMessages
  <2>3. UNCHANGED <<page, error, greeting>>
    BY <1>8 DEF AcknowledgeMessages, tabState
  <2>4. Sends
    BY <2>1, <2>2 DEF Sends
  <2> QED BY <1>6, <2>3, <2>4
<1>9. ASSUME NEW r \in Sockets, Greeted(r) PROVE Says(s)'
  <2>1. UNCHANGED <<page, error>>
    BY <1>9 DEF Greeted, tabState
  <2>2. conn' = conn
    BY <1>9 DEF Greeted, Authenticate, AuthenticateCached, serverVars, logins
  <2>3. Says(s)
    BY <1>3, <1>5, <2>1, <2>2
  <2> QED BY <1>2, <1>3, <1>9, <2>3, GreetedStep
<1>10. ASSUME NEW r \in Tabs, TabLoses(r) \/ Reload(r) PROVE Says(s)'
  <2>1. /\ UNCHANGED <<conn, sockets, wire, asking, greeting>>
        /\ page' = [page EXCEPT ![r] = None]
        /\ error' = [error EXCEPT ![r] = TRUE] \/ error' = [error EXCEPT ![r] = FALSE]
    BY <1>10 DEF TabLoses, Reload, serverVars, logins
  <2>2. t # r
    BY <1>3, <2>1, NotifServerAssumption DEF PagesType
  <2>3. page[t] = s /\ error[t] = error'[t]
    BY <1>3, <2>1, <2>2 DEF PagesType
  <2> QED BY <1>3, <1>5, <2>1, <2>3 DEF Says, Pending
<1>11. ASSUME NEW r \in Tabs, NEW x \in Sockets,
              Connect(x), page' = [page EXCEPT ![r] = x], greeting' = greeting \cup {x}, error' = error
       PROVE Says(s)'
  <2>1. CASE t = r
    <3>1. s = x
      BY <1>3, <1>11, <2>1 DEF PagesType
    <3> QED BY <1>11, <3>1 DEF Says, Pending
  <2>2. CASE t # r
    <3>1. page[t] = s
      BY <1>3, <1>11, <2>2 DEF PagesType
    <3>2. conn[s] # "new" /\ conn[x] = "new" /\ conn' = [conn EXCEPT ![x] = "open"]
      BY <1>2, <1>11, <3>1, NotifServerAssumption DEF PagesApart, Connect
    <3>3. conn'[s] = conn[s]
      BY <3>2 DEF ServerTypeOK
    <3>4. Says(s) /\ UNCHANGED <<sockets, wire, asking>>
      BY <1>3, <1>5, <1>11, <3>1, <3>3 DEF Connect
    <3> QED BY <1>11, <3>4 DEF Says, Pending
  <2> QED BY <2>1, <2>2
<1>12. ASSUME NEW r \in Tabs, NEW type, Receives(r, type), page' = page, greeting' = greeting,
              \/ Head(wire[page[r]]).ok /\ error' \in {error, [error EXCEPT ![r] = FALSE]}
              \/ error' = error /\ type # "authenticate"
              \/ error' = [error EXCEPT ![r] = TRUE]
       PROVE Says(s)'
  <2>1. page[t] = s /\ page[r] \in Sockets /\ Receive(page[r])
    BY <1>3, <1>12, ReceivedType DEF Receives
  <2>2. UNCHANGED <<conn, sockets, asking>> /\ (s # page[r] => wire'[s] = wire[s])
    BY <2>1, ReceiveStep
  <2>3. ~error[t] => Says(s)
    BY <1>3, <1>5, <2>1, <2>2
  <2>4. CASE t = r
    <3>1. page[t] = s /\ Receives(t, type)
      BY <1>12, <2>1, <2>4
    <3>2. \/ Head(wire[s]).ok
          \/ (error' = error /\ type # "authenticate")
          \/ (error' = [error EXCEPT ![t] = TRUE])
      BY <1>12, <2>1, <2>4
    <3> QED BY <1>2, <1>12, <2>3, <3>1, <3>2, HeardStep
  <2>5. CASE t # r
    <3>1. s # page[r]
      BY <1>2, <2>1, <2>5, NotifServerAssumption DEF PagesApart
    <3>2. error'[t] = error[t]
      BY <1>12, <2>5 DEF PagesType
    <3> QED BY <1>12, <2>2, <2>3, <3>1, <3>2 DEF Says, Pending
  <2> QED BY <2>4, <2>5
<1>13. ASSUME NEW r \in Tabs, OnAuthenticate(r) PROVE Says(s)'
  <2>1. Receives(r, "authenticate") /\ page' = page /\ greeting' = greeting
    BY <1>13 DEF OnAuthenticate
  <2>2. \/ Head(wire[page[r]]).ok /\ error' = [error EXCEPT ![r] = FALSE]
        \/ error' = [error EXCEPT ![r] = TRUE]
    BY <1>13 DEF OnAuthenticate, ShowCount
  <2> QED BY <1>12, <2>1, <2>2
<1>14. ASSUME NEW r \in Tabs, OnMessageReceived(r) PROVE Says(s)'
  <2>1. Receives(r, "message") /\ page' = page /\ greeting' = greeting
    BY <1>14 DEF OnMessageReceived
  <2>2. Head(wire[page[r]]).ok
    <3>1. Head(wire[page[r]]) \in Packets /\ Head(wire[page[r]]).type = "message"
      BY <2>1, ReceivedType DEF Receives
    <3> QED BY <3>1 DEF Packets
  <2>3. error' \in {error, [error EXCEPT ![r] = FALSE]}
    BY <1>14 DEF OnMessageReceived, ShowCount
  <2> QED BY <1>12, <2>1, <2>2, <2>3
<1>15. ASSUME NEW r \in Tabs, OnAcknowledgeCompleted(r) PROVE Says(s)'
  <2>1. Receives(r, "ack_nots") /\ page' = page /\ greeting' = greeting
    BY <1>15 DEF OnAcknowledgeCompleted
  <2>2. \/ Head(wire[page[r]]).ok /\ error' = [error EXCEPT ![r] = FALSE]
        \/ error' = error
    BY <1>15 DEF OnAcknowledgeCompleted, ShowCount
  <2> QED BY <1>12, <2>1, <2>2
<1>16. CASE UNCHANGED vars
  <2>1. UNCHANGED <<conn, sockets, wire, asking, greeting, page, error>>
    BY <1>16 DEF vars, serverVars, logins, tabState
  <2> QED BY <1>3, <1>5, <2>1 DEF Says, Pending
<1>17. ASSUME NEW r \in Tabs, TabConnects(r) PROVE Says(s)'
  <2>1. PICK i \in DOMAIN lines[r] : /\ Connect(lines[r][i])
                                     /\ page' = [page EXCEPT ![r] = lines[r][i]]
                                     /\ greeting' = greeting \cup {lines[r][i]}
    BY <1>17 DEF TabConnects
  <2>2. error' = error /\ lines[r][i] \in Sockets
    BY <1>17, LinesType DEF TabConnects, tabState
  <2> QED BY <1>11, <2>1, <2>2
<1> QED BY <1>7, <1>8, <1>9, <1>10, <1>13, <1>14, <1>15, <1>16, <1>17, PageSteps

\* A page whose badge shows a number is logged in or about to hear whether it is,
\* whatever it clicks and receives and however often it connects: a refused
\* session shows until the page connects anew.
THEOREM BadgeIsHonest == Spec => []HonestBadge
<1>1. Init => HonestInv
  <2> SUFFICES ASSUME Init PROVE HonestInv
    OBVIOUS
  <2>1. /\ sockets = [s \in Sockets |-> None] /\ users = [u \in Users |-> {}]
        /\ wire = [s \in Sockets |-> << >>] /\ page = [t \in Tabs |-> None]
    BY DEF Init, ServerInit
  <2>2. LoginsMatch /\ PagesApart /\ HonestBadge
    BY <2>1, NotifServerAssumption DEF LoginsMatch, PagesApart, HonestBadge
  <2>3. OkIsLoggedIn
    BY <2>1 DEF OkIsLoggedIn, RangeOf
  <2> QED BY <2>2, <2>3 DEF HonestInv
<1>2. ServerTypeOK /\ PagesType /\ HonestInv /\ [Next]_vars => HonestInv'
  BY HonestStep
<1>3. IInv /\ PagesType => ServerTypeOK /\ PagesType
  BY DEF IInv
<1>4. HonestInv => HonestBadge
  BY DEF HonestInv
<1> QED BY <1>1, <1>2, <1>3, <1>4, TypesInvariant, PTL DEF Spec
=============================================================================
