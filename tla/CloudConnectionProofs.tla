----------------------- MODULE CloudConnectionProofs -----------------------
(***************************************************************************)
(* Proofs about the cloud connection, for any number of sockets, failures  *)
(* and states in which the Wi-Fi may be lost: the publishing timer runs    *)
(* exactly in the state SENDING; every variable has its type; and, unless  *)
(* a lease is renewed, the firmware publishes in an accepted session, over *)
(* its only socket and with a connected client, until something fails.     *)
(***************************************************************************)
EXTENDS CloudConnection, SequenceFacts, FiniteSetTheorems, TLAPS

(* Each timer is in one place at most: among those that wait, or once in   *)
(* the queue of expired ones.                                              *)
LinkedOnce(ts) ==
  /\ ts \in [waiting : SUBSET Timers, ready : Seq(Timers)]
  /\ \A i, j \in DOMAIN ts.ready : ts.ready[i] = ts.ready[j] => i = j
  /\ \A i \in DOMAIN ts.ready : ts.ready[i] \notin ts.waiting

Running(ts, t) == t \in ts.waiting \/ \E i \in DOMAIN ts.ready : ts.ready[i] = t

TaskInv ==
  /\ LinkedOnce(tasks)
  /\ state = "SENDING" <=> Running(tasks, "send_task")

LEMMA RunningIsLinked ==
  ASSUME NEW ts, NEW t
  PROVE  Running(ts, t) <=> t \in ts.waiting \cup ToSet(ts.ready)
  BY DEF Running, ToSet

-----------------------------------------------------------------------------
(* The lists of timers                                                     *)

LEMMA Unlinking ==
  ASSUME NEW q \in Seq(Timers), NEW t \in Timers,
         \A i, j \in DOMAIN q : q[i] = q[j] => i = j
  PROVE  /\ Unlink(q, t) \in Seq(Timers)
         /\ \A i, j \in DOMAIN Unlink(q, t) : Unlink(q, t)[i] = Unlink(q, t)[j] => i = j
         /\ \A i \in DOMAIN Unlink(q, t) : /\ Unlink(q, t)[i] # t
                                           /\ \E j \in DOMAIN q : Unlink(q, t)[i] = q[j]
         /\ \A j \in DOMAIN q : q[j] # t => \E i \in DOMAIN Unlink(q, t) : Unlink(q, t)[i] = q[j]
<1>1. CASE t \notin ToSet(q)
  <2>1. Unlink(q, t) = q /\ \A i \in DOMAIN q : q[i] # t
    BY <1>1, Zenon DEF Unlink, ToSet
  <2> QED BY <2>1
<1>2. CASE t \in ToSet(q)
  <2> DEFINE k == CHOOSE i \in DOMAIN q : q[i] = t
             r == RemoveAt(q, k)
  <2>1. k \in DOMAIN q /\ q[k] = t
    BY <1>2, Zenon DEF ToSet
  <2>2. Unlink(q, t) = r
    BY <1>2, Zenon DEF Unlink
  <2> HIDE DEF k
  <2>3. k \in 1 .. Len(q) /\ Len(q) \in Nat
    BY <2>1
  <2>4. /\ r \in Seq(Timers) /\ Len(r) = Len(q) - 1
        /\ \A i \in 1 .. Len(r) : r[i] = IF i < k THEN q[i] ELSE q[i + 1]
    BY <2>3, RemoveAtFacts
  <2>5. DOMAIN q = 1 .. Len(q) /\ DOMAIN r = 1 .. Len(r)
    BY <2>4
  <2> HIDE DEF r
  <2>6. \A i \in DOMAIN r : \E j \in DOMAIN q : j # k /\ r[i] = q[j] /\ j = IF i < k THEN i ELSE i + 1
    BY <2>3, <2>4, <2>5
  <2>7. \A i \in DOMAIN r : r[i] # t
    BY <2>1, <2>6
  <2>8. \A i, j \in DOMAIN r : r[i] = r[j] => i = j
    <3> SUFFICES ASSUME NEW i \in DOMAIN r, NEW j \in DOMAIN r, r[i] = r[j] PROVE i = j
      OBVIOUS
    <3>1. (IF i < k THEN i ELSE i + 1) = (IF j < k THEN j ELSE j + 1)
      BY <2>6
    <3> QED BY <2>3, <2>4, <2>5, <3>1
  <2>9. \A j \in DOMAIN q : q[j] # t => \E i \in DOMAIN r : r[i] = q[j]
    <3> SUFFICES ASSUME NEW j \in DOMAIN q, q[j] # t PROVE \E i \in DOMAIN r : r[i] = q[j]
      OBVIOUS
    <3>1. j # k
      BY <2>1
    <3>2. CASE j < k
      <4>1. j \in DOMAIN r /\ r[j] = q[j]
        BY <2>3, <2>4, <2>5, <3>2
      <4> QED BY <4>1
    <3>3. CASE j > k
      <4>1. j - 1 \in DOMAIN r /\ r[j - 1] = q[j]
        BY <2>3, <2>4, <2>5, <3>3
      <4> QED BY <4>1
    <3> QED BY <2>3, <2>5, <3>1, <3>2, <3>3
  <2> QED BY <2>2, <2>4, <2>6, <2>7, <2>8, <2>9
<1> QED BY <1>1, <1>2

(* Delete takes its timer out of both lists, and no other.                 *)
LEMMA Deleting ==
  ASSUME NEW ts, LinkedOnce(ts), NEW t \in Timers
  PROVE  /\ LinkedOnce(Delete(ts, t)) /\ ~Running(Delete(ts, t), t)
         /\ \A u \in Timers \ {t} : Running(Delete(ts, t), u) <=> Running(ts, u)
<1> DEFINE q == Unlink(ts.ready, t)
<1>1. /\ q \in Seq(Timers) /\ \A i, j \in DOMAIN q : q[i] = q[j] => i = j
      /\ \A i \in DOMAIN q : q[i] # t /\ \E j \in DOMAIN ts.ready : q[i] = ts.ready[j]
      /\ \A j \in DOMAIN ts.ready : ts.ready[j] # t => \E i \in DOMAIN q : q[i] = ts.ready[j]
  BY Unlinking DEF LinkedOnce
<1>2. Delete(ts, t).waiting = ts.waiting \ {t} /\ Delete(ts, t).ready = q
  BY DEF Delete
<1>3. Delete(ts, t) \in [waiting : SUBSET Timers, ready : Seq(Timers)]
  BY <1>1 DEF Delete, LinkedOnce
<1> HIDE DEF q
<1>4. \A i \in DOMAIN q : q[i] \notin ts.waiting
  BY <1>1 DEF LinkedOnce
<1>5. LinkedOnce(Delete(ts, t))
  BY <1>1, <1>2, <1>3, <1>4 DEF LinkedOnce
<1>6. ~Running(Delete(ts, t), t)
  BY <1>1, <1>2 DEF Running
<1>7. ASSUME NEW u \in Timers \ {t} PROVE Running(Delete(ts, t), u) <=> Running(ts, u)
  BY <1>1, <1>2 DEF Running
<1> QED BY <1>5, <1>6, <1>7

(* Create makes its timer run, and leaves the other as it is.              *)
LEMMA Creating ==
  ASSUME NEW ts, LinkedOnce(ts), NEW t \in Timers
  PROVE  /\ LinkedOnce(Create(ts, t)) /\ Running(Create(ts, t), t)
         /\ \A u \in Timers \ {t} : Running(Create(ts, t), u) <=> Running(ts, u)
<1> DEFINE d == Delete(ts, t)
<1>1. /\ LinkedOnce(d) /\ ~Running(d, t)
      /\ \A u \in Timers \ {t} : Running(d, u) <=> Running(ts, u)
  BY Deleting
<1>2. /\ Create(ts, t).waiting = d.waiting \cup {t} /\ Create(ts, t).ready = d.ready
      /\ Create(ts, t) \in [waiting : SUBSET Timers, ready : Seq(Timers)]
  BY <1>1 DEF Create, Delete, LinkedOnce
<1> HIDE DEF d
<1>3. LinkedOnce(Create(ts, t))
  BY <1>1, <1>2 DEF LinkedOnce, Running
<1>4. \A u : Running(Create(ts, t), u) <=> u = t \/ Running(d, u)
  BY <1>2 DEF Running
<1> QED BY <1>1, <1>3, <1>4

(* The dispatcher takes the first expired timer from its queue.            *)
LEMMA Taking ==
  ASSUME NEW ts, LinkedOnce(ts), ts.ready # <<>>
  PROVE  LET d == [ts EXCEPT !.ready = Tail(@)]
         IN  /\ LinkedOnce(d) /\ Head(ts.ready) \in Timers
             /\ \A u \in Timers \ {Head(ts.ready)} : Running(d, u) <=> Running(ts, u)
<1> DEFINE d == [ts EXCEPT !.ready = Tail(@)]
           q == ts.ready
<1>1. d = [waiting |-> ts.waiting, ready |-> Tail(q)]
  <2>1. ts \in [waiting : SUBSET Timers, ready : Seq(Timers)]
    BY DEF LinkedOnce
  <2> QED BY <2>1, SMTT(60)
<1>2. /\ Tail(q) \in Seq(Timers) /\ Head(q) \in Timers /\ Head(q) = q[1]
      /\ DOMAIN q = 1 .. Len(q) /\ Len(q) \in Nat \ {0}
      /\ DOMAIN Tail(q) = 1 .. Len(q) - 1
      /\ \A i \in 1 .. Len(q) - 1 : Tail(q)[i] = q[i + 1]
  BY HeadTailProperties DEF LinkedOnce
<1>3. d.waiting = ts.waiting /\ d.ready = Tail(q)
  BY <1>1
<1> HIDE DEF d
<1>4. \A i \in DOMAIN d.ready : i + 1 \in DOMAIN q /\ i \in Nat /\ d.ready[i] = q[i + 1]
  BY <1>2, <1>3
<1>5. \A j \in DOMAIN q : j # 1 => j - 1 \in DOMAIN d.ready /\ d.ready[j - 1] = q[j]
  BY <1>2, <1>3
<1>6. LinkedOnce(d)
  <2>1. \A i, j \in DOMAIN d.ready : d.ready[i] = d.ready[j] => i = j
    <3> SUFFICES ASSUME NEW i \in DOMAIN d.ready, NEW j \in DOMAIN d.ready,
                        d.ready[i] = d.ready[j]
                 PROVE  i = j
      OBVIOUS
    <3>1. i + 1 = j + 1
      BY <1>4 DEF LinkedOnce
    <3> QED BY <1>4, <3>1
  <2>2. \A i \in DOMAIN d.ready : d.ready[i] \notin d.waiting
    BY <1>3, <1>4 DEF LinkedOnce
  <2> QED BY <1>1, <1>2, <1>3, <2>1, <2>2 DEF LinkedOnce
<1>7. ASSUME NEW u \in Timers \ {Head(q)} PROVE Running(d, u) <=> Running(ts, u)
  BY <1>2, <1>3, <1>4, <1>5, SMTT(60) DEF Running
<1> QED BY <1>2, <1>6, <1>7 DEF d

(* The interrupt moves a timer to the queue.                               *)
LEMMA Expiring ==
  ASSUME NEW ts, LinkedOnce(ts), NEW t \in Timers, t \in ts.waiting,
         NEW d, d = [waiting |-> ts.waiting \ {t}, ready |-> Append(ts.ready, t)]
  PROVE  LinkedOnce(d) /\ \A u \in Timers : Running(d, u) <=> Running(ts, u)
<1> DEFINE q == ts.ready
           n == Len(q) + 1
<1>1. d.waiting = ts.waiting \ {t} /\ d.ready = Append(q, t)
  OBVIOUS
<1>2. d \in [waiting : SUBSET Timers, ready : Seq(Timers)]
  BY AppendProperties DEF LinkedOnce
<1>3. q \in Seq(Timers) /\ DOMAIN q = 1 .. Len(q) /\ Len(q) \in Nat
  BY DEF LinkedOnce
<1>4. /\ d.ready \in Seq(Timers) /\ DOMAIN d.ready = 1 .. n
      /\ \A i \in DOMAIN q : d.ready[i] = q[i]
      /\ d.ready[n] = t
  BY <1>1, <1>3, AppendProperties
<1>5. /\ n \notin DOMAIN q /\ n \in DOMAIN d.ready
      /\ \A i \in DOMAIN d.ready : i \in DOMAIN q \/ i = n
      /\ \A i \in DOMAIN q : i \in DOMAIN d.ready
  BY <1>3, <1>4
<1> HIDE DEF n
<1>6. \A i \in DOMAIN q : q[i] # t
  BY DEF LinkedOnce
<1>7. LinkedOnce(d)
  <2>1. \A i, j \in DOMAIN d.ready : d.ready[i] = d.ready[j] => i = j
    <3> SUFFICES ASSUME NEW i \in DOMAIN d.ready, NEW j \in DOMAIN d.ready,
                        d.ready[i] = d.ready[j]
                 PROVE  i = j
      OBVIOUS
    <3>1. CASE i \in DOMAIN q /\ j \in DOMAIN q
      <4>1. q[i] = q[j]
        BY <1>4, <3>1
      <4> QED BY <3>1, <4>1 DEF LinkedOnce
    <3>2. CASE i = n \/ j = n
      BY <1>4, <1>5, <1>6, <3>2
    <3> QED BY <1>5, <3>1, <3>2
  <2>2. \A i \in DOMAIN d.ready : d.ready[i] \notin d.waiting
    BY <1>1, <1>4, <1>5 DEF LinkedOnce
  <2> QED BY <1>2, <1>4, <2>1, <2>2 DEF LinkedOnce
<1>8. ASSUME NEW u \in Timers PROVE Running(d, u) <=> Running(ts, u)
  <2>1. CASE u = t
    BY <1>4, <1>5, <2>1 DEF Running
  <2>2. CASE u # t
    BY <1>1, <1>4, <1>5, <2>2, Zenon DEF Running
  <2> QED BY <2>1, <2>2
<1> QED BY <1>7, <1>8

-----------------------------------------------------------------------------
(* The steps                                                               *)

LEMMA TaskIdle ==
  ASSUME TaskInv, UNCHANGED <<state, tasks>>
  PROVE  TaskInv'
  BY DEF TaskInv

(* A start of the firmware: the list is empty, and the machine is not in   *)
(* SENDING.                                                                *)
LEMMA Empty ==
  ASSUME NEW ts, ts = [waiting |-> {}, ready |-> <<>>]
  PROVE  LinkedOnce(ts) /\ \A t : ~Running(ts, t)
<1>1. ts.waiting = {} /\ ts.ready = <<>> /\ DOMAIN ts.ready = {}
  OBVIOUS
<1> QED BY <1>1 DEF LinkedOnce, Running

LEMMA TaskInit == Init => TaskInv
  BY Empty DEF Init, TaskInv

LEMMA TaskToggle == ASSUME TaskInv, ToggleLed PROVE TaskInv'
<1> DEFINE d == [tasks EXCEPT !.ready = Tail(@)]
<1>1. CASE Reset
  BY <1>1, Empty DEF Reset, TaskInv
<1>2. CASE tasks' = Create(d, "toggle_led") /\ UNCHANGED state
  <2>1. tasks.ready # <<>> /\ Head(tasks.ready) = "toggle_led"
    BY DEF ToggleLed
  <2>2. LinkedOnce(d) /\ (Running(d, "send_task") <=> Running(tasks, "send_task"))
    BY <2>1, Taking DEF TaskInv, Timers
  <2> HIDE DEF d
  <2>3. LinkedOnce(tasks') /\ (Running(tasks', "send_task") <=> Running(d, "send_task"))
    BY <1>2, <2>2, Creating DEF Timers
  <2> QED BY <1>2, <2>2, <2>3 DEF TaskInv
<1> QED BY <1>1, <1>2 DEF ToggleLed

LEMMA TaskPublish == ASSUME TaskInv, PublishADC PROVE TaskInv'
<1> DEFINE d == [tasks EXCEPT !.ready = Tail(@)]
<1>1. /\ tasks.ready # <<>> /\ Head(tasks.ready) = "send_task"
      /\ tasks' = Create(d, "send_task") /\ UNCHANGED state
  BY DEF PublishADC
<1>2. LinkedOnce(d) /\ Running(tasks, "send_task")
  <2>1. LinkedOnce(d)
    BY <1>1, Taking DEF TaskInv
  <2>2. 1 \in DOMAIN tasks.ready /\ tasks.ready[1] = "send_task"
    BY <1>1 DEF TaskInv, LinkedOnce
  <2> QED BY <2>1, <2>2 DEF Running
<1> HIDE DEF d
<1>3. LinkedOnce(tasks') /\ Running(tasks', "send_task")
  BY <1>1, <1>2, Creating DEF Timers
<1> QED BY <1>1, <1>2, <1>3 DEF TaskInv

LEMMA TaskExpire == ASSUME TaskInv, NEW t \in Timers, Expire(t) PROVE TaskInv'
<1>1. /\ t \in tasks.waiting /\ UNCHANGED state
      /\ tasks' = [waiting |-> tasks.waiting \ {t}, ready |-> Append(tasks.ready, t)]
  BY DEF Expire, machine
<1>2. LinkedOnce(tasks') /\ (Running(tasks', "send_task") <=> Running(tasks, "send_task"))
  BY <1>1, Expiring DEF TaskInv, Timers
<1> QED BY <1>1, <1>2 DEF TaskInv

(* Each way into SENDING goes through Create, each way out of it through   *)
(* Delete; the LED observer runs in between and starts the other timer.    *)
LEMMA TaskTakeEvent == ASSUME TaskInv, TakeEvent PROVE TaskInv'
<1> DEFINE from == IF event = Fail THEN ErrorHandler(state) ELSE state
           stopped == IF event = Fail /\ state = "SENDING"
                        THEN Delete(LedTasks, "send_task") ELSE LedTasks
<1>1. /\ tasks' = IF from \in {"MQTT", "SENDING"} THEN Create(stopped, "send_task") ELSE stopped
      /\ Handler(from)
  BY DEF TakeEvent
<1>2. LinkedOnce(LedTasks) /\ (Running(LedTasks, "send_task") <=> state = "SENDING")
  BY Creating DEF LedTasks, TaskInv, Timers
<1>3. from \in {"MQTT", "SENDING"} => event # Fail /\ from = state
  BY DEF ErrorHandler
<1>4. state' = "SENDING" <=> from \in {"MQTT", "SENDING"}
  BY <1>1 DEF Handler, WifiConnect, WaitForInternet, RequestDns, TlsConnect, MqttConnect,
              StartSending
<1>5. from \notin {"MQTT", "SENDING"} => event = Fail \/ state # "SENDING"
  OBVIOUS
<1> HIDE DEF from
<1>6. LinkedOnce(stopped) /\ (Running(stopped, "send_task") <=> state = "SENDING" /\ event # Fail)
  BY <1>2, Deleting DEF Timers
<1> HIDE DEF stopped
<1>7. CASE from \in {"MQTT", "SENDING"}
  <2>1. LinkedOnce(tasks') /\ Running(tasks', "send_task")
    BY <1>1, <1>6, <1>7, Creating DEF Timers
  <2> QED BY <1>4, <1>7, <2>1 DEF TaskInv
<1>8. CASE from \notin {"MQTT", "SENDING"}
  BY <1>1, <1>4, <1>5, <1>6, <1>8 DEF TaskInv
<1> QED BY <1>7, <1>8

LEMMA TaskOthers ==
  ASSUME TaskInv,
         \/ Answer \/ Sent \/ NoCallback \/ NoEvent \/ LoseWifi \/ GetAddress
         \/ \E s \in SocketIds : PeerCloses(s)
         \/ UNCHANGED vars
  PROVE  TaskInv'
<1>1. UNCHANGED <<state, tasks>>
  BY DEF Answer, Sent, NoCallback, NoEvent, LoseWifi, GetAddress, PeerCloses, PingReply, DnsReply,
         ReceivePacket, ConnectReply, ReceiveError, SendReply, vars, machine, timers
<1> QED BY <1>1, TaskIdle

LEMMA TaskNext == ASSUME TaskInv, [Next]_vars PROVE TaskInv'
<1>1. ASSUME NEW t \in tasks.waiting, Expire(t) PROVE TaskInv'
  BY <1>1, TaskExpire DEF TaskInv, LinkedOnce, Timers
<1> QED BY <1>1, TaskToggle, TaskPublish, TaskTakeEvent, TaskOthers DEF Next, Loop

(* cloud.c:168, 198: the publishing timer runs, or waits for its callback,  *)
(* exactly in the state SENDING, for every order and kind of failure.       *)
THEOREM SendTaskOnlyInSending == Spec => []SendTaskIffSending
<1>1. TaskInv => SendTaskIffSending
  BY RunningIsLinked DEF TaskInv, SendTaskIffSending
<1> QED BY <1>1, TaskInit, TaskNext, PTL DEF Spec

-----------------------------------------------------------------------------
(* The values and the room for replies                                     *)

Queued(ts, t) == \E i \in DOMAIN ts.ready : ts.ready[i] = t

(* A publish in the queue finds room for its two packets, and a socket has *)
(* sent nothing before the CONNECT.                                        *)
SendsFit ==
  /\ Queued(tasks, "send_task") => \A s \in SocketIds : sockets[s].sends + 2 <= MaxSends
  /\ state = "TLS_CONNECT" /\ sock # NoSocket => sockets[sock].sends = 0

SocketFunctions == [SocketIds -> SocketRecord]
NoMoreSends(f, g) == \A s \in SocketIds : g[s].sends <= f[s].sends

LEMMA FreshSocket ==
  ASSUME NEW link \in Links
  PROVE  Socket(link) \in SocketRecord /\ Socket(link).sends = 0 /\ Socket(link).link = link
         /\ Socket(link).recv = FALSE
  BY CloudAssumption DEF Socket, SocketRecord

LEMMA Replacing ==
  ASSUME NEW f \in SocketFunctions, NEW s \in SocketIds, NEW link \in Links
  PROVE  /\ [f EXCEPT ![s] = Socket(link)] \in SocketFunctions
         /\ NoMoreSends(f, [f EXCEPT ![s] = Socket(link)])
<1>1. Socket(link) \in SocketRecord /\ Socket(link).sends = 0
  BY FreshSocket
<1>2. \A t \in SocketIds : f[t].sends \in Nat
  BY DEF SocketFunctions, SocketRecord
<1> QED BY <1>1, <1>2 DEF SocketFunctions, NoMoreSends

LEMMA Closing ==
  ASSUME sockets \in SocketFunctions, NEW s
  PROVE  Close(s) \in SocketFunctions /\ NoMoreSends(sockets, Close(s))
<1>1. CASE ~IsUsed(s)
  BY <1>1 DEF Close, NoMoreSends, SocketFunctions, SocketRecord
<1>2. CASE IsUsed(s)
  <2>1. PICK link \in {"stale", "free"} : Close(s) = [sockets EXCEPT ![s] = Socket(link)]
    BY <1>2, Zenon DEF Close
  <2>2. s \in SocketIds /\ link \in Links
    BY <1>2 DEF IsUsed, Links
  <2> QED BY <2>1, <2>2, Replacing
<1> QED BY <1>1, <1>2

LEMMA Sending ==
  ASSUME sockets \in SocketFunctions, NEW s, NEW n \in Nat,
         s \in SocketIds => sockets[s].sends + n <= MaxSends
  PROVE  Send(s, n) \in SocketFunctions
<1>1. CASE ~IsUsed(s)
  BY <1>1 DEF Send
<1>2. CASE IsUsed(s)
  <2>1. /\ Send(s, n) = [sockets EXCEPT ![s] = [sockets[s] EXCEPT !.sends = sockets[s].sends + n]]
        /\ s \in SocketIds
    BY <1>2 DEF Send, IsUsed
  <2>2. [sockets[s] EXCEPT !.sends = sockets[s].sends + n] \in SocketRecord
    BY <2>1, CloudAssumption DEF SocketFunctions, SocketRecord
  <2> HIDE DEF SocketRecord
  <2> QED BY <2>1, <2>2 DEF SocketFunctions
<1> QED BY <1>1, <1>2

(* Another link for a socket, and a receive asked for or answered.         *)
LEMMA Relinking ==
  ASSUME NEW f \in SocketFunctions, NEW s \in SocketIds, NEW link \in Links
  PROVE  /\ [f EXCEPT ![s].link = link] \in SocketFunctions
         /\ NoMoreSends(f, [f EXCEPT ![s].link = link])
<1>1. [f EXCEPT ![s].link = link] = [f EXCEPT ![s] = [f[s] EXCEPT !.link = link]]
  OBVIOUS
<1>2. /\ [f[s] EXCEPT !.link = link] \in SocketRecord
      /\ [f[s] EXCEPT !.link = link].sends = f[s].sends
  BY DEF SocketFunctions, SocketRecord
<1>3. \A t \in SocketIds : f[t].sends \in Nat
  BY DEF SocketFunctions, SocketRecord
<1> QED BY <1>1, <1>2, <1>3 DEF SocketFunctions, NoMoreSends

LEMMA Rereceiving ==
  ASSUME NEW f \in SocketFunctions, NEW s \in SocketIds, NEW recv \in BOOLEAN
  PROVE  /\ [f EXCEPT ![s].recv = recv] \in SocketFunctions
         /\ NoMoreSends(f, [f EXCEPT ![s].recv = recv])
<1>1. [f EXCEPT ![s].recv = recv] = [f EXCEPT ![s] = [f[s] EXCEPT !.recv = recv]]
  OBVIOUS
<1>2. /\ [f[s] EXCEPT !.recv = recv] \in SocketRecord
      /\ [f[s] EXCEPT !.recv = recv].sends = f[s].sends
  BY DEF SocketFunctions, SocketRecord
<1>3. \A t \in SocketIds : f[t].sends \in Nat
  BY DEF SocketFunctions, SocketRecord
<1> QED BY <1>1, <1>2, <1>3 DEF SocketFunctions, NoMoreSends

(* socket() returns an unused slot, or none.                               *)
LEMMA FreeSocketUnused ==
  ASSUME nextSock \in SocketIds
  PROVE  FreeSocket = NoSocket \/ (FreeSocket \in SocketIds /\ ~IsUsed(FreeSocket))
<1> DEFINE inTurn == [k \in SocketIds |-> (nextSock + k) % Slots]
           free == {k \in SocketIds : ~IsUsed(inTurn[k])}
           first == CHOOSE k \in free : \A j \in free : k <= j
<1>1. FreeSocket = IF free = {} THEN NoSocket ELSE inTurn[first]
  BY DEF FreeSocket
<1>2. ASSUME free # {}
      PROVE  inTurn[first] \in SocketIds /\ ~IsUsed(inTurn[first])
  <2>1. free \in SUBSET Nat
    BY CloudAssumption DEF SocketIds
  <2>2. \E k \in free : \A j \in free : k <= j
    <3> HIDE DEF free
    <3> QED BY <1>2, <2>1, SmallestExists
  <2>3. first \in free
    BY <2>2, Zenon
  <2>4. inTurn[first] = (nextSock + first) % Slots
    BY <2>3
  <2>5. first \in SocketIds
    BY <2>3
  <2> HIDE DEF first
  <2>6. (nextSock + first) % Slots \in 0 .. Slots - 1
    BY <2>5, CloudAssumption DEF SocketIds
  <2> QED BY <2>3, <2>4, <2>6 DEF SocketIds
<1> QED BY <1>1, <1>2

(* Only the interrupt puts a timer in the queue.                           *)
LEMMA Queueing ==
  ASSUME NEW ts, LinkedOnce(ts), NEW t \in Timers, NEW u
  PROVE  /\ Queued(Delete(ts, t), u) => Queued(ts, u) /\ u # t
         /\ Queued(Create(ts, t), u) => Queued(ts, u) /\ u # t
<1> DEFINE q == Unlink(ts.ready, t)
<1>1. \A i \in DOMAIN q : q[i] # t /\ \E j \in DOMAIN ts.ready : q[i] = ts.ready[j]
  BY Unlinking DEF LinkedOnce
<1>2. Delete(ts, t).ready = q /\ Create(ts, t).ready = q
  BY DEF Delete, Create
<1> HIDE DEF q
<1> QED BY <1>1, <1>2 DEF Queued

LEMMA Dequeueing ==
  ASSUME NEW ts, LinkedOnce(ts), ts.ready # <<>>, NEW u,
         Queued([ts EXCEPT !.ready = Tail(@)], u)
  PROVE  Queued(ts, u)
<1>1. ts \in [waiting : SUBSET Timers, ready : Seq(Timers)]
  BY DEF LinkedOnce
<1>2. [ts EXCEPT !.ready = Tail(@)].ready = Tail(ts.ready)
  BY <1>1
<1>3. \A i \in DOMAIN Tail(ts.ready) : i + 1 \in DOMAIN ts.ready /\ Tail(ts.ready)[i] = ts.ready[i + 1]
  BY <1>1
<1> QED BY <1>2, <1>3 DEF Queued

ValueInv == TaskInv /\ Values /\ SendsFit

LEMMA QueuedIsSending ==
  ASSUME TaskInv, Queued(tasks, "send_task")
  PROVE  state = "SENDING"
  BY DEF TaskInv, Queued, Running

(* The sockets with fewer replies owed leave the room there is.            *)
LEMMA RoomKept ==
  ASSUME ValueInv, UNCHANGED <<state, sock>>, sockets' \in SocketFunctions,
         NoMoreSends(sockets, sockets'), Queued(tasks', "send_task") => Queued(tasks, "send_task")
  PROVE  SendsFit'
<1>1. \A s \in SocketIds : sockets[s].sends \in Nat /\ sockets'[s].sends \in Nat
                           /\ sockets'[s].sends <= sockets[s].sends
  BY DEF ValueInv, Values, SocketFunctions, SocketRecord, NoMoreSends
<1>2. Queued(tasks', "send_task") => \A s \in SocketIds : sockets'[s].sends + 2 <= MaxSends
  BY <1>1, CloudAssumption DEF ValueInv, SendsFit
<1>3. state' = "TLS_CONNECT" /\ sock' # NoSocket => sockets'[sock'].sends = 0
  <2>1. sock # NoSocket => sock \in SocketIds
    BY DEF ValueInv, Values
  <2> QED BY <1>1, <2>1 DEF ValueInv, SendsFit
<1> QED BY <1>2, <1>3 DEF SendsFit

LEMMA Same == ASSUME sockets \in SocketFunctions PROVE NoMoreSends(sockets, sockets)
  BY DEF NoMoreSends, SocketFunctions, SocketRecord

-----------------------------------------------------------------------------
(* The answers of the chip                                                 *)

LEMMA FaultTyped ==
  ASSUME Values, NEW kind, Fault(kind)
  PROVE  budget' \in 0 .. Budget
  BY CloudAssumption DEF Values, Fault

LEMMA FailsForTyped ==
  ASSUME Values, NEW kind, NEW forced, FailsFor(kind, forced)
  PROVE  budget' \in 0 .. Budget
  BY FaultTyped DEF Values, FailsFor

LEMMA ValueGetAddress == ASSUME ValueInv, GetAddress PROVE Values' /\ SendsFit'
<1>1. budget' \in 0 .. Budget
  BY FaultTyped DEF GetAddress, ValueInv, Values
<1>2. UNCHANGED <<sockets, state, sock, tasks>>
  BY DEF GetAddress, machine, driver, timers
<1>3. Values'
  BY <1>1 DEF GetAddress, ValueInv, Values, machine, driver, client, timers
<1> QED BY <1>2, <1>3, RoomKept, Same DEF ValueInv, Values, SocketFunctions

LEMMA ValueLoseWifi == ASSUME ValueInv, LoseWifi PROVE Values' /\ SendsFit'
<1>1. budget' \in 0 .. Budget
  BY FaultTyped DEF LoseWifi, ValueInv
<1>2. sockets' \in SocketFunctions /\ NoMoreSends(sockets, sockets')
  BY Closing DEF LoseWifi, ValueInv, Values, SocketFunctions
<1>3. UNCHANGED <<state, sock, tasks>>
  BY DEF LoseWifi, machine, timers
<1>4. Values'
  BY <1>1, <1>2 DEF LoseWifi, ValueInv, Values, SocketFunctions, machine, client, timers
<1> QED BY <1>2, <1>3, <1>4, RoomKept

LEMMA ValuePingReply == ASSUME ValueInv, PingReply PROVE Values' /\ SendsFit'
<1>1. budget' \in 0 .. Budget
  BY FaultTyped, FailsForTyped DEF PingReply, ValueInv, Values
<1>2. UNCHANGED <<sockets, state, sock, tasks>> /\ event' \in {None, Success, Fail} /\ pings' \in Nat
  BY DEF PingReply, machine, driver, timers, ValueInv, Values
<1>3. Values'
  BY <1>1, <1>2 DEF PingReply, ValueInv, Values, machine, driver, client, timers
<1> QED BY <1>2, <1>3, RoomKept, Same DEF ValueInv, Values, SocketFunctions

LEMMA ValueDnsReply == ASSUME ValueInv, DnsReply PROVE Values' /\ SendsFit'
<1>1. budget' \in 0 .. Budget
  BY FaultTyped, FailsForTyped DEF DnsReply, ValueInv, Values
<1>2. /\ UNCHANGED <<sockets, state, sock, tasks>> /\ event' \in {None, Success, Fail}
      /\ lookups' \in Nat /\ (endpoint' = TRUE \/ endpoint' = endpoint)
  BY DEF DnsReply, machine, timers, ValueInv, Values
<1>e. endpoint' \in BOOLEAN
  BY <1>2, Zenon DEF ValueInv, Values
<1>3. Values'
  BY <1>1, <1>2, <1>e DEF DnsReply, ValueInv, Values, machine, client, timers
<1> QED BY <1>2, <1>3, RoomKept, Same DEF ValueInv, Values, SocketFunctions

LEMMA ValueConnectReply ==
  ASSUME ValueInv, NEW s \in SocketIds, ConnectReply(s)
  PROVE  Values' /\ SendsFit'
<1>1. budget' \in 0 .. Budget
  BY FailsForTyped DEF ConnectReply, ValueInv, Values
<1>2. sockets' \in SocketFunctions /\ NoMoreSends(sockets, sockets')
  <2>1. \/ sockets' = [sockets EXCEPT ![s].link = "connected"]
        \/ sockets' = [sockets EXCEPT ![s] = Socket("free")]
    BY DEF ConnectReply
  <2>2. sockets \in SocketFunctions /\ "connected" \in Links /\ "free" \in Links
    BY DEF ValueInv, Values, SocketFunctions, Links
  <2> QED BY <2>1, <2>2, Relinking, Replacing
<1>3. UNCHANGED <<state, sock, tasks>> /\ event' \in {None, Success, Fail}
  BY DEF ConnectReply, machine, timers
<1>4. Values'
  BY <1>1, <1>2, <1>3
     DEF ConnectReply, ValueInv, Values, SocketFunctions, machine, client, timers, network
<1> QED BY <1>2, <1>3, <1>4, RoomKept

LEMMA ValueSendReply ==
  ASSUME ValueInv, NEW s \in SocketIds, SendReply(s)
  PROVE  Values' /\ SendsFit'
<1> DEFINE fewer == [sockets EXCEPT ![s].sends = @ - 1]
<1>1. sockets \in SocketFunctions /\ sockets[s].sends \in 0 .. MaxSends /\ sockets[s].sends > 0
  BY DEF SendReply, ValueInv, Values, SocketFunctions, SocketRecord
<1>2. fewer \in SocketFunctions /\ NoMoreSends(sockets, fewer)
  <2>1. fewer = [sockets EXCEPT ![s] = [sockets[s] EXCEPT !.sends = sockets[s].sends - 1]]
    OBVIOUS
  <2>2. /\ [sockets[s] EXCEPT !.sends = sockets[s].sends - 1] \in SocketRecord
        /\ [sockets[s] EXCEPT !.sends = sockets[s].sends - 1].sends = sockets[s].sends - 1
    BY <1>1, CloudAssumption DEF SocketFunctions, SocketRecord
  <2>3. \A t \in SocketIds : sockets[t].sends \in Nat
    BY <1>1 DEF SocketFunctions, SocketRecord
  <2> QED BY <1>1, <2>1, <2>2, <2>3 DEF SocketFunctions, NoMoreSends
<1>3. sockets' = IF IsUsed(sock) THEN [fewer EXCEPT ![sock].recv = TRUE] ELSE fewer
  BY DEF SendReply
<1> HIDE DEF fewer
<1>4. sockets' \in SocketFunctions /\ NoMoreSends(sockets, sockets')
  <2>1. CASE ~IsUsed(sock)
    BY <1>2, <1>3, <2>1
  <2>2. CASE IsUsed(sock)
    <3>1. sock \in SocketIds /\ sockets' = [fewer EXCEPT ![sock].recv = TRUE]
      BY <1>3, <2>2 DEF IsUsed
    <3>2. sockets' \in SocketFunctions /\ NoMoreSends(fewer, sockets')
      BY <1>2, <3>1, Rereceiving
    <3>3. \A t \in SocketIds : /\ sockets[t].sends \in Nat /\ fewer[t].sends \in Nat
                               /\ sockets'[t].sends \in Nat
      BY <1>1, <1>2, <3>2 DEF SocketFunctions, SocketRecord
    <3> QED BY <1>2, <3>2, <3>3 DEF NoMoreSends
  <2> QED BY <2>1, <2>2
<1>5. UNCHANGED <<state, sock, tasks>>
  BY DEF SendReply, machine, timers
<1>6. Values'
  BY <1>4 DEF SendReply, ValueInv, Values, SocketFunctions, machine, client, timers, network
<1> QED BY <1>4, <1>5, <1>6, RoomKept

LEMMA ValueReceivePacket == ASSUME ValueInv, ReceivePacket PROVE Values' /\ SendsFit'
<1>1. budget' \in 0 .. Budget
  BY FaultTyped DEF ReceivePacket, ValueInv, Values
<1>2. sockets' \in SocketFunctions /\ NoMoreSends(sockets, sockets')
  BY Rereceiving DEF ReceivePacket, Connected, IsUsed, ValueInv, Values, SocketFunctions
<1>3. /\ UNCHANGED <<state, sock, tasks>> /\ event' \in {None, Success, Fail}
      /\ mqtt' \in {"INIT", "CONNECTING", "CONNECTED", "FAILED"}
      /\ broker' \in {"none", "connect", "session", "published", "subscribed"}
  BY DEF ReceivePacket, machine, timers, ValueInv, Values
<1>4. Values'
  BY <1>1, <1>2, <1>3
     DEF ReceivePacket, ValueInv, Values, SocketFunctions, machine, timers, network
<1> QED BY <1>2, <1>3, <1>4, RoomKept

LEMMA ValueReceiveError ==
  ASSUME ValueInv, NEW s \in SocketIds, ReceiveError(s)
  PROVE  Values' /\ SendsFit'
<1>1. sockets' \in SocketFunctions /\ NoMoreSends(sockets, sockets')
  BY Closing DEF ReceiveError, ValueInv, Values, SocketFunctions
<1>2. /\ UNCHANGED <<state, sock, tasks>>
      /\ broker' \in {"none", "connect", "session", "published", "subscribed"}
  BY DEF ReceiveError, BrokerWithout, machine, timers, ValueInv, Values
<1>3. Values'
  BY <1>1, <1>2 DEF ReceiveError, ValueInv, Values, SocketFunctions, machine, client, timers, network
<1> QED BY <1>1, <1>2, <1>3, RoomKept

LEMMA ValuePeerCloses ==
  ASSUME ValueInv, NEW s \in SocketIds, PeerCloses(s)
  PROVE  Values' /\ SendsFit'
<1>1. sockets' \in SocketFunctions /\ NoMoreSends(sockets, sockets')
  BY Relinking DEF PeerCloses, ValueInv, Values, SocketFunctions, Links
<1>2. /\ UNCHANGED <<state, sock, tasks>>
      /\ broker' \in {"none", "connect", "session", "published", "subscribed"}
      /\ budget' \in 0 .. Budget
  BY FaultTyped DEF PeerCloses, BrokerWithout, machine, timers, ValueInv, Values
<1>3. Values'
  BY <1>1, <1>2 DEF PeerCloses, ValueInv, Values, SocketFunctions, machine, client, timers, network
<1> QED BY <1>1, <1>2, <1>3, RoomKept

-----------------------------------------------------------------------------
(* The loop                                                                *)

LEMMA ValuesAtStart ==
  ASSUME /\ state = "INIT" /\ event = Success /\ phase = "poll"
         /\ endpoint = FALSE /\ sock = NoSocket /\ nextSock = 0
         /\ sockets = [s \in SocketIds |-> Socket("free")]
         /\ mqtt = "INIT" /\ subInit = FALSE
         /\ tasks = [waiting |-> {}, ready |-> <<>>] /\ online = TRUE /\ wdt = 0
         /\ wifi = "down" /\ pings = 0 /\ lookups = 0 /\ broker = "none"
         /\ budget \in 0 .. Budget
  PROVE  Values /\ SendsFit
<1>1. 0 \in SocketIds /\ 0 \in 0 .. ResetAfter
  BY CloudAssumption DEF SocketIds
<1>2. Socket("free") \in SocketRecord
  BY FreshSocket DEF Links
<1>3. Values
  BY <1>1, <1>2 DEF Values, States
<1>4. tasks.ready = <<>> /\ DOMAIN tasks.ready = {}
  OBVIOUS
<1> QED BY <1>3, <1>4 DEF SendsFit, Queued

LEMMA ValueInit == Init => ValueInv
<1> SUFFICES ASSUME Init PROVE ValueInv
  OBVIOUS
<1>1. budget \in 0 .. Budget
  BY CloudAssumption DEF Init
<1>2. Values /\ SendsFit
  BY <1>1, ValuesAtStart DEF Init
<1> QED BY <1>2, TaskInit DEF ValueInv

LEMMA ValueExpire ==
  ASSUME ValueInv, NEW t \in Timers, Expire(t)
  PROVE  Values' /\ SendsFit'
<1>1. /\ UNCHANGED <<machine, event, driver, client, online, wdt, network, broker, budget>>
      /\ tasks'.ready = Append(tasks.ready, t)
      /\ t = "send_task" => \A s \in SocketIds : sockets[s].sends + 2 <= MaxSends
  BY DEF Expire
<1>2. Values'
  BY <1>1 DEF ValueInv, Values, machine, driver, client, network
<1>3. UNCHANGED <<state, sock, sockets>>
  BY <1>1 DEF machine, driver
<1>4. Queued(tasks', "send_task") => Queued(tasks, "send_task") \/ t = "send_task"
  <2>1. tasks.ready \in Seq(Timers)
    BY DEF ValueInv, TaskInv, LinkedOnce
  <2>2. /\ DOMAIN Append(tasks.ready, t) = 1 .. Len(tasks.ready) + 1
        /\ DOMAIN tasks.ready = 1 .. Len(tasks.ready) /\ Len(tasks.ready) \in Nat
        /\ \A i \in 1 .. Len(tasks.ready) : Append(tasks.ready, t)[i] = tasks.ready[i]
        /\ Append(tasks.ready, t)[Len(tasks.ready) + 1] = t
    BY <2>1, AppendProperties
  <2> QED BY <1>1, <2>2 DEF Queued
<1>5. SendsFit'
  BY <1>1, <1>3, <1>4 DEF ValueInv, SendsFit
<1> QED BY <1>2, <1>5

LEMMA ValueIdle ==
  ASSUME ValueInv, NoCallback \/ NoEvent \/ UNCHANGED vars
  PROVE  Values' /\ SendsFit'
<1>1. /\ UNCHANGED <<state, event, driver, client, timers, network, broker, budget>>
      /\ phase' \in {"poll", "act"}
  BY DEF NoCallback, NoEvent, vars, machine, ValueInv, Values
<1>2. Values'
  BY <1>1 DEF ValueInv, Values, driver, client, timers, network
<1>3. UNCHANGED <<state, sock, sockets, tasks>>
  BY <1>1 DEF driver, timers
<1>4. SendsFit'
  BY <1>3 DEF ValueInv, SendsFit
<1> QED BY <1>2, <1>4

LEMMA ValueToggle == ASSUME ValueInv, ToggleLed PROVE Values' /\ SendsFit'
<1> DEFINE d == [tasks EXCEPT !.ready = Tail(@)]
<1>1. CASE Reset
  <2>1. budget' \in 0 .. Budget
    BY <1>1 DEF Reset, ValueInv, Values
  <2>2. 0 \in SocketIds /\ 0 \in 0 .. ResetAfter /\ Socket("free") \in SocketRecord
    BY CloudAssumption, FreshSocket DEF SocketIds, Links
  <2>3. Values'
    BY <1>1, <2>1, <2>2 DEF Reset, Values, States
  <2>4. tasks'.ready = <<>> /\ DOMAIN tasks'.ready = {} /\ state' = "INIT"
    BY <1>1 DEF Reset
  <2>5. SendsFit'
    BY <2>4 DEF SendsFit, Queued
  <2> QED BY <2>3, <2>5
<1>2. CASE /\ wdt < ResetAfter /\ wdt' = wdt + 1 /\ phase' = "act"
           /\ tasks' = Create(d, "toggle_led")
           /\ UNCHANGED <<state, event, driver, client, online, network, broker, budget>>
  <2>1. Values'
    BY <1>2, CloudAssumption DEF ValueInv, Values, driver, client, network
  <2>2. tasks.ready # <<>>
    BY DEF ToggleLed
  <2>3. LinkedOnce(d)
    BY <2>2, Taking DEF ValueInv, TaskInv
  <2>4. Queued(d, "send_task") => Queued(tasks, "send_task")
    BY <2>2, Dequeueing DEF ValueInv, TaskInv
  <2> HIDE DEF d
  <2>5. Queued(tasks', "send_task") => Queued(tasks, "send_task")
    BY <1>2, <2>3, <2>4, Queueing DEF Timers
  <2>6. UNCHANGED <<state, sock, sockets>>
    BY <1>2 DEF driver
  <2> QED BY <2>1, <2>5, <2>6, RoomKept, Same DEF ValueInv, Values, SocketFunctions
<1> QED BY <1>1, <1>2 DEF ToggleLed

LEMMA TwoPackets ==
  ASSUME NEW accepted \in SUBSET {"publish", "subscribe"}
  PROVE  Cardinality(accepted) \in 0 .. 2
<1>1. IsFiniteSet({"publish"}) /\ Cardinality({"publish"}) = 1
  BY FS_Singleton
<1>2. /\ IsFiniteSet({"publish"} \cup {"subscribe"})
      /\ Cardinality({"publish"} \cup {"subscribe"}) = 2
  BY <1>1, FS_AddElement
<1>3. {"publish"} \cup {"subscribe"} = {"publish", "subscribe"}
  OBVIOUS
<1>4. IsFiniteSet(accepted) /\ Cardinality(accepted) <= 2
  BY <1>2, <1>3, FS_Subset, ZenonT(60)
<1> QED BY <1>4, FS_CardinalityType

LEMMA ValuePublish == ASSUME ValueInv, PublishADC PROVE Values' /\ SendsFit'
<1> DEFINE d == [tasks EXCEPT !.ready = Tail(@)]
<1>1. /\ tasks.ready # <<>> /\ Head(tasks.ready) = "send_task" /\ tasks' = Create(d, "send_task")
      /\ UNCHANGED <<state, event, endpoint, sock, nextSock, mqtt, online, wdt, network>>
      /\ subInit' = TRUE /\ phase' = "act"
  BY DEF PublishADC
<1>2. Queued(tasks, "send_task")
  <2>1. 1 \in DOMAIN tasks.ready /\ tasks.ready[1] = "send_task"
    BY <1>1 DEF ValueInv, TaskInv, LinkedOnce
  <2> QED BY <2>1 DEF Queued
<1>3. LinkedOnce(d)
  BY <1>1, Taking DEF ValueInv, TaskInv
<1> HIDE DEF d
<1>4. ~Queued(tasks', "send_task")
  BY <1>1, <1>3, Queueing DEF Timers
<1>5. state = "SENDING"
  BY <1>2, QueuedIsSending DEF ValueInv
<1>6. SendsFit'
  BY <1>1, <1>4, <1>5 DEF SendsFit
<1>7. PICK accepted \in SUBSET {"publish", "subscribe"} :
        /\ budget' = budget \/ Fault("mute")
        /\ \/ sockets' = Send(sock, Cardinality(accepted))
           \/ /\ Connected(sock)
              /\ sockets' = [Send(sock, Cardinality(accepted)) EXCEPT ![sock].link = "dead"]
        /\ broker' \in {broker, "none", "subscribed", "published"}
  BY DEF PublishADC
<1> DEFINE sent == Send(sock, Cardinality(accepted))
<1>8. Cardinality(accepted) \in 0 .. 2
  BY TwoPackets
<1>9. sent \in SocketFunctions
  <2>1. sockets \in SocketFunctions /\ \A s \in SocketIds : sockets[s].sends \in Nat
    BY DEF ValueInv, Values, SocketFunctions, SocketRecord
  <2>2. sock \in SocketIds => sockets[sock].sends + Cardinality(accepted) <= MaxSends
    BY <1>2, <1>8, <2>1, CloudAssumption DEF ValueInv, SendsFit
  <2> QED BY <1>8, <2>1, <2>2, Sending
<1> HIDE DEF sent
<1>10. sockets' \in SocketFunctions
  <2>1. Connected(sock) => sock \in SocketIds
    BY DEF Connected, IsUsed
  <2> QED BY <1>7, <1>9, <2>1, Relinking DEF sent, Links
<1>11. budget' \in 0 .. Budget
  BY <1>7, FaultTyped DEF ValueInv, Values
<1>12. broker' \in {"none", "connect", "session", "published", "subscribed"}
  BY <1>7 DEF ValueInv, Values
<1>13. Values'
  BY <1>1, <1>10, <1>11, <1>12 DEF ValueInv, Values, SocketFunctions, network
<1> QED BY <1>6, <1>13

(* What the handlers do to the sockets: a fresh one on the way to TLS, one  *)
(* packet more on the way to MQTT.                                         *)
LEMMA ValueTakeEvent == ASSUME ValueInv, TakeEvent PROVE Values' /\ SendsFit'
<1> DEFINE from == IF event = Fail THEN ErrorHandler(state) ELSE state
           stopped == IF event = Fail /\ state = "SENDING"
                        THEN Delete(LedTasks, "send_task") ELSE LedTasks
<1>1. /\ tasks' = IF from \in {"MQTT", "SENDING"} THEN Create(stopped, "send_task") ELSE stopped
      /\ Handler(from) /\ phase' = "poll" /\ UNCHANGED <<subInit, wdt>>
      /\ online' = IF state = "WAIT_FOR_INTERNET" THEN event = Success ELSE online
  BY DEF TakeEvent
<1>2. Queued(tasks', "send_task") => Queued(tasks, "send_task")
  <2>1. LinkedOnce(LedTasks) /\ (Queued(LedTasks, "send_task") => Queued(tasks, "send_task"))
    BY Creating, Queueing DEF LedTasks, ValueInv, TaskInv, Timers
  <2> HIDE DEF from
  <2>2. LinkedOnce(stopped) /\ (Queued(stopped, "send_task") => Queued(tasks, "send_task"))
    BY <2>1, Deleting, Queueing DEF Timers
  <2> HIDE DEF stopped
  <2> QED BY <1>1, <2>2, Queueing DEF Timers
<1>3. from = "TLS_CONNECT" => state = "TLS_CONNECT"
  BY DEF ErrorHandler
<1> HIDE DEF from, stopped
<1>4. online' \in BOOLEAN
  BY <1>1, Zenon DEF ValueInv, Values
<1>5. sockets \in SocketFunctions /\ \A s \in SocketIds : sockets[s].sends \in Nat
  BY DEF ValueInv, Values, SocketFunctions, SocketRecord
<1>6. CASE WifiConnect \/ WaitForInternet \/ RequestDns \/ StartSending
  <2>1. budget' \in 0 .. Budget
    BY <1>6, FaultTyped DEF WifiConnect, WaitForInternet, RequestDns, StartSending, ValueInv, Values
  <2>2. UNCHANGED <<sock, nextSock, sockets, mqtt, broker>> /\ state' \in States \ {"TLS_CONNECT"}
    BY <1>6 DEF WifiConnect, WaitForInternet, RequestDns, StartSending, driver, States
  <2>3. event' \in {None, Success, Fail} /\ (endpoint' = FALSE \/ endpoint' = endpoint)
    BY <1>6 DEF WifiConnect, WaitForInternet, RequestDns, StartSending, driver
  <2>4. wifi' \in {"down", "joining", "up"} /\ pings' \in Nat /\ lookups' \in Nat
    BY <1>6 DEF WifiConnect, WaitForInternet, RequestDns, StartSending, network, ValueInv, Values
  <2>e. endpoint' \in BOOLEAN
    BY <2>3, Zenon DEF ValueInv, Values
  <2>5. Values'
    BY <1>1, <1>4, <2>1, <2>2, <2>3, <2>4, <2>e DEF ValueInv, Values
  <2>6. SendsFit'
    BY <1>2, <2>2 DEF ValueInv, SendsFit
  <2> QED BY <2>5, <2>6
<1>7. CASE TlsConnect
  <2>1. sock' = NoSocket \/ sock' \in SocketIds
    BY <1>7, FreeSocketUnused DEF TlsConnect, ValueInv, Values
  <2>2. /\ state' = "TLS_CONNECT" /\ broker' = "none" /\ event' \in {None, Success, Fail}
        /\ UNCHANGED <<endpoint, mqtt, network>>
    BY <1>7 DEF TlsConnect
  <2>3. budget' \in 0 .. Budget
    BY <1>7, FaultTyped DEF TlsConnect, ValueInv, Values
  <2>4. nextSock' \in SocketIds
    BY <1>7, <2>1, CloudAssumption DEF TlsConnect, ValueInv, Values, SocketIds, NoSocket
  <2>5. \/ sock' = NoSocket /\ sockets' = sockets
        \/ /\ sock' \in SocketIds
           /\ \E link \in Links : sockets' = [sockets EXCEPT ![sock'] = Socket(link)]
    BY <1>7, <2>1 DEF TlsConnect, Links
  <2>6. /\ sockets' \in SocketFunctions /\ NoMoreSends(sockets, sockets')
        /\ sock' # NoSocket => sockets'[sock'].sends = 0
    <3>1. CASE sock' = NoSocket /\ sockets' = sockets
      BY <1>5, <3>1, Same
    <3>2. ASSUME NEW link \in Links, sock' \in SocketIds,
                 sockets' = [sockets EXCEPT ![sock'] = Socket(link)]
          PROVE  /\ sockets' \in SocketFunctions /\ NoMoreSends(sockets, sockets')
                 /\ sockets'[sock'].sends = 0
      <4>1. sockets' \in SocketFunctions /\ NoMoreSends(sockets, sockets')
        BY <1>5, <3>2, Replacing
      <4>2. sockets'[sock'] = Socket(link)
        BY <1>5, <3>2 DEF SocketFunctions
      <4> QED BY <4>1, <4>2, FreshSocket
    <3> QED BY <2>5, <3>1, <3>2
  <2>7. Values'
    BY <1>1, <1>4, <2>1, <2>2, <2>3, <2>4, <2>6
       DEF ValueInv, Values, SocketFunctions, States, network
  <2>8. SendsFit'
    <3>1. \A s \in SocketIds : sockets'[s].sends \in Nat /\ sockets'[s].sends <= sockets[s].sends
      BY <2>6 DEF SocketFunctions, SocketRecord, NoMoreSends
    <3> QED BY <1>2, <1>5, <2>6, <3>1, CloudAssumption DEF ValueInv, SendsFit
  <2> QED BY <2>7, <2>8
<1>8. CASE from = "TLS_CONNECT" /\ MqttConnect
  <2>1. ~Queued(tasks', "send_task")
    BY <1>2, <1>3, <1>8, QueuedIsSending DEF ValueInv
  <2>2. /\ state' = "MQTT" /\ mqtt' = "CONNECTING" /\ event' = None
        /\ UNCHANGED <<endpoint, sock, nextSock, network>>
        /\ sockets' = Send(sock, 1) \/ sockets' = sockets
        /\ broker' \in {broker, "connect"}
    BY <1>8 DEF MqttConnect
  <2>3. budget' \in 0 .. Budget
    BY <1>8, FaultTyped DEF MqttConnect, ValueInv, Values
  <2>4. sockets' \in SocketFunctions
    <3>1. sock \in SocketIds => sockets[sock].sends + 1 <= MaxSends
      BY <1>3, <1>8, CloudAssumption DEF ValueInv, SendsFit, SocketIds, NoSocket
    <3> QED BY <1>5, <2>2, <3>1, Sending
  <2>5. Values'
    BY <1>1, <1>4, <2>2, <2>3, <2>4 DEF ValueInv, Values, SocketFunctions, States, network
  <2>6. SendsFit'
    BY <2>1, <2>2 DEF SendsFit
  <2> QED BY <2>5, <2>6
<1> QED BY <1>1, <1>6, <1>7, <1>8 DEF Handler

LEMMA ValueNext == ASSUME ValueInv, [Next]_vars PROVE ValueInv'
<1>1. TaskInv'
  BY TaskNext DEF ValueInv
<1>2. ASSUME NEW t \in tasks.waiting, Expire(t) PROVE Values' /\ SendsFit'
  BY <1>2, ValueExpire DEF ValueInv, TaskInv, LinkedOnce
<1>3. ASSUME Answer PROVE Values' /\ SendsFit'
  BY <1>3, ValuePingReply, ValueDnsReply, ValueReceivePacket, ValueGetAddress, ValueConnectReply,
     ValueReceiveError DEF Answer
<1>4. ASSUME Loop PROVE Values' /\ SendsFit'
  BY <1>4, ValueIdle, ValueToggle, ValuePublish, ValueTakeEvent DEF Loop
<1>5. Values' /\ SendsFit'
  BY <1>2, <1>3, <1>4, ValueSendReply, ValueLoseWifi, ValueGetAddress, ValuePeerCloses, ValueIdle
     DEF Next, Sent
<1> QED BY <1>1, <1>5 DEF ValueInv

(* The inductive invariant of the values: the timers are linked once, every *)
(* variable has its type and the reports of sends have room.               *)
THEOREM ValuesTyped == Spec => []ValueInv
<1> QED BY ValueInit, ValueNext, PTL DEF Spec

(* Every variable has its type for any number of sockets and failures, no   *)
(* timer is linked twice (timeout.c), and the chip never owes more than     *)
(* MaxSends replies: each publish is preceded by those of the last one.     *)
THEOREM CloudTypes == Spec => []TypeOK
<1>1. ValueInv => TypeOK
  <2> SUFFICES ASSUME ValueInv PROVE TypeOK
    OBVIOUS
  <2>1. Values /\ LinkedOnce(tasks)
    BY DEF ValueInv, TaskInv
  <2>2. /\ tasks.waiting \subseteq Timers /\ tasks.ready \in Seq(Timers)
        /\ IsInjective(tasks.ready)
    BY <2>1, Zenon DEF LinkedOnce, IsInjective
  <2>3. ToSet(tasks.ready) \subseteq Timers \ tasks.waiting
    BY <2>1, <2>2 DEF LinkedOnce, ToSet
  <2> QED BY <2>1, <2>2, <2>3 DEF TypeOK
<1> QED BY <1>1, ValuesTyped, PTL

-----------------------------------------------------------------------------
(* One connection at a time                                                *)

(* A socket that no packet and no answer is due for.                       *)
AtRest(s) == sockets[s] \in {Socket("free"), Socket("open")}

(* The last event agrees with the Wi-Fi: a loss is not overtaken by an     *)
(* older success, unless the lease is renewed.                             *)
WifiAgrees ==
  /\ state = "INIT" => wifi = "down" /\ event = Success
  /\ wifi = "joining" => state = "WIFI_CONNECT" /\ event # Success
  /\ wifi = "down" /\ event = Success => state = "INIT"
  /\ wifi = "down" /\ state \in {"MQTT", "SENDING"} => event = Fail

(* An answer is owed to the state that asked for it, and to no later one.  *)
AnswersOwed ==
  /\ pings # 0 => /\ state = "WAIT_FOR_INTERNET"
                  /\ wifi = "up" => pings = 1 /\ event = None
  /\ lookups # 0 => /\ state = "DNS_REQUEST"
                    /\ wifi = "up" => lookups = 1 /\ event = None

OthersAtRest == \A s \in SocketIds \ {sock} : AtRest(s)

OwnSocket ==
  /\ state \in {"INIT", "WIFI_CONNECT", "WAIT_FOR_INTERNET", "DNS_REQUEST"} =>
       sock = NoSocket \/ sockets[sock] = Socket("free")
  /\ state = "TLS_CONNECT" /\ event = None =>
       sock \in SocketIds /\ sockets[sock] \in {Socket("connecting"), Socket("nowhere")}
  /\ state = "TLS_CONNECT" /\ event = Success =>
       sock \in SocketIds /\ sockets[sock].link \in {"connected", "dead"}
  /\ state = "TLS_CONNECT" /\ event = Fail => sock = NoSocket \/ AtRest(sock)
  /\ state \in {"MQTT", "SENDING"} => sock \in SocketIds
  /\ state \in {"MQTT", "SENDING"} /\ event = Fail => sockets[sock] = Socket("free")
  /\ state \in {"MQTT", "SENDING"} /\ event # Fail =>
       sockets[sock].link \in {"connected", "dead"}

BrokerKnows ==
  /\ state = "TLS_CONNECT" => broker = "none"
  /\ state = "MQTT" /\ event = None => broker \in {"none", "connect"}
  /\ state = "MQTT" /\ event = Success /\ Connected(sock) => broker = "session"
  /\ state = "SENDING" /\ Connected(sock) => broker \in {"session", "published", "subscribed"}

Orderly == AnswersOwed /\ OthersAtRest /\ OwnSocket /\ BrokerKnows

(* A loss of the Wi-Fi while the chip connects leaves its answer behind:   *)
(* from then on attempts follow each other until the reset of the board.   *)
Astray == /\ state = "TLS_CONNECT" /\ wifi = "down" /\ event # Success
          /\ "TLS_CONNECT" \in DropStates

SessionInv == WifiAgrees /\ (Orderly \/ Astray)

USE DEF None, Success, Fail

LEMMA Resting ==
  ASSUME NEW s, AtRest(s)
  PROVE  /\ sockets[s].sends = 0 /\ sockets[s].recv = FALSE
         /\ sockets[s].link \in {"free", "open"}
  BY DEF AtRest, Socket

LEMMA NoSocketIsNone == NoSocket \notin SocketIds
  BY CloudAssumption DEF NoSocket, SocketIds

LEMMA ClosedInInit ==
  ASSUME Values, SessionInv, state = "INIT"
  PROVE  /\ pings = 0 /\ lookups = 0
         /\ \A s \in SocketIds : AtRest(s)
<1>1. Orderly
  BY DEF SessionInv, Astray
<1>2. pings = 0 /\ lookups = 0
  BY <1>1 DEF Orderly, AnswersOwed
<1>3. ASSUME NEW s \in SocketIds PROVE AtRest(s)
  BY <1>1, NoSocketIsNone DEF Orderly, OthersAtRest, OwnSocket, AtRest
<1> QED BY <1>2, <1>3

(* In a state that is neither TLS_CONNECT, MQTT nor SENDING no socket is   *)
(* due for anything; in the three only the firmware's own is.              *)
LEMMA OnlyOwnSocket ==
  ASSUME Values, Orderly, NEW s \in SocketIds, ~AtRest(s)
  PROVE  s = sock /\ state \in {"TLS_CONNECT", "MQTT", "SENDING"}
<1>1. s = sock
  BY DEF Orderly, OthersAtRest
<1>2. sockets[sock] # Socket("free") /\ sock # NoSocket
  BY <1>1, NoSocketIsNone DEF AtRest
<1> QED BY <1>1, <1>2 DEF Orderly, OwnSocket, Values, States

LEMMA StartsOrderly ==
  ASSUME /\ state = "INIT" /\ event = Success /\ sock = NoSocket
         /\ sockets = [s \in SocketIds |-> Socket("free")]
         /\ wifi = "down" /\ pings = 0 /\ lookups = 0 /\ broker = "none"
  PROVE  SessionInv
<1>1. WifiAgrees
  BY DEF WifiAgrees
<1>2. Orderly
  BY DEF Orderly, AnswersOwed, OthersAtRest, OwnSocket, BrokerKnows, AtRest
<1> QED BY <1>1, <1>2 DEF SessionInv

LEMMA SessionGetAddress ==
  ASSUME Values, "renew" \notin Faults, SessionInv, GetAddress
  PROVE  SessionInv'
<1>1. wifi = "joining" /\ wifi' = "up" /\ event' = Success
  BY DEF GetAddress, Fault
<1>2. state = "WIFI_CONNECT" /\ Orderly
  BY <1>1 DEF SessionInv, WifiAgrees, Astray
<1>3. UNCHANGED <<state, sock, sockets, broker, pings, lookups>>
  BY DEF GetAddress, machine, driver
<1>4. WifiAgrees'
  BY <1>1, <1>2, <1>3 DEF WifiAgrees
<1>5. Orderly'
  BY <1>1, <1>2, <1>3 DEF Orderly, AnswersOwed, OthersAtRest, OwnSocket, BrokerKnows, AtRest
<1> QED BY <1>4, <1>5 DEF SessionInv

LEMMA SessionLoseWifi == ASSUME Values, SessionInv, LoseWifi PROVE SessionInv'
<1>1. /\ wifi' = "down" /\ event' = Fail /\ sockets' = Close(sock) /\ broker' = "none"
      /\ UNCHANGED <<state, sock, pings, lookups>>
      /\ wifi = "joining" \/ (wifi = "up" /\ state \in DropStates)
  BY DEF LoseWifi, machine
<1>2. state # "INIT" /\ Orderly
  BY <1>1 DEF SessionInv, WifiAgrees, Astray
<1>3. WifiAgrees'
  BY <1>1, <1>2 DEF WifiAgrees
<1>4. AnswersOwed'
  BY <1>1, <1>2 DEF Orderly, AnswersOwed
<1>5. CASE state = "TLS_CONNECT"
  BY <1>1, <1>3, <1>5 DEF SessionInv, WifiAgrees, Astray
<1>6. CASE state # "TLS_CONNECT"
  <2>1. sock # NoSocket => sock \in SocketIds /\ sockets'[sock] = Socket("free")
    <3>1. CASE IsUsed(sock)
      <4>1. sockets[sock].link \notin {"connecting", "nowhere"} /\ sock \in SocketIds
        <5>1. sock \in SocketIds /\ sockets[sock] # Socket("free")
          BY <3>1 DEF IsUsed, Socket
        <5>2. state \in {"MQTT", "SENDING"}
          BY <1>2, <1>6, <5>1, NoSocketIsNone DEF Orderly, OwnSocket, Values, States
        <5> QED BY <1>2, <5>1, <5>2 DEF Orderly, OwnSocket
      <4> QED BY <1>1, <3>1, <4>1 DEF Close, Values
    <3>2. CASE ~IsUsed(sock) /\ sock # NoSocket
      <4>1. sockets[sock] = Socket("free") /\ sock \in SocketIds
        BY <1>2, <1>6, <3>2 DEF IsUsed, Orderly, OwnSocket, Values, States
      <4> QED BY <1>1, <3>2, <4>1 DEF Close
    <3> QED BY <3>1, <3>2
  <2>2. OthersAtRest'
    BY <1>1, <1>2, Zenon DEF Orderly, OthersAtRest, AtRest, Close, Values
  <2>3. OwnSocket'
    BY <1>1, <1>2, <1>6, <2>1, NoSocketIsNone DEF Orderly, OwnSocket
  <2>c. ~Connected(sock)'
    BY <1>1, <2>1, NoSocketIsNone DEF Connected, IsUsed, Socket
  <2>4. BrokerKnows'
    BY <1>1, <1>6, <2>c DEF BrokerKnows
  <2> QED BY <1>3, <1>4, <2>2, <2>3, <2>4 DEF SessionInv, Orderly
<1> QED BY <1>5, <1>6

LEMMA SessionPingReply == ASSUME Values, SessionInv, PingReply PROVE SessionInv'
<1>1. /\ pings > 0 /\ pings' = pings - 1 /\ UNCHANGED <<state, sock, sockets, lookups, wifi, broker>>
      /\ \/ wifi = "up" /\ event' = Success
         \/ event' = Fail
         \/ event' = event
  BY DEF PingReply, FailsFor, machine, driver
<1>2. pings \in Nat /\ event \in {None, Success, Fail}
  BY DEF Values
<1>3. state # "INIT"
  BY <1>1, <1>2, ClosedInInit
<1>4. WifiAgrees'
  <2>1. state = "WAIT_FOR_INTERNET" \/ Astray
    BY <1>1, <1>2 DEF SessionInv, Orderly, AnswersOwed
  <2> QED BY <1>1, <1>3, <2>1 DEF SessionInv, WifiAgrees, Astray
<1>5. CASE Orderly
  <2>1. state = "WAIT_FOR_INTERNET" /\ (wifi = "up" => pings = 1)
    BY <1>1, <1>2, <1>5 DEF Orderly, AnswersOwed
  <2>2. lookups = 0
    BY <1>5, <2>1 DEF Orderly, AnswersOwed
  <2>3. AnswersOwed'
    BY <1>1, <1>2, <2>1, <2>2 DEF AnswersOwed
  <2>4. OthersAtRest' /\ OwnSocket' /\ BrokerKnows'
    BY <1>1, <1>5, <2>1 DEF Orderly, OthersAtRest, OwnSocket, BrokerKnows, AtRest
  <2> QED BY <1>4, <2>3, <2>4 DEF SessionInv, Orderly
<1>6. CASE Astray
  BY <1>1, <1>4, <1>6 DEF SessionInv, Astray
<1> QED BY <1>5, <1>6 DEF SessionInv

LEMMA SessionDnsReply == ASSUME Values, SessionInv, DnsReply PROVE SessionInv'
<1>1. /\ lookups > 0 /\ lookups' = lookups - 1
      /\ UNCHANGED <<state, sock, sockets, pings, wifi, broker>>
      /\ \/ wifi = "up" /\ event' = Success
         \/ event' = Fail
  BY DEF DnsReply, FailsFor, machine
<1>2. lookups \in Nat
  BY DEF Values
<1>3. state # "INIT"
  BY <1>1, <1>2, ClosedInInit
<1>4. WifiAgrees'
  BY <1>1, <1>3 DEF SessionInv, WifiAgrees
<1>5. CASE Orderly
  <2>1. state = "DNS_REQUEST" /\ (wifi = "up" => lookups = 1)
    BY <1>1, <1>2, <1>5 DEF Orderly, AnswersOwed
  <2>2. pings = 0
    BY <1>5, <2>1 DEF Orderly, AnswersOwed
  <2>3. AnswersOwed'
    BY <1>1, <1>2, <2>1, <2>2 DEF AnswersOwed
  <2>4. OthersAtRest' /\ OwnSocket' /\ BrokerKnows'
    BY <1>1, <1>5, <2>1 DEF Orderly, OthersAtRest, OwnSocket, BrokerKnows, AtRest
  <2> QED BY <1>4, <2>3, <2>4 DEF SessionInv, Orderly
<1>6. CASE Astray
  BY <1>1, <1>4, <1>6 DEF SessionInv, Astray
<1> QED BY <1>5, <1>6 DEF SessionInv

LEMMA SessionConnectReply ==
  ASSUME Values, SessionInv, NEW s \in SocketIds, ConnectReply(s)
  PROVE  SessionInv'
<1>1. /\ UNCHANGED <<state, sock, pings, lookups, wifi, broker>>
      /\ \/ /\ wifi = "up" /\ sockets[s].link = "connecting" /\ event' = Success
            /\ sockets' = [sockets EXCEPT ![s].link = "connected"]
         \/ /\ sockets[s].link \in {"connecting", "nowhere", "stale"} /\ event' = Fail
            /\ sockets' = [sockets EXCEPT ![s] = Socket("free")]
  BY DEF ConnectReply, machine, network
<1>2. ~AtRest(s)
  BY <1>1, Resting
<1>3. state # "INIT"
  BY <1>2, ClosedInInit
<1>4. WifiAgrees'
  BY <1>1, <1>3 DEF SessionInv, WifiAgrees
<1>5. CASE Orderly
  <2>1. s = sock /\ state \in {"TLS_CONNECT", "MQTT", "SENDING"}
    BY <1>2, <1>5, OnlyOwnSocket
  <2>2. state = "TLS_CONNECT"
    BY <1>1, <1>5, <2>1 DEF Orderly, OwnSocket, Socket
  <2>3. AnswersOwed'
    BY <1>1, <1>5, <2>2 DEF Orderly, AnswersOwed
  <2>4. OthersAtRest'
    BY <1>1, <1>5, <2>1 DEF Orderly, OthersAtRest, AtRest, Values
  <2>5. \/ event' = Success /\ sockets'[s].link = "connected"
        \/ event' = Fail /\ sockets'[s] = Socket("free")
    BY <1>1 DEF Values, SocketRecord
  <2>6. OwnSocket' /\ BrokerKnows'
    BY <1>1, <1>5, <2>1, <2>2, <2>5 DEF Orderly, OwnSocket, BrokerKnows, AtRest
  <2> QED BY <1>4, <2>3, <2>4, <2>6 DEF SessionInv, Orderly
<1>6. CASE Astray
  BY <1>1, <1>4, <1>6 DEF SessionInv, Astray
<1> QED BY <1>5, <1>6 DEF SessionInv

(* The chip has sent what is only the firmware's own socket to send.       *)
LEMMA SessionSendReply ==
  ASSUME Values, SessionInv, NEW s \in SocketIds, SendReply(s)
  PROVE  SessionInv'
<1> DEFINE fewer == [sockets EXCEPT ![s].sends = @ - 1]
<1>1. /\ UNCHANGED <<state, event, sock, pings, lookups, wifi, broker>>
      /\ sockets[s].sends > 0
      /\ sockets' = IF IsUsed(sock) THEN [fewer EXCEPT ![sock].recv = TRUE] ELSE fewer
  BY DEF SendReply, machine, network
<1> HIDE DEF fewer
<1>2. ~AtRest(s)
  <2>1. sockets[s].sends > 0 /\ sockets[s].sends \in 0 .. MaxSends
    BY <1>1 DEF Values, SocketRecord
  <2>2. sockets[s].sends # 0
    BY <2>1, CloudAssumption
  <2> QED BY <2>2, Resting
<1>3. CASE Orderly
  <2>1. s = sock /\ state \in {"TLS_CONNECT", "MQTT", "SENDING"}
    BY <1>2, <1>3, OnlyOwnSocket
  <2>2. \A t \in SocketIds : fewer[t].link = sockets[t].link /\ (t # s => fewer[t] = sockets[t])
    BY DEF Values, SocketRecord, fewer
  <2>3. fewer \in [SocketIds -> [link : Links, sends : Int, recv : BOOLEAN]]
    BY DEF Values, SocketRecord, fewer
  <2>4. \A t \in SocketIds : /\ sockets'[t].link = sockets[t].link
                             /\ t # s => sockets'[t] = sockets[t]
    BY <1>1, <2>1, <2>2, <2>3
  <2>5. OthersAtRest'
    BY <1>1, <1>3, <2>1, <2>4 DEF Orderly, OthersAtRest, AtRest
  <2>6. event # Fail /\ sockets[sock].link \in {"connected", "dead"}
    <3>1. sockets[sock] \notin {Socket("free"), Socket("open"), Socket("connecting"), Socket("nowhere")}
      BY <1>1, <2>1 DEF Socket
    <3> QED BY <1>3, <2>1, <3>1, NoSocketIsNone DEF Orderly, OwnSocket, AtRest, Values
  <2>7. OwnSocket'
    BY <1>1, <1>3, <2>1, <2>4, <2>6, NoSocketIsNone DEF Orderly, OwnSocket, Socket, Values
  <2>8. Connected(sock)' <=> Connected(sock)
    BY <1>1, <2>4 DEF Connected, IsUsed
  <2>9. BrokerKnows' /\ AnswersOwed' /\ WifiAgrees'
    BY <1>1, <1>3, <2>8 DEF Orderly, BrokerKnows, AnswersOwed, WifiAgrees, SessionInv
  <2> QED BY <2>5, <2>7, <2>9 DEF SessionInv, Orderly
<1>4. CASE Astray
  BY <1>1, <1>4 DEF SessionInv, Astray, WifiAgrees
<1> QED BY <1>3, <1>4 DEF SessionInv

LEMMA SessionReceivePacket == ASSUME Values, SessionInv, ReceivePacket PROVE SessionInv'
<1>1. /\ UNCHANGED <<state, sock, pings, lookups, wifi>>
      /\ Connected(sock) /\ wifi = "up" /\ sockets[sock].recv
      /\ sockets' = [sockets EXCEPT ![sock].recv = FALSE]
      /\ \/ broker = "connect" /\ broker' = "session" /\ event' = Success
         \/ broker = "connect" /\ broker' = "none" /\ event' = event
         \/ broker = "subscribed" /\ broker' = broker /\ event' \in {event, Success}
  BY DEF ReceivePacket, machine, network
<1>2. Orderly /\ sock \in SocketIds /\ sockets[sock].link = "connected"
  BY <1>1 DEF SessionInv, Astray, Connected, IsUsed
<1>3. ~AtRest(sock)
  BY <1>2, Resting
<1>4. state \in {"MQTT", "SENDING"}
  BY <1>1, <1>2, <1>3, OnlyOwnSocket DEF Orderly, BrokerKnows
<1>5. event # Fail
  BY <1>2, <1>4 DEF Orderly, OwnSocket, Socket
<1>6. \A t \in SocketIds : /\ sockets'[t].link = sockets[t].link
                           /\ t # sock => sockets'[t] = sockets[t]
  BY <1>1 DEF Values, SocketRecord
<1>7. OthersAtRest' /\ AnswersOwed' /\ WifiAgrees'
  BY <1>1, <1>2, <1>4, <1>6 DEF Orderly, OthersAtRest, AtRest, AnswersOwed, WifiAgrees, SessionInv
<1>8. OwnSocket'
  BY <1>1, <1>2, <1>4, <1>5, <1>6 DEF Orderly, OwnSocket
<1>9. BrokerKnows'
  BY <1>1, <1>2, <1>4, <1>5 DEF Orderly, BrokerKnows, Values
<1> QED BY <1>7, <1>8, <1>9 DEF SessionInv, Orderly

LEMMA SessionReceiveError ==
  ASSUME Values, SessionInv, NEW s \in SocketIds, ReceiveError(s)
  PROVE  SessionInv'
<1>1. /\ UNCHANGED <<state, sock, pings, lookups, wifi>>
      /\ IsUsed(s) /\ sockets[s].recv
      /\ sockets' = Close(s) /\ broker' \in {broker, "none"} /\ event' = Fail
      /\ s = sock => broker' = "none"
  BY DEF ReceiveError, BrokerWithout, machine, network
<1>2. ~AtRest(s)
  BY <1>1, Resting
<1>3. state # "INIT"
  BY <1>2, ClosedInInit
<1>4. WifiAgrees'
  BY <1>1, <1>3 DEF SessionInv, WifiAgrees
<1>5. CASE Orderly
  <2>1. s = sock /\ state \in {"TLS_CONNECT", "MQTT", "SENDING"}
    BY <1>2, <1>5, OnlyOwnSocket
  <2>2. sockets[s] \notin {Socket("free"), Socket("open"), Socket("connecting"), Socket("nowhere")}
    BY <1>1 DEF Socket
  <2>3. sockets[s].link \in {"connected", "dead"} /\ event # Fail
    BY <1>5, <2>1, <2>2, NoSocketIsNone DEF Orderly, OwnSocket, AtRest, Values
  <2>4. sockets' = [sockets EXCEPT ![s] = Socket("free")]
    BY <1>1, <2>3 DEF Close
  <2>5. sockets'[sock] = Socket("free") /\ OthersAtRest'
    BY <1>1, <1>5, <2>1, <2>4 DEF Orderly, OthersAtRest, AtRest, Values
  <2>6. AnswersOwed'
    BY <1>1, <1>5, <2>1 DEF Orderly, AnswersOwed
  <2>7. OwnSocket'
    BY <1>1, <2>1, <2>5 DEF OwnSocket, AtRest
  <2>8. ~Connected(sock)'
    BY <1>1, <2>5 DEF Connected, IsUsed, Socket
  <2>9. BrokerKnows'
    BY <1>1, <2>1, <2>8 DEF BrokerKnows
  <2> QED BY <1>4, <2>5, <2>6, <2>7, <2>9 DEF SessionInv, Orderly
<1>6. CASE Astray
  BY <1>1, <1>4, <1>6 DEF SessionInv, Astray
<1> QED BY <1>5, <1>6 DEF SessionInv

LEMMA SessionPeerCloses ==
  ASSUME Values, SessionInv, NEW s \in SocketIds, PeerCloses(s)
  PROVE  SessionInv'
<1>1. /\ UNCHANGED <<state, event, sock, pings, lookups, wifi>>
      /\ sockets[s].link = "connected" /\ broker' \in {broker, "none"}
      /\ sockets' = [sockets EXCEPT ![s].link = "dead"]
  BY DEF PeerCloses, BrokerWithout, Connected, machine, network
<1>2. WifiAgrees'
  BY <1>1 DEF SessionInv, WifiAgrees
<1>3. CASE Orderly
  <2>1. s = sock /\ state \in {"TLS_CONNECT", "MQTT", "SENDING"}
    BY <1>1, <1>3, Resting, OnlyOwnSocket
  <2>2. /\ \A t \in SocketIds \ {s} : sockets'[t] = sockets[t]
        /\ sockets'[s].link = "dead"
    BY <1>1 DEF Values, SocketRecord
  <2>3. OthersAtRest' /\ AnswersOwed'
    BY <1>1, <1>3, <2>1, <2>2 DEF Orderly, OthersAtRest, AtRest, AnswersOwed
  <2>4. sockets[sock] \notin {Socket("free"), Socket("open"), Socket("connecting"), Socket("nowhere")}
    BY <1>1, <2>1 DEF Socket
  <2>5. event # Fail /\ sock \in SocketIds /\ (state = "TLS_CONNECT" => event = Success)
    BY <1>3, <2>1, <2>4, NoSocketIsNone DEF Orderly, OwnSocket, AtRest, Values
  <2>6. OwnSocket'
    BY <1>1, <2>1, <2>2, <2>5 DEF OwnSocket
  <2>7. ~Connected(sock)'
    BY <1>1, <2>1, <2>2 DEF Connected
  <2>8. BrokerKnows'
    BY <1>1, <1>3, <2>7 DEF Orderly, BrokerKnows
  <2> QED BY <1>2, <2>3, <2>6, <2>8 DEF SessionInv, Orderly
<1>4. CASE Astray
  BY <1>1, <1>2, <1>4 DEF SessionInv, Astray
<1> QED BY <1>3, <1>4 DEF SessionInv

LEMMA SessionIdle ==
  ASSUME SessionInv, NoCallback \/ NoEvent \/ UNCHANGED vars \/ \E t \in Timers : Expire(t)
  PROVE  SessionInv'
<1>1. UNCHANGED <<state, event, sock, sockets, pings, lookups, wifi, broker>>
  BY DEF NoCallback, NoEvent, Expire, vars, machine, driver, network
<1> QED BY <1>1 DEF SessionInv, WifiAgrees, Orderly, Astray, AnswersOwed, OthersAtRest, AtRest,
                    OwnSocket, BrokerKnows, Connected, IsUsed

LEMMA SessionToggle == ASSUME SessionInv, ToggleLed PROVE SessionInv'
<1>1. CASE Reset
  <2>1. WifiAgrees'
    BY <1>1 DEF Reset, WifiAgrees
  <2>2. AnswersOwed' /\ OthersAtRest'
    BY <1>1 DEF Reset, AnswersOwed, OthersAtRest, AtRest
  <2>3. OwnSocket' /\ BrokerKnows'
    BY <1>1 DEF Reset, OwnSocket, BrokerKnows
  <2> QED BY <2>1, <2>2, <2>3 DEF SessionInv, Orderly
<1>2. CASE UNCHANGED <<state, event, driver, network, broker>>
  <2>1. UNCHANGED <<state, event, sock, sockets, pings, lookups, wifi, broker>>
    BY <1>2 DEF driver, network
  <2> QED BY <2>1 DEF SessionInv, WifiAgrees, Orderly, Astray, AnswersOwed, OthersAtRest, AtRest,
                      OwnSocket, BrokerKnows, Connected, IsUsed
<1> QED BY <1>1, <1>2 DEF ToggleLed

(* What the firmware publishes reaches a broker that is in session.        *)
LEMMA SessionPublish == ASSUME ValueInv, SessionInv, PublishADC PROVE SessionInv'
<1>1. /\ UNCHANGED <<state, event, sock, pings, lookups, wifi>>
      /\ tasks.ready # <<>> /\ Head(tasks.ready) = "send_task"
  BY DEF PublishADC, network
<1>2. state = "SENDING"
  <2>1. 1 \in DOMAIN tasks.ready /\ tasks.ready[1] = "send_task"
    BY <1>1 DEF ValueInv, TaskInv, LinkedOnce
  <2> QED BY <2>1, QueuedIsSending DEF ValueInv, Queued
<1>3. Orderly /\ sock \in SocketIds
  BY <1>2 DEF SessionInv, Astray, Orderly, OwnSocket
<1>4. PICK accepted \in SUBSET {"publish", "subscribe"} :
        LET sent == Send(sock, Cardinality(accepted))
            reaches == Connected(sock) /\ accepted # {}
            inSession == broker \notin {"none", "connect"}
        IN  /\ sockets' = IF reaches /\ ~inSession
                            THEN [sent EXCEPT ![sock].link = "dead"] ELSE sent
            /\ broker' = IF ~reaches THEN broker
                         ELSE IF ~inSession THEN "none"
                         ELSE IF "subscribe" \in accepted THEN "subscribed"
                         ELSE IF broker = "session" THEN "published" ELSE broker
  BY DEF PublishADC
<1>5. Connected(sock) => broker \in {"session", "published", "subscribed"}
  BY <1>2, <1>3 DEF Orderly, BrokerKnows
<1>6. sockets' = Send(sock, Cardinality(accepted))
  BY <1>4, <1>5
<1>7. \A t \in SocketIds : /\ sockets'[t].link = sockets[t].link
                           /\ t # sock => sockets'[t] = sockets[t]
  BY <1>6 DEF Send, ValueInv, Values, SocketRecord
<1>8. event = Fail => sockets' = sockets
  BY <1>2, <1>3, <1>6 DEF Orderly, OwnSocket, Send, IsUsed, Socket
<1>9. OthersAtRest' /\ AnswersOwed' /\ WifiAgrees'
  BY <1>1, <1>3, <1>7 DEF Orderly, OthersAtRest, AtRest, AnswersOwed, WifiAgrees, SessionInv
<1>10. OwnSocket'
  BY <1>1, <1>2, <1>3, <1>7, <1>8 DEF Orderly, OwnSocket
<1>11. Connected(sock)' <=> Connected(sock)
  BY <1>1, <1>7 DEF Connected, IsUsed
<1>12. Connected(sock) => broker' \in {"session", "published", "subscribed"}
  BY <1>4, <1>5
<1>13. BrokerKnows'
  BY <1>1, <1>2, <1>11, <1>12 DEF BrokerKnows
<1> QED BY <1>9, <1>10, <1>13 DEF SessionInv, Orderly

(* The handler that a success, or a failure, leads to.                     *)
LEMMA HandlersOf ==
  ASSUME Values, TakeEvent
  PROVE  /\ \/ WifiConnect /\ (state = "INIT" \/ (event = Fail /\ state \in {"WIFI_CONNECT", "SENDING"}))
            \/ WaitForInternet /\ ((state = "WIFI_CONNECT" /\ event = Success)
                                     \/ (state = "WAIT_FOR_INTERNET" /\ event = Fail))
            \/ RequestDns /\ ((state = "WAIT_FOR_INTERNET" /\ event = Success)
                                \/ (state = "DNS_REQUEST" /\ event = Fail))
            \/ TlsConnect /\ ((state = "DNS_REQUEST" /\ event = Success)
                                \/ (state \in {"TLS_CONNECT", "MQTT"} /\ event = Fail))
            \/ MqttConnect /\ state = "TLS_CONNECT" /\ event = Success
            \/ StartSending /\ state \in {"MQTT", "SENDING"} /\ event = Success
<1> DEFINE from == IF event = Fail THEN ErrorHandler(state) ELSE state
<1>1. Handler(from) /\ event \in {Success, Fail}
  BY DEF TakeEvent, Values
<1>2. CASE event = Fail
  <2>1. Handler(ErrorHandler(state))
    BY <1>1, <1>2
  <2>2. CASE state = "WAIT_FOR_INTERNET"
    BY <1>2, <2>1, <2>2 DEF Handler, ErrorHandler
  <2>3. CASE state = "DNS_REQUEST"
    BY <1>2, <2>1, <2>3 DEF Handler, ErrorHandler
  <2>4. CASE state \in {"TLS_CONNECT", "MQTT"}
    BY <1>2, <2>1, <2>4 DEF Handler, ErrorHandler
  <2>5. CASE state \in {"INIT", "WIFI_CONNECT", "SENDING"}
    BY <1>2, <2>1, <2>5 DEF Handler, ErrorHandler
  <2> QED BY <2>2, <2>3, <2>4, <2>5 DEF Values, States
<1>3. CASE event = Success
  <2>1. Handler(state)
    BY <1>1, <1>3
  <2> QED BY <1>3, <2>1 DEF Handler
<1> QED BY <1>1, <1>2, <1>3

LEMMA SessionTakeEvent == ASSUME Values, SessionInv, TakeEvent PROVE SessionInv'
<1>1. CASE WifiConnect /\ (state = "INIT" \/ (event = Fail /\ state \in {"WIFI_CONNECT", "SENDING"}))
  <2>1. /\ state' = "WIFI_CONNECT" /\ UNCHANGED <<sock, sockets, pings, lookups, broker>>
        /\ \/ wifi' = "joining" /\ event' = None
           \/ wifi' = wifi /\ event' = Fail
    BY <1>1 DEF WifiConnect, driver
  <2>2. Orderly /\ (sock = NoSocket \/ sockets[sock] = Socket("free"))
    BY <1>1 DEF SessionInv, Astray, Orderly, OwnSocket
  <2>3. WifiAgrees'
    BY <2>1 DEF WifiAgrees
  <2>4. AnswersOwed' /\ OthersAtRest' /\ OwnSocket' /\ BrokerKnows'
    BY <1>1, <2>1, <2>2 DEF Orderly, AnswersOwed, OthersAtRest, AtRest, OwnSocket, BrokerKnows
  <2> QED BY <2>3, <2>4 DEF SessionInv, Orderly
<1>2. CASE WaitForInternet /\ ((state = "WIFI_CONNECT" /\ event = Success)
                                 \/ (state = "WAIT_FOR_INTERNET" /\ event = Fail))
  <2>1. /\ state' = "WAIT_FOR_INTERNET" /\ event' = None
        /\ UNCHANGED <<sock, sockets, wifi, lookups, broker>> /\ pings' \in {pings, pings + 1}
    BY <1>2 DEF WaitForInternet, driver
  <2>2. Orderly /\ (sock = NoSocket \/ sockets[sock] = Socket("free"))
    BY <1>2 DEF SessionInv, Astray, Orderly, OwnSocket
  <2>3. WifiAgrees'
    BY <1>2, <2>1 DEF SessionInv, WifiAgrees
  <2>4. lookups = 0 /\ (wifi = "up" => pings = 0)
    BY <1>2, <2>2 DEF Orderly, AnswersOwed
  <2>5. AnswersOwed'
    BY <2>1, <2>4 DEF AnswersOwed
  <2>6. OthersAtRest' /\ OwnSocket' /\ BrokerKnows'
    BY <2>1, <2>2 DEF Orderly, OthersAtRest, AtRest, OwnSocket, BrokerKnows
  <2> QED BY <2>3, <2>5, <2>6 DEF SessionInv, Orderly
<1>3. CASE RequestDns /\ ((state = "WAIT_FOR_INTERNET" /\ event = Success)
                            \/ (state = "DNS_REQUEST" /\ event = Fail))
  <2>1. /\ state' = "DNS_REQUEST" /\ UNCHANGED <<sock, sockets, wifi, pings, broker>>
        /\ \/ lookups' = lookups + 1 /\ event' = None
           \/ lookups' = lookups /\ event' = Fail
    BY <1>3 DEF RequestDns
  <2>2. Orderly /\ (sock = NoSocket \/ sockets[sock] = Socket("free"))
    BY <1>3 DEF SessionInv, Astray, Orderly, OwnSocket
  <2>3. WifiAgrees'
    BY <1>3, <2>1 DEF SessionInv, WifiAgrees
  <2>4. pings = 0
    BY <1>3, <2>2 DEF SessionInv, WifiAgrees, Orderly, AnswersOwed, Values
  <2>5. wifi = "up" => lookups = 0
    BY <1>3, <2>2 DEF Orderly, AnswersOwed
  <2>6. AnswersOwed'
    BY <2>1, <2>4, <2>5 DEF AnswersOwed
  <2>7. OthersAtRest' /\ OwnSocket' /\ BrokerKnows'
    BY <2>1, <2>2 DEF Orderly, OthersAtRest, AtRest, OwnSocket, BrokerKnows
  <2> QED BY <2>3, <2>6, <2>7 DEF SessionInv, Orderly
<1>4. CASE TlsConnect /\ ((state = "DNS_REQUEST" /\ event = Success)
                            \/ (state \in {"TLS_CONNECT", "MQTT"} /\ event = Fail))
  <2>1. sock' = NoSocket \/ (sock' \in SocketIds /\ ~IsUsed(sock'))
    BY <1>4, FreeSocketUnused DEF TlsConnect, Values
  <2>2. /\ state' = "TLS_CONNECT" /\ broker' = "none" /\ UNCHANGED <<pings, lookups, wifi>>
        /\ \/ sock' = NoSocket /\ event' = Fail /\ sockets' = sockets
           \/ /\ sock' # NoSocket /\ event' = None
              /\ \E link \in {"connecting", "nowhere"} :
                   sockets' = [sockets EXCEPT ![sock'] = Socket(link)]
           \/ /\ sock' # NoSocket /\ event' = Fail
              /\ sockets' = [sockets EXCEPT ![sock'] = Socket("open")]
    BY <1>4 DEF TlsConnect, network
  <2>3. WifiAgrees'
    BY <1>4, <2>2 DEF SessionInv, WifiAgrees
  <2>4. CASE Orderly
    <3>1. \A s \in SocketIds : AtRest(s)
      BY <1>4, <2>4, NoSocketIsNone DEF Orderly, OthersAtRest, OwnSocket, AtRest
    <3>2. pings = 0 /\ lookups = 0
      BY <1>4, <2>4 DEF SessionInv, WifiAgrees, Orderly, AnswersOwed, Values
    <3>3. AnswersOwed'
      BY <2>2, <3>2 DEF AnswersOwed
    <3>4. OthersAtRest'
      BY <2>1, <2>2, <3>1 DEF OthersAtRest, AtRest, Values
    <3>5. \/ sock' = NoSocket /\ event' = Fail
          \/ /\ sock' \in SocketIds /\ event' = None
             /\ sockets'[sock'] \in {Socket("connecting"), Socket("nowhere")}
          \/ sock' \in SocketIds /\ event' = Fail /\ sockets'[sock'] = Socket("open")
      BY <2>1, <2>2 DEF Values
    <3>6. OwnSocket' /\ BrokerKnows'
      BY <2>2, <3>5 DEF OwnSocket, BrokerKnows, AtRest
    <3> QED BY <2>3, <3>3, <3>4, <3>6 DEF SessionInv, Orderly
  <2>5. CASE Astray
    BY <2>2, <2>3, <2>5 DEF SessionInv, Astray
  <2> QED BY <2>4, <2>5 DEF SessionInv
<1>5. CASE MqttConnect /\ state = "TLS_CONNECT" /\ event = Success
  <2>1. /\ state' = "MQTT" /\ event' = None /\ UNCHANGED <<sock, pings, lookups, wifi>>
        /\ sockets' = Send(sock, 1) \/ sockets' = sockets
        /\ broker' \in {broker, "connect"}
    BY <1>5 DEF MqttConnect, network
  <2>2. /\ Orderly /\ wifi # "down" /\ sock \in SocketIds
        /\ sockets[sock].link \in {"connected", "dead"} /\ broker = "none"
    BY <1>5 DEF SessionInv, Astray, WifiAgrees, Orderly, OwnSocket, BrokerKnows
  <2>3. WifiAgrees'
    BY <1>5, <2>1, <2>2 DEF SessionInv, WifiAgrees
  <2>4. \A t \in SocketIds : /\ sockets'[t].link = sockets[t].link
                             /\ t # sock => sockets'[t] = sockets[t]
    BY <2>1 DEF Send, Values, SocketRecord
  <2>5. pings = 0 /\ lookups = 0
    BY <1>5, <2>2 DEF Orderly, AnswersOwed
  <2>6. AnswersOwed' /\ OthersAtRest' /\ OwnSocket' /\ BrokerKnows'
    BY <2>1, <2>2, <2>4, <2>5 DEF Orderly, AnswersOwed, OthersAtRest, AtRest, OwnSocket, BrokerKnows
  <2> QED BY <2>3, <2>6 DEF SessionInv, Orderly
<1>6. CASE StartSending /\ state \in {"MQTT", "SENDING"} /\ event = Success
  <2>1. /\ state' = "SENDING" /\ event' = None
        /\ UNCHANGED <<sock, sockets, pings, lookups, wifi, broker>>
    BY <1>6 DEF StartSending, driver, network
  <2>2. Orderly /\ wifi # "down" /\ wifi # "joining"
    BY <1>6 DEF SessionInv, Astray, WifiAgrees
  <2>3. WifiAgrees'
    BY <2>1, <2>2 DEF WifiAgrees
  <2>4. Connected(sock)' <=> Connected(sock)
    BY <2>1 DEF Connected, IsUsed
  <2>5. AnswersOwed' /\ OthersAtRest' /\ OwnSocket' /\ BrokerKnows'
    BY <1>6, <2>1, <2>2, <2>4
       DEF Orderly, AnswersOwed, OthersAtRest, AtRest, OwnSocket, BrokerKnows
  <2> QED BY <2>3, <2>5 DEF SessionInv, Orderly
<1> QED BY <1>1, <1>2, <1>3, <1>4, <1>5, <1>6, HandlersOf

LEMMA SessionInit == Init => SessionInv
  BY StartsOrderly DEF Init

LEMMA SessionNext ==
  ASSUME "renew" \notin Faults, ValueInv, SessionInv, [Next]_vars
  PROVE  SessionInv'
<1>1. Values
  BY DEF ValueInv
<1>2. ASSUME NEW t \in tasks.waiting, Expire(t) PROVE SessionInv'
  BY <1>2, SessionIdle DEF ValueInv, TaskInv, LinkedOnce
<1>3. ASSUME Answer PROVE SessionInv'
  BY <1>1, <1>3, SessionPingReply, SessionDnsReply, SessionReceivePacket, SessionGetAddress,
     SessionConnectReply, SessionReceiveError DEF Answer
<1>4. ASSUME Loop PROVE SessionInv'
  BY <1>1, <1>4, SessionIdle, SessionToggle, SessionPublish, SessionTakeEvent DEF Loop
<1> QED BY <1>1, <1>2, <1>3, <1>4, SessionSendReply, SessionLoseWifi, SessionGetAddress,
           SessionPeerCloses, SessionIdle DEF Next, Sent

(* The inductive invariant of the connection: each state of the machine     *)
(* finds the chip, its sockets and the broker as it expects, or waits for   *)
(* an answer that another attempt has taken.                                *)
THEOREM SessionInvariance ==
  ASSUME "renew" \notin Faults
  PROVE  Spec => []SessionInv
<1>1. ValueInv /\ SessionInv /\ [Next]_vars => SessionInv'
  BY SessionNext
<1> QED BY <1>1, SessionInit, ValuesTyped, PTL DEF Spec

(* cloud.c:61: the firmware publishes over a connection whose CONNECT was   *)
(* accepted, for every failure of the access point, the chip, the server    *)
(* and the broker, in every state, unless the lease is renewed: network.c   *)
(* reports a renewal as a success to whatever state the machine is in.      *)
THEOREM PublishesInSession ==
  ASSUME "renew" \notin Faults
  PROVE  Spec => []SendingInSession
<1>1. SessionInv => SendingInSession
  BY DEF SessionInv, Orderly, BrokerKnows, Astray, SendingInSession
<1> QED BY <1>1, SessionInvariance, PTL

(* network.c:50: no socket but the firmware's own is in use, but for those  *)
(* the chip refused to connect, unless the lease is renewed or the Wi-Fi is *)
(* lost while the chip connects: its answer then closes another socket than *)
(* the one it was for.                                                      *)
THEOREM SocketsDoNotLeak ==
  ASSUME "renew" \notin Faults, "TLS_CONNECT" \notin DropStates
  PROVE  Spec => []OnlyOneSocket
<1>1. SessionInv => OnlyOneSocket
  <2> SUFFICES ASSUME SessionInv, NEW s \in SocketIds \ {sock}, IsUsed(s)
               PROVE  sockets[s].link = "open"
    BY DEF OnlyOneSocket
  <2>1. AtRest(s)
    BY DEF SessionInv, Astray, Orderly, OthersAtRest
  <2> QED BY <2>1, Resting DEF IsUsed
<1> QED BY <1>1, SessionInvariance, PTL

-----------------------------------------------------------------------------
(* A connection that works                                                 *)

(* Whoever publishes over a live connection is owed nothing by an earlier  *)
(* attempt, and no other socket is due for anything.                       *)
LEMMA PublishingAlone ==
  ASSUME Values, SessionInv, Publishing
  PROVE  /\ Orderly /\ pings = 0 /\ lookups = 0 /\ wifi = "up"
         /\ event \in {None, Success}
         /\ sock \in SocketIds /\ sockets[sock].link = "connected"
         /\ \A s \in SocketIds \ {sock} : AtRest(s)
         /\ broker \in {"session", "published", "subscribed"}
<1>1. state = "SENDING" /\ event \in {None, Success} /\ Connected(sock)
  BY DEF Publishing, Values
<1>2. Orderly
  BY <1>1 DEF SessionInv, Astray
<1>3. pings = 0 /\ lookups = 0
  BY <1>1, <1>2 DEF Orderly, AnswersOwed
<1>4. wifi = "up"
  BY <1>1 DEF SessionInv, WifiAgrees, Values
<1>5. sock \in SocketIds /\ sockets[sock].link = "connected"
  BY <1>1 DEF Connected, IsUsed
<1> QED BY <1>1, <1>2, <1>3, <1>4, <1>5 DEF Orderly, OthersAtRest, BrokerKnows

(* The connection is kept by a step that keeps its socket linked.          *)
LEMMA PublishingStays ==
  ASSUME Publishing, UNCHANGED <<state, sock>>, event' \in {event, None, Success},
         sockets'[sock].link = sockets[sock].link
  PROVE  Publishing'
  BY DEF Publishing, Connected, IsUsed

LEMMA PublishingFault ==
  ASSUME Values, NEW kind, Fault(kind)
  PROVE  budget' < budget
  BY DEF Values, Fault

(* The answers of the chip: the only one there is left is a packet.        *)
LEMMA PublishingAnswer ==
  ASSUME Values, SessionInv, Publishing, Answer
  PROVE  Publishing'
<1>1. /\ pings = 0 /\ lookups = 0 /\ wifi = "up" /\ sock \in SocketIds
      /\ sockets[sock].link = "connected" /\ \A s \in SocketIds \ {sock} : AtRest(s)
  BY PublishingAlone
<1>2. ~PingReply /\ ~DnsReply
  BY <1>1 DEF PingReply, DnsReply
<1>3. ASSUME NEW s \in SocketIds, ConnectReply(s) PROVE FALSE
  <2>1. sockets[s].link \in {"connecting", "nowhere", "stale"}
    BY <1>3 DEF ConnectReply
  <2> QED BY <1>1, <2>1, Resting
<1>4. ASSUME NEW s \in SocketIds, ReceiveError(s) PROVE FALSE
  <2>1. sockets[s].recv /\ ~Connected(s)
    BY <1>1, <1>4 DEF ReceiveError
  <2>2. s # sock
    BY <2>1 DEF Publishing
  <2> QED BY <1>1, <2>1, <2>2, Resting
<1>5. CASE ReceivePacket
  <2>1. /\ sockets' = [sockets EXCEPT ![sock].recv = FALSE]
        /\ event' \in {event, Success} /\ UNCHANGED <<state, sock>>
    BY <1>5 DEF ReceivePacket, machine
  <2>2. sockets'[sock].link = sockets[sock].link
    BY <1>1, <2>1 DEF Values, SocketRecord
  <2> QED BY <2>1, <2>2, PublishingStays
<1> QED BY <1>1, <1>2, <1>3, <1>4, <1>5 DEF Answer

(* The turns of the superloop.                                             *)
LEMMA PublishingLoop ==
  ASSUME Values, SessionInv, Publishing, Loop
  PROVE  Publishing' \/ LedResets
<1>1. /\ event \in {None, Success} /\ sock \in SocketIds
      /\ broker \in {"session", "published", "subscribed"}
  BY PublishingAlone
<1>2. CASE NoCallback \/ NoEvent
  BY <1>2, PublishingStays DEF NoCallback, NoEvent, driver
<1>3. CASE ToggleLed
  <2>1. LedResets \/ UNCHANGED <<state, event, driver>>
    BY <1>3 DEF ToggleLed, LedResets
  <2> QED BY <2>1, PublishingStays DEF driver
<1>4. CASE PublishADC
  <2>1. PICK n : sockets' = Send(sock, n)
    BY <1>1, <1>4 DEF PublishADC
  <2>2. UNCHANGED <<state, event, sock>>
    BY <1>4 DEF PublishADC
  <2>3. sockets'[sock].link = sockets[sock].link
    BY <1>1, <2>1 DEF Send, Values, SocketRecord
  <2> QED BY <2>2, <2>3, PublishingStays
<1>5. CASE TakeEvent
  <2>1. StartSending
    BY <1>1, <1>5, HandlersOf DEF Publishing
  <2>2. state' = "SENDING" /\ event' = None /\ UNCHANGED <<sock, sockets>>
    BY <2>1 DEF StartSending, driver
  <2> QED BY <2>2, PublishingStays DEF Publishing
<1> QED BY <1>2, <1>3, <1>4, <1>5 DEF Loop

LEMMA PublishingNext ==
  ASSUME ValueInv, SessionInv, Publishing, [Next]_vars
  PROVE  Publishing' \/ budget' < budget \/ LedResets
<1>1. Values /\ sock \in SocketIds /\ wifi = "up"
  BY PublishingAlone DEF ValueInv
<1>2. ASSUME NEW s \in SocketIds, SendReply(s) PROVE Publishing'
  <2>1. UNCHANGED <<state, event, sock>>
    BY <1>2 DEF SendReply, machine
  <2>2. sockets'[sock].link = sockets[sock].link
    BY <1>1, <1>2 DEF SendReply, Values, SocketRecord
  <2> QED BY <2>1, <2>2, PublishingStays
<1>3. CASE LoseWifi \/ GetAddress
  BY <1>1, <1>3, PublishingFault DEF LoseWifi, GetAddress
<1>4. ASSUME NEW s \in SocketIds, PeerCloses(s) PROVE budget' < budget
  BY <1>1, <1>4, PublishingFault DEF PeerCloses
<1>5. ASSUME NEW t \in tasks.waiting, Expire(t) PROVE Publishing'
  BY <1>5, PublishingStays DEF Expire, machine, driver
<1>6. CASE UNCHANGED vars
  BY <1>6, PublishingStays DEF vars, machine, driver
<1> QED BY <1>1, <1>2, <1>3, <1>4, <1>5, <1>6, PublishingAnswer, PublishingLoop DEF Next, Sent

(* A connection over which the firmware publishes ends by a new failure or *)
(* by a reset of the board, for any number of sockets and failures of any  *)
(* kind but a renewed lease: whatever answers, reports and timers earlier  *)
(* attempts have left, none of them ends it.                               *)
THEOREM PublishingEndsByFailure ==
  ASSUME "renew" \notin Faults
  PROVE  Spec => KeepsPublishing
<1>1. /\ ValueInv /\ SessionInv /\ [Next]_vars
      => [Publishing => Publishing' \/ budget' < budget \/ LedResets]_vars
  BY PublishingNext
<1> QED BY <1>1, SessionInvariance, ValuesTyped, PTL DEF Spec, KeepsPublishing

-----------------------------------------------------------------------------
(* The client and the machine                                              *)

(* MQTT is left for SENDING on the broker's answer, and on nothing else.   *)
ClientAgrees ==
  /\ state = "MQTT" /\ event = Success => mqtt = "CONNECTED"
  /\ state = "SENDING" => mqtt = "CONNECTED"

(* In these states no ping, lookup or connect request is to be answered.   *)
LEMMA ClientAlone ==
  ASSUME Values, SessionInv, state \in {"MQTT", "SENDING"}
  PROVE  /\ Orderly /\ pings = 0 /\ lookups = 0 /\ wifi # "joining"
         /\ \A s \in SocketIds : sockets[s].link \notin {"connecting", "nowhere", "stale"}
<1>1. Orderly
  BY DEF SessionInv, Astray
<1>2. pings = 0 /\ lookups = 0
  BY <1>1 DEF Orderly, AnswersOwed
<1>3. wifi # "joining"
  BY DEF SessionInv, WifiAgrees
<1>4. ASSUME NEW s \in SocketIds
      PROVE  sockets[s].link \notin {"connecting", "nowhere", "stale"}
  <2>1. CASE s # sock
    <3>1. AtRest(s)
      BY <1>1, <2>1 DEF Orderly, OthersAtRest
    <3> QED BY <3>1, Resting
  <2>2. CASE s = sock
    <3>1. sockets[sock] = Socket("free") \/ sockets[sock].link \in {"connected", "dead"}
      BY <1>1 DEF Orderly, OwnSocket
    <3> QED BY <2>2, <3>1 DEF Socket
  <2> QED BY <2>1, <2>2
<1> QED BY <1>1, <1>2, <1>3, <1>4

LEMMA ClientIdle ==
  ASSUME ClientAgrees, UNCHANGED <<state, mqtt>>, event' \in {event, None, Fail}
  PROVE  ClientAgrees'
  BY DEF ClientAgrees

LEMMA ClientAnswer ==
  ASSUME "renew" \notin Faults, Values, SessionInv, ClientAgrees, Answer \/ GetAddress
  PROVE  ClientAgrees'
<1>1. ASSUME state \notin {"MQTT", "SENDING"} PROVE ClientAgrees'
  <2>1. UNCHANGED state
    BY DEF Answer, PingReply, DnsReply, ReceivePacket, GetAddress, ConnectReply, ReceiveError,
       machine
  <2> QED BY <1>1, <2>1 DEF ClientAgrees
<1>2. ASSUME state \in {"MQTT", "SENDING"} PROVE ClientAgrees'
  <2>0. /\ Orderly /\ pings = 0 /\ lookups = 0 /\ wifi # "joining"
        /\ \A s \in SocketIds : sockets[s].link \notin {"connecting", "nowhere", "stale"}
    BY <1>2, ClientAlone
  <2>1. /\ Orderly /\ ~PingReply /\ ~DnsReply /\ ~GetAddress
        /\ \A s \in SocketIds : ~ConnectReply(s)
    <3>1. ~PingReply /\ ~DnsReply
      BY <2>0 DEF PingReply, DnsReply
    <3>2. ~GetAddress
      BY <2>0 DEF GetAddress, Fault
    <3>3. ASSUME NEW s \in SocketIds, ConnectReply(s) PROVE FALSE
      <4>1. sockets[s].link \in {"connecting", "nowhere", "stale"}
        BY <3>3 DEF ConnectReply
      <4> QED BY <2>0, <4>1
    <3> QED BY <2>0, <3>1, <3>2, <3>3
  <2>2. ASSUME NEW s \in SocketIds, ReceiveError(s) PROVE ClientAgrees'
    BY <2>2, ClientIdle DEF ReceiveError, machine, client
  <2>3. CASE ReceivePacket
    <3>1. Connected(sock) /\ UNCHANGED state
      BY <2>3 DEF ReceivePacket, machine
    <3>2. CASE broker = "connect" /\ mqtt' = "CONNECTED"
      BY <3>2 DEF ClientAgrees
    <3>3. CASE broker = "connect" /\ event' = event
      <4>1. state = "MQTT" /\ event # Success
        BY <1>2, <2>1, <3>1, <3>3 DEF Orderly, BrokerKnows
      <4> QED BY <3>1, <3>3, <4>1 DEF ClientAgrees
    <3>4. CASE broker = "subscribed" /\ UNCHANGED mqtt
      <4>1. mqtt = "CONNECTED"
        <5>1. ASSUME state = "MQTT" PROVE event = Success
          <6>1. event # Fail
            BY <2>1, <3>1, <5>1 DEF Orderly, OwnSocket, Connected, Socket
          <6>2. event # None
            BY <2>1, <3>4, <5>1 DEF Orderly, BrokerKnows
          <6> QED BY <6>1, <6>2 DEF Values
        <5> QED BY <1>2, <5>1 DEF ClientAgrees
      <4> QED BY <3>4, <4>1 DEF ClientAgrees
    <3> QED BY <2>3, <3>2, <3>3, <3>4 DEF ReceivePacket
  <2> QED BY <2>1, <2>2, <2>3 DEF Answer
<1> QED BY <1>1, <1>2

LEMMA ClientLoop ==
  ASSUME Values, ClientAgrees, Loop
  PROVE  ClientAgrees'
<1>1. CASE NoCallback \/ NoEvent
  BY <1>1, ClientIdle DEF NoCallback, NoEvent, client
<1>2. CASE ToggleLed
  <2>1. state' = "INIT" \/ UNCHANGED <<state, event, mqtt>>
    BY <1>2 DEF ToggleLed, Reset, client
  <2> QED BY <2>1, ClientIdle DEF ClientAgrees
<1>3. CASE PublishADC
  BY <1>3, ClientIdle DEF PublishADC
<1>4. CASE TakeEvent
  <2>1. CASE WifiConnect \/ WaitForInternet \/ RequestDns \/ TlsConnect
    BY <2>1 DEF WifiConnect, WaitForInternet, RequestDns, TlsConnect, ClientAgrees
  <2>2. CASE MqttConnect
    BY <2>2 DEF MqttConnect, ClientAgrees
  <2>3. CASE StartSending /\ state \in {"MQTT", "SENDING"} /\ event = Success
    BY <2>3 DEF StartSending, ClientAgrees
  <2> QED BY <1>4, <2>1, <2>2, <2>3, HandlersOf
<1> QED BY <1>1, <1>2, <1>3, <1>4 DEF Loop

LEMMA ClientNext ==
  ASSUME "renew" \notin Faults, ValueInv, SessionInv, ClientAgrees, [Next]_vars
  PROVE  ClientAgrees'
<1>1. Values
  BY DEF ValueInv
<1>2. ASSUME NEW s \in SocketIds, SendReply(s) \/ PeerCloses(s) PROVE ClientAgrees'
  BY <1>2, ClientIdle DEF SendReply, PeerCloses, machine, client
<1>3. CASE LoseWifi
  BY <1>3, ClientIdle DEF LoseWifi, machine, client
<1>4. ASSUME NEW t \in tasks.waiting, Expire(t) PROVE ClientAgrees'
  BY <1>4, ClientIdle DEF Expire, machine, client
<1>5. CASE UNCHANGED vars
  BY <1>5, ClientIdle DEF vars, machine, client
<1> QED BY <1>1, <1>2, <1>3, <1>4, <1>5, ClientAnswer, ClientLoop DEF Next, Sent

(* mqtt_client.c: the client is CONNECTED whenever the machine is SENDING,  *)
(* for every failure but a renewed lease: the two keep their own states and *)
(* learn of the broker's answer in different ways.                          *)
THEOREM ClientIsConnected ==
  ASSUME "renew" \notin Faults
  PROVE  Spec => [](state = "SENDING" => mqtt = "CONNECTED")
<1>1. Init => ClientAgrees
  BY DEF Init, ClientAgrees
<1>2. ValueInv /\ SessionInv /\ ClientAgrees /\ [Next]_vars => ClientAgrees'
  BY ClientNext
<1>3. ClientAgrees => (state = "SENDING" => mqtt = "CONNECTED")
  BY DEF ClientAgrees
<1> QED BY <1>1, <1>2, <1>3, SessionInvariance, ValuesTyped, PTL DEF Spec
=============================================================================
