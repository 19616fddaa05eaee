--------------------- MODULE TimeoutSchedulerRefinement ---------------------
(***************************************************************************)
(* Proof that the timeout driver implements TimerService, for any number   *)
(* of timers, any timeouts and any counter, far from the wrap of absolute  *)
(* times and without an edge of the counter in delete's masked section:    *)
(* such an edge expires a timer early (NeverEarly), and at the wrap the    *)
(* list loses its order.                                                   *)
(***************************************************************************)
EXTENDS TimeoutSchedulerProofs

(* No absolute time wraps when no timeout is longer than `longest`.        *)
FarFromWrap(longest) ==
  /\ longest \in Nat /\ \A d \in Timeouts : d <= longest
  /\ Horizon + 2 * (RtcMax + longest) < Word
  /\ ~TickInUnlink

(***************************************************************************)
(* The invariant.  The list is sorted, so that the armed head is the first *)
(* to expire.  Elapsed is the time since `last` as make_absolute reads it  *)
(* from the counter: an overflow not yet served stops it.  Until a timer   *)
(* expires at least as many edges follow as its request is still owed.     *)
(***************************************************************************)
Elapsed == (IF ovf THEN RtcMax ELSE cnt) - load

Ascending(list) == \A i, j \in DOMAIN list : i < j => list[i].at <= list[j].at
NoneBefore(list, time) == \A i \in DOMAIN list : list[i].at >= time
NoneAfter(list, time) == \A i \in DOMAIN list : list[i].at <= time
Owed(list, now, owed) ==
  \A i \in DOMAIN list :
    list[i].timer # Dummy => owed[list[i].timer] <= list[i].at - now + 1

(* An overflow is flagged when nothing more is owed to the head.           *)
HeadDue == ovf /\ active # <<>> /\ active[1].timer # Dummy => due[active[1].timer] = 0

(* An overflow is served before delete masks the interrupt.                *)
Unflagged == active # <<>> /\ call.at = "unlink" => ~ovf

Stopped == active = <<>> => ~running /\ last = 0

(* Timers are created while `last` is below Horizon.  A create that was    *)
(* under way when an interrupt moved `last` past it is the last one until  *)
(* the list is empty and time starts at zero again.                        *)
Creating ==
  \/ call.at \in {"insert", "place"}
  \/ call.at \in {"check", "mask", "unlink"} /\ call.req.op = "create"
InReach(time) == last <= time /\ NoneAfter(active, time)
Bounded(longest) ==
  LET reach == Horizon + RtcMax + longest
  IN  \/ InReach(reach)
      \/ last >= Horizon /\ ~Creating /\ InReach(reach + RtcMax + longest)

OnTime ==
  /\ Ascending(active) /\ NoneBefore(active, last)
  /\ Owed(active, last + Elapsed, due)
  /\ HeadDue /\ Unflagged /\ Stopped

TimeInv(longest) == IInv /\ OnTime /\ Bounded(longest)

-----------------------------------------------------------------------------
(* The lists                                                               *)

Waiting(list) == LinkedIn(list) \ {Dummy}

(* Every entry of u is one of v's.                                         *)
Among(u, v) == \A i \in DOMAIN u : \E j \in DOMAIN v : u[i] = v[j]

LEMMA AmongKeeps ==
  ASSUME NEW u, NEW v, Among(u, v)
  PROVE  /\ \A time : NoneBefore(v, time) => NoneBefore(u, time)
         /\ \A time : NoneAfter(v, time) => NoneAfter(u, time)
         /\ \A now, owed : Owed(v, now, owed) => Owed(u, now, owed)
<1>1. ASSUME NEW time, NoneBefore(v, time) PROVE NoneBefore(u, time)
  BY <1>1, Zenon DEF Among, NoneBefore
<1>2. ASSUME NEW time, NoneAfter(v, time) PROVE NoneAfter(u, time)
  BY <1>2, Zenon DEF Among, NoneAfter
<1>3. ASSUME NEW now, NEW owed, Owed(v, now, owed) PROVE Owed(u, now, owed)
  BY <1>3, Zenon DEF Among, Owed
<1> QED BY <1>1, <1>2, <1>3

LEMMA EntryTime ==
  ASSUME NEW list \in Seq(Entry), NEW i \in DOMAIN list
  PROVE  /\ list[i] \in Entry /\ list[i].timer \in Timers \cup {Dummy}
         /\ list[i].at \in Nat /\ list[i].at < Word
<1>1. list[i] \in Entry
  OBVIOUS
<1> QED BY <1>1, RtcAssumption DEF Entry

LEMMA TailOfList ==
  ASSUME NEW list \in Seq(Entry), list # <<>>, Distinct(list), Ascending(list)
  PROVE  /\ Tail(list) \in Seq(Entry) /\ Among(Tail(list), list) /\ Ascending(Tail(list))
         /\ NoneBefore(Tail(list), list[1].at)
         /\ Waiting(Tail(list)) = Waiting(list) \ {list[1].timer}
         /\ 1 \in DOMAIN list
<1> DEFINE u == Tail(list)
<1>1. /\ u \in Seq(Entry) /\ DOMAIN u = 1 .. Len(list) - 1 /\ DOMAIN list = 1 .. Len(list)
      /\ \A i \in 1 .. Len(list) - 1 : u[i] = list[i + 1]
      /\ Len(list) \in Nat \ {0}
  BY TailFacts
<1> HIDE DEF u
<1>2. /\ \A i \in DOMAIN u : i \in Int /\ 1 < i + 1 /\ i + 1 \in DOMAIN list /\ u[i] = list[i + 1]
      /\ \A j \in DOMAIN list : j # 1 => j - 1 \in DOMAIN u /\ u[j - 1] = list[j]
      /\ 1 \in DOMAIN list
  BY <1>1
<1>3. Among(u, list)
  BY <1>2 DEF Among
<1>4. Ascending(u)
  BY <1>2 DEF Ascending
<1>5. NoneBefore(u, list[1].at)
  <2>1. ASSUME NEW i \in DOMAIN u PROVE u[i].at >= list[1].at
    <3>1. list[1].at <= list[i + 1].at
      BY <1>2 DEF Ascending
    <3>2. list[1].at \in Nat /\ list[i + 1].at \in Nat
      BY <1>2, EntryTime
    <3> QED BY <1>2, <3>1, <3>2
  <2> QED BY <2>1 DEF NoneBefore
<1>6. LinkedIn(u) = LinkedIn(list) \ {list[1].timer}
  <2>1. ASSUME NEW i \in DOMAIN u PROVE u[i].timer \in LinkedIn(list) \ {list[1].timer}
    BY <1>2 DEF LinkedIn, Distinct
  <2>2. ASSUME NEW j \in DOMAIN list, list[j].timer # list[1].timer
        PROVE  list[j].timer \in LinkedIn(u)
    <3>1. j # 1
      BY <2>2
    <3>2. j - 1 \in DOMAIN u /\ u[j - 1] = list[j]
      BY <1>2, <3>1
    <3> QED BY <3>2 DEF LinkedIn
  <2> QED BY <2>1, <2>2 DEF LinkedIn
<1> QED BY <1>1, <1>2, <1>3, <1>4, <1>5, <1>6 DEF u, Waiting

LEMMA RemoveFromList ==
  ASSUME NEW list \in Seq(Entry), Distinct(list), Ascending(list), NEW k \in 1 .. Len(list)
  PROVE  /\ Among(RemoveAt(list, k), list) /\ Ascending(RemoveAt(list, k))
         /\ Waiting(RemoveAt(list, k)) = Waiting(list) \ {list[k].timer}
<1> DEFINE u == RemoveAt(list, k)
           from == [i \in 1 .. Len(list) - 1 |-> IF i < k THEN i ELSE i + 1]
<1>1. /\ u \in Seq(Entry) /\ Len(u) = Len(list) - 1
      /\ \A i \in 1 .. Len(list) - 1 : u[i] = IF i < k THEN list[i] ELSE list[i + 1]
  BY RemoveAtFacts
<1>2. DOMAIN list = 1 .. Len(list) /\ Len(list) \in Nat
  OBVIOUS
<1> HIDE DEF u
<1>3. DOMAIN u = 1 .. Len(list) - 1
  BY <1>1, <1>2
<1>4. /\ \A i \in DOMAIN u : from[i] \in DOMAIN list /\ u[i] = list[from[i]] /\ from[i] # k
      /\ \A i, j \in DOMAIN u : i < j => from[i] < from[j]
      /\ \A j \in DOMAIN list : j # k => \E i \in DOMAIN u : from[i] = j
  <2>1. ASSUME NEW i \in DOMAIN u
        PROVE  from[i] \in DOMAIN list /\ u[i] = list[from[i]] /\ from[i] # k
    BY <1>1, <1>2, <1>3
  <2>2. ASSUME NEW i \in DOMAIN u, NEW j \in DOMAIN u, i < j PROVE from[i] < from[j]
    BY <1>2, <1>3, <2>2
  <2>3. ASSUME NEW j \in DOMAIN list, j # k PROVE \E i \in DOMAIN u : from[i] = j
    <3>1. CASE j < k
      <4>1. j \in DOMAIN u /\ from[j] = j
        BY <1>2, <1>3, <3>1
      <4> QED BY <4>1
    <3>2. CASE j > k
      <4>1. j - 1 \in DOMAIN u /\ from[j - 1] = j
        BY <1>2, <1>3, <3>2
      <4> QED BY <4>1
    <3> QED BY <1>2, <2>3, <3>1, <3>2
  <2> QED BY <2>1, <2>2, <2>3
<1> HIDE DEF from
<1>5. Among(u, list)
  BY <1>4 DEF Among
<1>6. Ascending(u)
  BY <1>4 DEF Ascending
<1>7. LinkedIn(u) = LinkedIn(list) \ {list[k].timer}
  <2>1. ASSUME NEW i \in DOMAIN u PROVE u[i].timer \in LinkedIn(list) \ {list[k].timer}
    BY <1>2, <1>4 DEF LinkedIn, Distinct
  <2>2. ASSUME NEW j \in DOMAIN list, list[j].timer # list[k].timer
        PROVE  list[j].timer \in LinkedIn(u)
    <3>1. PICK i \in DOMAIN u : from[i] = j
      BY <1>4, <2>2
    <3>2. u[i] = list[j]
      BY <1>4, <3>1
    <3> QED BY <3>2 DEF LinkedIn
  <2> QED BY <2>1, <2>2 DEF LinkedIn
<1> QED BY <1>5, <1>6, <1>7 DEF u, Waiting

LEMMA PutIntoList ==
  ASSUME NEW list \in Seq(Entry), Ascending(list), NEW p \in 1 .. Len(list) + 1,
         NEW e \in Entry, e.timer # Dummy,
         \A i \in 1 .. p - 1 : list[i].at <= e.at,
         p <= Len(list) => list[p].at >= e.at,
         NEW u \in Seq(Entry), Len(u) = Len(list) + 1,
         \A i \in 1 .. Len(list) + 1 :
           u[i] = IF i < p THEN list[i] ELSE IF i = p THEN e ELSE list[i - 1]
  PROVE  /\ Ascending(u) /\ Waiting(u) = Waiting(list) \cup {e.timer}
         /\ \A i \in DOMAIN u : u[i] = e \/ \E j \in DOMAIN list : u[i] = list[j]
<1>1. /\ DOMAIN list = 1 .. Len(list) /\ Len(list) \in Nat /\ DOMAIN u = 1 .. Len(list) + 1
  OBVIOUS
<1>2. /\ \A i \in DOMAIN u : i < p => i \in DOMAIN list /\ u[i] = list[i]
      /\ \A i \in DOMAIN u : i > p => i - 1 \in DOMAIN list /\ u[i] = list[i - 1] /\ i - 1 >= p
      /\ u[p] = e /\ p \in DOMAIN u
  BY <1>1
<1>3. /\ \A i \in DOMAIN list : i < p => list[i].at <= e.at
      /\ \A i \in DOMAIN list : i >= p => list[i].at >= e.at
  <2>1. ASSUME NEW i \in DOMAIN list, i >= p PROVE list[i].at >= e.at
    <3>1. p \in DOMAIN list /\ list[p].at >= e.at
      BY <1>1, <2>1
    <3>2. list[p].at <= list[i].at
      <4>1. CASE p = i
        BY <4>1, EntryTime
      <4>2. CASE p < i
        BY <3>1, <4>2 DEF Ascending
      <4> QED BY <1>1, <2>1, <4>1, <4>2
    <3>3. list[p].at \in Nat /\ list[i].at \in Nat
      BY <3>1, EntryTime
    <3>4. e.at \in Nat
      BY RtcAssumption DEF Entry
    <3> QED BY <3>1, <3>2, <3>3, <3>4
  <2> QED BY <1>1, <2>1
<1>4. Ascending(u)
  <2> SUFFICES ASSUME NEW i \in DOMAIN u, NEW j \in DOMAIN u, i < j PROVE u[i].at <= u[j].at
    BY DEF Ascending
  <2>1. CASE j < p
    BY <1>1, <1>2, <2>1 DEF Ascending
  <2>2. CASE i > p
    <3>1. /\ i - 1 \in DOMAIN list /\ u[i] = list[i - 1]
          /\ j - 1 \in DOMAIN list /\ u[j] = list[j - 1] /\ i - 1 < j - 1
      BY <1>1, <1>2, <2>2
    <3> QED BY <3>1 DEF Ascending
  <2>3. CASE i < p /\ j > p
    BY <1>1, <1>2, <2>3 DEF Ascending
  <2>4. CASE i = p
    BY <1>1, <1>2, <1>3, <2>4
  <2>5. CASE j = p
    BY <1>1, <1>2, <1>3, <2>5
  <2> QED BY <1>1, <2>1, <2>2, <2>3, <2>4, <2>5
<1>5. \A i \in DOMAIN u : u[i] = e \/ \E j \in DOMAIN list : u[i] = list[j]
  BY <1>1, <1>2
<1>6. ASSUME NEW j \in DOMAIN list PROVE \E i \in DOMAIN u : u[i] = list[j]
  <2>1. CASE j < p
    <3>1. j \in DOMAIN u /\ u[j] = list[j]
      BY <1>1, <1>2, <2>1
    <3> QED BY <3>1
  <2>2. CASE j >= p
    <3>1. j + 1 \in DOMAIN u /\ u[j + 1] = list[j]
      BY <1>1, <1>2, <2>2
    <3> QED BY <3>1
  <2> QED BY <1>1, <2>1, <2>2
<1>7. LinkedIn(u) = LinkedIn(list) \cup {e.timer}
  <2>1. ASSUME NEW i \in DOMAIN u PROVE u[i].timer \in LinkedIn(list) \cup {e.timer}
    BY <1>5 DEF LinkedIn
  <2>2. ASSUME NEW j \in DOMAIN list PROVE list[j].timer \in LinkedIn(u)
    BY <1>6, <2>2 DEF LinkedIn
  <2>3. e.timer \in LinkedIn(u)
    BY <1>2 DEF LinkedIn
  <2> QED BY <2>1, <2>2, <2>3 DEF LinkedIn
<1> QED BY <1>4, <1>5, <1>7 DEF Waiting

-----------------------------------------------------------------------------
(* The countdown.  It keeps the timers of the list and their order; the    *)
(* dummy, if there is one, comes before all of them.                       *)
LEMMA StartKeepsOrder ==
  ASSUME NEW list \in Seq(Entry), NEW base \in 0 .. Word - 1, NEW oldLoad,
         StartTimerAtHead(list, base, oldLoad), Ascending(list), NoneBefore(list, base)
  PROVE  /\ Ascending(active') /\ NoneBefore(active', base)
         /\ Waiting(active') = Waiting(list)
         /\ \A time \in Nat : NoneAfter(list, time) => NoneAfter(active', time)
         /\ \A now, owed : Owed(list, now, owed) => Owed(active', now, owed)
         /\ active' = <<>> <=> list = <<>>
<1>1. CASE active' = list
  BY <1>1
<1>2. CASE active' # list
  <2> DEFINE dummy == [timer |-> Dummy, at |-> Add(base, RtcMax)]
             u == <<dummy>> \o list
  <2>1. list # <<>> /\ Sub(list[1].at, base) > RtcMax /\ active' = u
    BY <1>2 DEF StartTimerAtHead
  <2>2. /\ RtcMax \in Nat /\ Word \in Nat \ {0} /\ base \in Nat /\ base < Word
        /\ 1 \in DOMAIN list /\ DOMAIN list = 1 .. Len(list) /\ Len(list) \in Nat
    BY <2>1, RtcAssumption
  <2>3. list[1].at \in Nat /\ list[1].at < Word /\ base <= list[1].at
    BY <2>2, EntryTime DEF NoneBefore
  <2>4. Sub(list[1].at, base) = list[1].at - base
    BY <2>2, <2>3, SMTT(60) DEF Sub
  <2>5. base + RtcMax < list[1].at
    BY <2>1, <2>2, <2>3, <2>4
  <2>6. Add(base, RtcMax) = base + RtcMax
    BY <2>2, <2>3, <2>5 DEF Add
  <2>7. /\ dummy \in Entry /\ dummy.timer = Dummy /\ dummy.at = base + RtcMax
    BY <2>2, <2>3, <2>5, <2>6 DEF Entry
  <2> HIDE DEF dummy
  <2>8. /\ u \in Seq(Entry) /\ DOMAIN u = 1 .. Len(list) + 1
        /\ \A i \in 1 .. Len(list) + 1 : u[i] = IF i = 1 THEN dummy ELSE list[i - 1]
    BY <2>7, PrefixFacts
  <2> HIDE DEF u
  <2>9. /\ \A i \in DOMAIN u : i # 1 => i - 1 \in DOMAIN list /\ u[i] = list[i - 1] /\ i > 1
        /\ \A j \in DOMAIN list : j + 1 \in DOMAIN u /\ u[j + 1] = list[j]
        /\ 1 \in DOMAIN u /\ u[1] = dummy
    BY <2>2, <2>8
  <2>10. \A i \in DOMAIN list : list[i].at \in Nat /\ list[1].at <= list[i].at
    <3> SUFFICES ASSUME NEW i \in DOMAIN list
                 PROVE  list[i].at \in Nat /\ list[1].at <= list[i].at
      OBVIOUS
    <3>1. list[i].at \in Nat
      BY EntryTime
    <3>2. i = 1 \/ 1 < i
      BY <2>2
    <3> QED BY <2>2, <2>3, <3>1, <3>2 DEF Ascending
  <2>11. Ascending(u)
    <3> SUFFICES ASSUME NEW i \in DOMAIN u, NEW j \in DOMAIN u, i < j PROVE u[i].at <= u[j].at
      BY DEF Ascending
    <3>1. j # 1 /\ j - 1 \in DOMAIN list /\ u[j] = list[j - 1]
      BY <2>2, <2>8, <2>9
    <3>2. CASE i = 1
      <4>1. list[j - 1].at \in Nat /\ list[1].at <= list[j - 1].at
        BY <2>10, <3>1
      <4> QED BY <2>2, <2>3, <2>5, <2>7, <2>9, <3>1, <3>2, <4>1
    <3>3. CASE i # 1
      <4>1. i - 1 \in DOMAIN list /\ u[i] = list[i - 1] /\ i - 1 < j - 1
        BY <2>2, <2>8, <2>9, <3>3
      <4> QED BY <3>1, <4>1 DEF Ascending
    <3> QED BY <3>2, <3>3
  <2>12. NoneBefore(u, base)
    <3> SUFFICES ASSUME NEW i \in DOMAIN u PROVE u[i].at >= base
      BY DEF NoneBefore
    <3>1. CASE i = 1
      BY <2>2, <2>7, <2>9, <3>1
    <3>2. CASE i # 1
      BY <2>9, <3>2 DEF NoneBefore
    <3> QED BY <3>1, <3>2
  <2>13. ASSUME NEW time \in Nat, NoneAfter(list, time) PROVE NoneAfter(u, time)
    <3> SUFFICES ASSUME NEW i \in DOMAIN u PROVE u[i].at <= time
      BY DEF NoneAfter
    <3>1. list[1].at <= time
      BY <2>2, <2>13 DEF NoneAfter
    <3>2. CASE i = 1
      BY <2>2, <2>3, <2>5, <2>7, <2>9, <3>1, <3>2
    <3>3. CASE i # 1
      BY <2>9, <2>13, <3>3 DEF NoneAfter
    <3> QED BY <3>2, <3>3
  <2>14. ASSUME NEW now, NEW owed, Owed(list, now, owed) PROVE Owed(u, now, owed)
    <3> SUFFICES ASSUME NEW i \in DOMAIN u, u[i].timer # Dummy
                 PROVE  owed[u[i].timer] <= u[i].at - now + 1
      BY DEF Owed
    <3>1. i - 1 \in DOMAIN list /\ u[i] = list[i - 1]
      BY <2>7, <2>9
    <3> QED BY <2>14, <3>1 DEF Owed
  <2>15. Waiting(u) = Waiting(list)
    <3>1. ASSUME NEW i \in DOMAIN u PROVE u[i].timer \in LinkedIn(list) \cup {Dummy}
      BY <2>7, <2>9 DEF LinkedIn
    <3>2. ASSUME NEW j \in DOMAIN list PROVE list[j].timer \in LinkedIn(u)
      BY <2>9 DEF LinkedIn
    <3> QED BY <3>1, <3>2 DEF LinkedIn, Waiting
  <2>16. u # <<>>
    BY <2>9
  <2> QED BY <2>1, <2>11, <2>12, <2>13, <2>14, <2>15, <2>16
<1> QED BY <1>1, <1>2

(* Starting it makes no timer due earlier: the time that had elapsed is    *)
(* forgotten.                                                              *)
LEMMA StartKeepsTime ==
  ASSUME TypeOK', NEW list \in Seq(Entry), NEW base \in 0 .. Word - 1, NEW oldLoad,
         StartTimerAtHead(list, base, oldLoad), Ascending(list), NoneBefore(list, base),
         Owed(list, base, due'), list # <<>> => ~ovf'
  PROVE  /\ OnTime' /\ Waiting(active') = Waiting(list)
         /\ \A time \in Nat : base <= time /\ NoneAfter(list, time) => InReach(time)'
         /\ last' = base \/ (active' = <<>> /\ last' = 0)
<1>1. /\ Ascending(active') /\ NoneBefore(active', base)
      /\ Waiting(active') = Waiting(list)
      /\ \A time \in Nat : NoneAfter(list, time) => NoneAfter(active', time)
      /\ Owed(active', base, due')
      /\ active' = <<>> <=> list = <<>>
  BY StartKeepsOrder
<1>2. CASE list = <<>>
  <2>1. active' = <<>> /\ running' = FALSE /\ last' = 0 /\ DOMAIN active' = {}
    BY <1>2 DEF StartTimerAtHead, StopTimeouts
  <2> QED BY <1>1, <2>1
      DEF OnTime, Ascending, NoneBefore, Owed, HeadDue, Unflagged, Stopped, InReach, NoneAfter
<1>3. CASE list # <<>>
  <2>0. last' = base /\ \E period : Arm(period)
    BY <1>3 DEF StartTimerAtHead
  <2>1. last' = base /\ cnt' = load' /\ active' # <<>> /\ ~ovf'
    BY <1>1, <1>3, <2>0 DEF Arm
  <2>2. Elapsed' = 0 /\ last' + Elapsed' = base
    <3>1. load' \in Int /\ cnt' \in Int /\ base \in Int
      BY RtcAssumption DEF TypeOK
    <3>2. cnt' - load' = 0
      <4>1. \A x \in Int : x - x = 0
        OBVIOUS
      <4> QED BY <2>1, <3>1, <4>1, Zenon
    <3>3. Elapsed' = 0
      BY <2>1, <3>2, Zenon DEF Elapsed
    <3>4. last' + 0 = base
      BY <2>1, <3>1
    <3> QED BY <3>3, <3>4
  <2> QED BY <1>1, <2>1, <2>2 DEF OnTime, HeadDue, Unflagged, Stopped, InReach
<1> QED BY <1>2, <1>3

(* What the counter shows while a timer runs.                              *)
LEMMA ElapsedRange ==
  ASSUME TypeOK, HeadArmed, NoneBefore(active, last), active # <<>>
  PROVE  /\ 1 \in DOMAIN active /\ active[1] \in Entry /\ active[1].at \in Nat
         /\ last \in Nat /\ RtcMax \in Nat /\ Elapsed \in Nat
         /\ RtcMax - load = active[1].at - last
         /\ last + Elapsed <= active[1].at /\ Elapsed <= RtcMax
         /\ ovf \/ cnt = RtcMax => last + Elapsed = active[1].at
<1>1. /\ active \in Seq(Entry) /\ last \in Nat /\ RtcMax \in Nat /\ Word \in Nat
      /\ cnt \in 0 .. RtcMax /\ load \in 0 .. RtcMax /\ 1 \in DOMAIN active
  BY RtcAssumption DEF TypeOK
<1>2. active[1] \in Entry /\ active[1].at \in Nat /\ active[1].at < Word /\ last <= active[1].at
  BY <1>1, EntryTime DEF NoneBefore
<1>3. Sub(active[1].at, last) = active[1].at - last
  BY <1>1, <1>2 DEF Sub
<1>4. load = RtcMax - (active[1].at - last) /\ (ovf \/ cnt >= load)
  BY <1>3 DEF HeadArmed, LoadFor
<1>5. CASE ovf
  BY <1>1, <1>2, <1>4, <1>5, SMTT(60) DEF Elapsed
<1>6. CASE ~ovf
  BY <1>1, <1>2, <1>4, <1>6, SMTT(60) DEF Elapsed
<1> QED BY <1>1, <1>2, <1>4, <1>5, <1>6

(* Less is owed at an earlier moment.                                      *)
LEMMA OwedEarlier ==
  ASSUME NEW list \in Seq(Entry), NEW now \in Int, NEW then \in Int, then <= now,
         NEW owed \in [Timers -> Nat], Owed(list, now, owed)
  PROVE  Owed(list, then, owed)
<1> SUFFICES ASSUME NEW i \in DOMAIN list, list[i].timer # Dummy
             PROVE  owed[list[i].timer] <= list[i].at - then + 1
  BY DEF Owed
<1>1. list[i].timer \in Timers /\ list[i].at \in Nat
  BY EntryTime
<1>2. owed[list[i].timer] \in Nat /\ owed[list[i].timer] <= list[i].at - now + 1
  BY <1>1 DEF Owed
<1> QED BY <1>1, <1>2

-----------------------------------------------------------------------------
(* Each action keeps OnTime and Bounded, and is a step of the service.     *)

LEMMA ReachKept ==
  ASSUME NEW longest, FarFromWrap(longest), TypeOK, Bounded(longest),
         \A time \in Nat : InReach(time) => InReach(time)',
         Creating' => Creating,
         (active' = <<>> /\ last' = 0) \/ (last' \in Int /\ last' >= last)
  PROVE  Bounded(longest)'
<1> DEFINE reach == Horizon + RtcMax + longest
           beyond == reach + RtcMax + longest
<1>1. reach \in Nat /\ beyond \in Nat /\ Horizon \in Nat /\ last \in Int
  BY RtcAssumption, ClientAssumption DEF FarFromWrap, TypeOK
<1> HIDE DEF reach, beyond
<1>2. \/ InReach(reach)
      \/ last >= Horizon /\ ~Creating /\ InReach(beyond)
  BY DEF Bounded, reach, beyond
<1>3. InReach(reach) => InReach(reach)'
  BY <1>1
<1>4. InReach(beyond) => InReach(beyond)'
  BY <1>1
<1>5. (active' = <<>> /\ last' = 0) => InReach(reach)'
  BY <1>1 DEF InReach, NoneAfter
<1>6. last >= Horizon /\ last' \in Int /\ last' >= last => last' >= Horizon
  BY <1>1
<1>7. \/ InReach(reach)'
      \/ last' >= Horizon /\ ~Creating' /\ InReach(beyond)'
  BY <1>2, <1>3, <1>4, <1>5, <1>6
<1> QED BY <1>7 DEF Bounded, reach, beyond

ServiceStep == Service!Next \/ UNCHANGED <<Waiting(active), queue, due>>

LEMMA TickOnTime ==
  ASSUME NEW longest, FarFromWrap(longest), TimeInv(longest), Tick
  PROVE  OnTime' /\ Bounded(longest)' /\ ServiceStep
<1>1. /\ MainRuns /\ call.at # "unlink"
      /\ cnt' = IF cnt = RtcMax THEN 0 ELSE cnt + 1
      /\ ovf' = (ovf \/ cnt = RtcMax)
      /\ due' = [t \in Timers |-> IF due[t] > 0 THEN due[t] - 1 ELSE 0]
      /\ UNCHANGED <<active, queue, last, load, running, call>>
  BY DEF Tick, FarFromWrap
<1>2. TypeOK /\ HeadArmed /\ OnTime /\ Bounded(longest)
  BY DEF TimeInv, IInv
<1>3. Owed(active, last + Elapsed, due)'
  <2> SUFFICES ASSUME NEW i \in DOMAIN active, active[i].timer # Dummy
               PROVE  due'[active[i].timer] <= active[i].at - (last + Elapsed') + 1
    BY <1>1 DEF Owed
  <2>1. active \in Seq(Entry) /\ active # <<>> /\ due \in [Timers -> Nat] /\ NoneBefore(active, last)
    BY <1>2 DEF TypeOK, OnTime
  <2>2. /\ active[i].timer \in Timers /\ active[i].at \in Nat
    BY <2>1, EntryTime
  <2>3. /\ 1 \in DOMAIN active /\ active[1].at \in Nat
        /\ last \in Nat /\ RtcMax \in Nat /\ Elapsed \in Nat
        /\ last + Elapsed <= active[1].at
    BY <1>2, <2>1, ElapsedRange
  <2>4. active[1].at <= active[i].at
    <3>1. i = 1 \/ 1 < i
      BY <2>1
    <3> QED BY <1>2, <2>2, <2>3, <3>1 DEF OnTime, Ascending
  <2> DEFINE d == due[active[i].timer]
             at == active[i].at
             now == last + Elapsed
  <2>5. d \in Nat /\ d <= at - now + 1 /\ now \in Nat /\ at \in Nat
    BY <1>2, <2>1, <2>2, <2>3 DEF OnTime, Owed
  <2>6. due'[active[i].timer] = IF d > 0 THEN d - 1 ELSE 0
    BY <1>1, <2>2
  <2>7. CASE ovf \/ cnt = RtcMax
    <3>1. Elapsed' = Elapsed
      BY <1>1, <2>7 DEF Elapsed
    <3> HIDE DEF d, at, now
    <3>2. (IF d > 0 THEN d - 1 ELSE 0) <= at - now + 1
      BY <2>5
    <3> QED BY <2>6, <3>1, <3>2 DEF at, now
  <2>8. CASE ~ovf /\ cnt # RtcMax
    <3>1. Elapsed' = Elapsed + 1
      <4>1. cnt \in Int /\ load \in Int /\ RtcMax \in Int
        BY <2>3 DEF TypeOK, TimeInv, IInv
      <4>2. ~ovf' /\ cnt' = cnt + 1 /\ load' = load
        BY <1>1, <2>8
      <4>3. Elapsed' = cnt' - load' /\ Elapsed = cnt - load
        BY <2>8, <4>2 DEF Elapsed
      <4> QED BY <4>1, <4>2, <4>3
    <3>2. last + Elapsed' = now + 1
      BY <2>3, <3>1
    <3>3. now <= at
      <4>1. now <= active[1].at
        BY <2>3
      <4> HIDE DEF now, at
      <4> QED BY <2>3, <2>4, <2>5, <4>1 DEF at
    <3> HIDE DEF d, at, now
    <3>4. (IF d > 0 THEN d - 1 ELSE 0) <= at - (now + 1) + 1
      BY <2>5, <3>3
    <3> QED BY <2>6, <3>2, <3>4 DEF at
  <2> QED BY <2>7, <2>8
<1>7. HeadDue'
  <2> SUFFICES ASSUME ovf', active # <<>>, active[1].timer # Dummy
               PROVE  due'[active[1].timer] = 0
    BY <1>1 DEF HeadDue
  <2>1. /\ active \in Seq(Entry) /\ due \in [Timers -> Nat] /\ NoneBefore(active, last)
        /\ 1 \in DOMAIN active /\ active[1].timer \in Timers
    <3>1. 1 \in DOMAIN active
      BY <1>2 DEF TypeOK
    <3> QED BY <1>2, <3>1, EntryTime DEF TypeOK, OnTime
  <2> DEFINE d == due[active[1].timer]
  <2>2. d \in Nat /\ d <= 1
    <3>1. CASE ovf
      BY <1>2, <2>1, <3>1 DEF OnTime, HeadDue
    <3>2. CASE ~ovf
      <4>1. active[1].at \in Nat /\ last + Elapsed = active[1].at
        BY <1>1, <1>2, <2>1, <3>2, ElapsedRange
      <4>2. d <= active[1].at - (last + Elapsed) + 1
        BY <1>2, <2>1 DEF OnTime, Owed
      <4> QED BY <2>1, <4>1, <4>2
    <3> QED BY <3>1, <3>2
  <2>3. due'[active[1].timer] = IF d > 0 THEN d - 1 ELSE 0
    BY <1>1, <2>1
  <2> HIDE DEF d
  <2> QED BY <2>2, <2>3
<1>4. OnTime'
  BY <1>1, <1>2, <1>3, <1>7 DEF OnTime, Ascending, NoneBefore, Unflagged, Stopped
<1>5. Bounded(longest)'
  BY <1>1, <1>2 DEF Bounded, InReach, NoneAfter, Creating
<1>6. Service!Tick
  BY <1>1 DEF Service!Tick
<1> QED BY <1>4, <1>5, <1>6 DEF ServiceStep, Service!Next

(* The main loop moves; lists, clock and requests stay.                    *)
LEMMA MoveOnTime ==
  ASSUME NEW longest, FarFromWrap(longest), TimeInv(longest),
         UNCHANGED <<active, last, load, cnt, ovf, running, due>>,
         Unflagged', Creating' => Creating \/ last < Horizon
  PROVE  OnTime' /\ Bounded(longest)' /\ UNCHANGED <<Waiting(active), due>>
<1>1. OnTime /\ Bounded(longest) /\ last \in Int /\ Horizon \in Int
  BY RtcAssumption, ClientAssumption DEF TimeInv, IInv, TypeOK
<1>2. OnTime'
  BY <1>1 DEF OnTime, Ascending, NoneBefore, Owed, Elapsed, HeadDue, Unflagged, Stopped
<1>3. Bounded(longest)'
  <2>1. last < Horizon => ~(last >= Horizon)
    BY <1>1
  <2> QED BY <1>1, <2>1, Zenon DEF Bounded, InReach, NoneAfter
<1> QED BY <1>2, <1>3 DEF Waiting, LinkedIn

(* A flagged overflow is served before the main loop does anything, unless *)
(* it is in a masked section.                                              *)
LEMMA ServedFirst ==
  ASSUME HeadArmed, MainRuns, call.at \notin {"unlink", "place"}, active # <<>>
  PROVE  ~ovf
BY DEF HeadArmed, MainRuns

LEMMA MovesOnTime ==
  ASSUME NEW longest, FarFromWrap(longest), TimeInv(longest), IInv',
         \/ CheckEmpty \/ Mask \/ MaskInsert \/ BeginDispatch \/ Dispatch \/ Client
         \/ UNCHANGED vars \/ ExpireNothing
         \/ \E d \in Timeouts \cup {0} : CallbackReturns(d)
  PROVE  OnTime' /\ Bounded(longest)' /\ ServiceStep
<1>0. call \in Call /\ HeadArmed /\ OnTime
  BY DEF TimeInv, IInv, TypeOK
<1>1. CASE CheckEmpty
  <2>1. /\ UNCHANGED <<active, queue, last, load, cnt, ovf, running, due>>
        /\ call.at = "check" /\ MainRuns
        /\ \/ \E found \in BOOLEAN : call' = AfterHelper(call, found)
           \/ call' = [call EXCEPT !.at = "mask"]
    BY <1>1 DEF CheckEmpty, clock
  <2>2. /\ call.req \in Request
        /\ call = Deleting(call.at, call.list, call.timer, call.req)
    BY <1>0, <2>1, CallShapes DEF InDelete
  <2>3. call'.at # "unlink" /\ (Creating' => Creating)
    <3>1. CASE call' = [call EXCEPT !.at = "mask"]
      <4>1. call' = Deleting("mask", call.list, call.timer, call.req)
        BY <2>2, <3>1 DEF Deleting
      <4> QED BY <2>1, <4>1 DEF Deleting, Creating
    <3>2. ASSUME NEW found \in BOOLEAN, call' = AfterHelper(call, found)
          PROVE  call'.at # "unlink" /\ (Creating' => Creating)
      BY <2>1, <3>2 DEF AfterHelper, Creating, Deleting, Inserting, Idle
    <3> QED BY <2>1, <3>1, <3>2
  <2>4. Unflagged'
    BY <2>3 DEF Unflagged
  <2> QED BY <2>1, <2>3, <2>4, MoveOnTime DEF ServiceStep
<1>2. CASE Mask
  <2>1. /\ UNCHANGED <<active, queue, last, load, cnt, ovf, running, due>>
        /\ call.at = "mask" /\ MainRuns /\ call' = [call EXCEPT !.at = "unlink"]
    BY <1>2 DEF Mask
  <2>2. Creating' => Creating
    <3>1. call' = Deleting("unlink", call.list, call.timer, call.req)
      BY <1>0, <2>1, CallShapes DEF InDelete, Deleting
    <3> QED BY <2>1, <3>1 DEF Deleting, Creating
  <2>3. Unflagged'
    BY <1>0, <2>1, ServedFirst DEF Unflagged
  <2> QED BY <2>1, <2>2, <2>3, MoveOnTime DEF ServiceStep
<1>3. CASE Dispatch
  <2>1. /\ UNCHANGED <<active, last, load, cnt, ovf, running, due>>
        /\ queue # <<>> /\ queue' = Tail(queue) /\ call' = Callback(Head(queue))
    BY <1>3 DEF Dispatch, DispatchOrder, TimeInv, IInv
  <2>2. call'.at # "unlink" /\ ~Creating'
    BY <2>1 DEF Callback, Creating
  <2>3. Unflagged'
    BY <2>2 DEF Unflagged
  <2>4. OnTime' /\ Bounded(longest)' /\ UNCHANGED <<Waiting(active), due>>
    BY <2>1, <2>2, <2>3, MoveOnTime
  <2>5. Service!Dispatch
    BY <2>1, <2>4 DEF Service!Dispatch, Waiting
  <2> QED BY <2>4, <2>5 DEF ServiceStep, Service!Next
<1>4. CASE Client
  <2>1. /\ UNCHANGED <<active, queue, last, load, cnt, ovf, running, due>>
        /\ call'.at = "check"
        /\ call'.req.op = "create" => last < Horizon
    <3>1. ASSUME NEW t \in Timers, BeginDelete(t) PROVE <2>1!:
      BY <3>1 DEF BeginDelete, Deleting, clock
    <3>2. ASSUME NEW t \in Timers, NEW d \in Timeouts, BeginCreate(t, d) PROVE <2>1!:
      BY <3>2 DEF BeginCreate, Deleting, clock
    <3> QED BY <1>4, <3>1, <3>2 DEF Client
  <2>2. Unflagged' /\ (Creating' => last < Horizon)
    BY <2>1 DEF Unflagged, Creating
  <2> QED BY <2>1, <2>2, MoveOnTime DEF ServiceStep
<1>5. ASSUME NEW d \in Timeouts \cup {0}, CallbackReturns(d)
      PROVE  OnTime' /\ Bounded(longest)' /\ ServiceStep
  <2>1. /\ UNCHANGED <<active, queue, last, load, cnt, ovf, running, due>>
        /\ d = 0 \/ last < Horizon
        /\ call' = IF d = 0 THEN Idle
                   ELSE Deleting("check", "active", call.timer, [op |-> "create", timeout |-> d])
    BY <1>5 DEF CallbackReturns, clock
  <2>2. Unflagged' /\ (Creating' => last < Horizon)
    <3>1. CASE d = 0
      BY <2>1, <3>1 DEF Idle, Unflagged, Creating
    <3>2. CASE d # 0
      BY <2>1, <3>2 DEF Deleting, Unflagged, Creating
    <3> QED BY <3>1, <3>2
  <2> QED BY <2>1, <2>2, MoveOnTime DEF ServiceStep
<1>6. CASE UNCHANGED vars \/ ExpireNothing
  <2>1. UNCHANGED <<active, queue, last, load, cnt, ovf, running, call, due>>
    BY <1>6 DEF vars, clock, ExpireNothing
  <2>2. Unflagged' /\ (Creating' => Creating)
    BY <1>0, <2>1 DEF OnTime, Unflagged, Creating
  <2> QED BY <2>1, <2>2, MoveOnTime DEF ServiceStep
<1>7. CASE MaskInsert
  <2>1. /\ UNCHANGED <<active, queue, last, load, cnt, ovf, running, due>>
        /\ call.at = "insert" /\ call' = [call EXCEPT !.at = "place"]
    BY <1>7 DEF MaskInsert
  <2>2. call' = Inserting("place", call.timer, call.timeout)
    BY <1>0, <2>1, CallShapes DEF Inserting
  <2>3. Unflagged' /\ Creating
    BY <2>1, <2>2 DEF Inserting, Unflagged, Creating
  <2> QED BY <2>1, <2>3, MoveOnTime DEF ServiceStep
<1>8. CASE BeginDispatch
  <2>1. /\ UNCHANGED <<active, queue, last, load, cnt, ovf, running, due>>
        /\ call' = Dispatching(ie)
    BY <1>8 DEF BeginDispatch, clock
  <2>2. Unflagged' /\ ~Creating'
    BY <2>1 DEF Dispatching, Unflagged, Creating
  <2> QED BY <2>1, <2>2, MoveOnTime DEF ServiceStep
<1> QED BY <1>1, <1>2, <1>3, <1>4, <1>5, <1>6, <1>7, <1>8

LEMMA ExpireOnTime ==
  ASSUME NEW longest, FarFromWrap(longest), TimeInv(longest), IInv', Expire
  PROVE  OnTime' /\ Bounded(longest)' /\ ServiceStep
<1> DEFINE head == active[1]
           list == Tail(active)
<1>1. /\ TypeOK /\ HeadArmed /\ OnTime /\ Bounded(longest) /\ TypeOK'
      /\ active \in Seq(Entry) /\ queue \in Seq(Timers) /\ due \in [Timers -> Nat]
      /\ Distinct(active) /\ LinkedOnce
  BY DEF TimeInv, IInv, TypeOK, LinkedOnce
<1>2. /\ ovf /\ active # <<>> /\ StartTimerAtHead(list, head.at, 0) /\ ~ovf'
      /\ queue' = IF head.timer = Dummy THEN queue ELSE Append(queue, head.timer)
      /\ UNCHANGED <<call, due>>
  BY DEF Expire
<1>3. /\ 1 \in DOMAIN active /\ head \in Entry /\ head.at \in Nat /\ last \in Nat
      /\ Elapsed \in Nat /\ last + Elapsed = head.at /\ head.at \in 0 .. Word - 1
      /\ last <= head.at
  <2>1. NoneBefore(active, last)
    BY <1>1 DEF OnTime
  <2>2. head \in Entry /\ 1 \in DOMAIN active /\ last + Elapsed = head.at
        /\ last \in Nat /\ Elapsed \in Nat /\ head.at \in Nat
    BY <1>1, <1>2, <2>1, ElapsedRange
  <2> QED BY <2>1, <2>2 DEF Entry, NoneBefore
<1>4. /\ list \in Seq(Entry) /\ Among(list, active) /\ Ascending(list)
      /\ NoneBefore(list, head.at) /\ Waiting(list) = Waiting(active) \ {head.timer}
  BY <1>1, <1>2, TailOfList DEF OnTime
<1> HIDE DEF list
<1>5. Owed(list, head.at, due)
  <2>1. Owed(list, last + Elapsed, due)
    BY <1>1, <1>4, AmongKeeps DEF OnTime
  <2>2. head.at <= last + Elapsed /\ last + Elapsed \in Int /\ head.at \in Int
    BY <1>3
  <2> QED BY <1>1, <1>4, <2>1, <2>2, OwedEarlier
<1>6. Owed(list, head.at, due')
  BY <1>2, <1>5
<1> HIDE DEF head
<1>7. /\ OnTime' /\ Waiting(active') = Waiting(list)
      /\ \A time \in Nat : head.at <= time /\ NoneAfter(list, time) => InReach(time)'
      /\ last' = head.at \/ (active' = <<>> /\ last' = 0)
  BY <1>1, <1>2, <1>3, <1>4, <1>6, StartKeepsTime
<1>8. Bounded(longest)'
  <2>1. \A time \in Nat : InReach(time) => InReach(time)'
    BY <1>3, <1>4, <1>7, AmongKeeps DEF InReach, NoneAfter, head
  <2>2. (active' = <<>> /\ last' = 0) \/ (last' \in Int /\ last' >= last)
    BY <1>3, <1>7
  <2>3. Creating' => Creating
    BY <1>2 DEF Creating
  <2> QED BY <1>1, <2>1, <2>2, <2>3, ReachKept
<1>9. ServiceStep
  <2>1. CASE head.timer = Dummy
    BY <1>2, <1>4, <1>7, <2>1 DEF ServiceStep, Waiting
  <2>2. CASE head.timer # Dummy
    <3>1. head.timer \in Timers /\ head.timer \in Waiting(active)
      BY <1>3, <2>2 DEF Entry, Waiting, LinkedIn, head
    <3>2. due[head.timer] = 0
      BY <1>1, <1>2, <2>2 DEF OnTime, HeadDue, head
    <3>3. Service!Expire(head.timer)
      BY <1>2, <1>4, <1>7, <2>2, <3>1, <3>2 DEF Service!Expire, Waiting
    <3> QED BY <3>1, <3>3 DEF ServiceStep, Service!Next
  <2> QED BY <2>1, <2>2
<1> QED BY <1>7, <1>8, <1>9

(* Where delete_helper goes on to: it is not in the masked section.        *)
LEMMA HelperLeft ==
  ASSUME call.at = "unlink", NEW found \in BOOLEAN, call' = AfterHelper(call, found)
  PROVE  Unflagged' /\ (Creating' => Creating)
<1>1. CASE call' = Deleting("check", "queue", call.timer, call.req)
  BY <1>1 DEF Deleting, Unflagged, Creating
<1>2. CASE call.req.op = "create" /\ call' = Inserting("insert", call.timer, call.req.timeout)
  BY <1>2 DEF Inserting, Unflagged, Creating
<1>3. CASE call' = Idle
  BY <1>3 DEF Idle, Unflagged, Creating
<1> QED BY <1>1, <1>2, <1>3 DEF AfterHelper

(* The list loses timers, or none, and the countdown starts afresh.        *)
LEMMA RestartOnTime ==
  ASSUME NEW longest, FarFromWrap(longest), TimeInv(longest), IInv',
         call.at = "unlink", NEW list \in Seq(Entry), Among(list, active), Ascending(list),
         StartTimerAtHead(list, last, load), Creating' => Creating,
         UNCHANGED <<ovf, due>>
  PROVE  OnTime' /\ Bounded(longest)' /\ Waiting(active') = Waiting(list)
<1>1. /\ TypeOK /\ HeadArmed /\ OnTime /\ Bounded(longest) /\ TypeOK'
      /\ active \in Seq(Entry) /\ due \in [Timers -> Nat]
      /\ last \in 0 .. Word - 1 /\ last \in Int /\ last <= last
  BY RtcAssumption DEF TimeInv, IInv, TypeOK
<1>2. NoneBefore(list, last)
  BY <1>1, AmongKeeps DEF OnTime
<1>3. list # <<>> => active # <<>>
  <2>1. ASSUME list # <<>> PROVE 1 \in DOMAIN list
    BY <2>1
  <2>2. active = <<>> => DOMAIN active = {}
    OBVIOUS
  <2> QED BY <2>1, <2>2 DEF Among
<1>4. Owed(list, last, due)
  <2>1. CASE active = <<>>
    <3>1. list = <<>>
      BY <1>3, <2>1
    <3> QED BY <3>1 DEF Owed
  <2>2. CASE active # <<>>
    <3>1. Owed(list, last + Elapsed, due)
      BY <1>1, AmongKeeps DEF OnTime
    <3>2. last <= last + Elapsed /\ last + Elapsed \in Int
      <4>1. Elapsed \in Nat
        BY <1>1, <2>2, ElapsedRange DEF OnTime
      <4> QED BY <1>1, <4>1
    <3> QED BY <1>1, <3>1, <3>2, OwedEarlier
  <2> QED BY <2>1, <2>2
<1>5. Owed(list, last, due') /\ (list # <<>> => ~ovf')
  BY <1>1, <1>3, <1>4 DEF OnTime, Unflagged
<1>6. /\ OnTime' /\ Waiting(active') = Waiting(list)
      /\ \A time \in Nat : last <= time /\ NoneAfter(list, time) => InReach(time)'
      /\ last' = last \/ (active' = <<>> /\ last' = 0)
  BY <1>1, <1>2, <1>5, StartKeepsTime
<1>7. Bounded(longest)'
  <2>1. \A time \in Nat : InReach(time) => InReach(time)'
    BY <1>6, AmongKeeps DEF InReach
  <2>2. (active' = <<>> /\ last' = 0) \/ (last' \in Int /\ last' >= last)
    BY <1>1, <1>6
  <2> QED BY <1>1, <2>1, <2>2, ReachKept
<1> QED BY <1>6, <1>7

LEMMA UnlinkActiveOnTime ==
  ASSUME NEW longest, FarFromWrap(longest), TimeInv(longest), IInv', UnlinkActive
  PROVE  OnTime' /\ Bounded(longest)' /\ ServiceStep
<1> DEFINE t == call.timer
           found == t \in LinkedIn(active)
<1>1. /\ TypeOK /\ OnTime /\ Bounded(longest) /\ TypeOK'
      /\ active \in Seq(Entry) /\ queue \in Seq(Timers)
      /\ Distinct(active) /\ LinkedIn(active) \cap ToSet(queue) = {}
      /\ call \in Call
  BY DEF TimeInv, IInv, TypeOK, LinkedOnce
<1>2. /\ call.at = "unlink" /\ call' = AfterHelper(call, found) /\ found \in BOOLEAN
      /\ UNCHANGED <<queue, ovf, due>>
  BY DEF UnlinkActive
<1>3. t \in Timers /\ t # Dummy
  BY <1>1, <1>2, CallShapes, ClientAssumption DEF InDelete
<1> HIDE DEF t
<1>4. Unflagged' /\ (Creating' => Creating)
  BY <1>2, HelperLeft
<1>5. ASSUME found, Waiting(active') = Waiting(active) \ {t} PROVE ServiceStep
  <2>1. t \in Waiting(active)
    BY <1>3, <1>5 DEF Waiting
  <2>2. t \notin Service!Queued
    BY <1>1, <1>5 DEF Service!Queued, ToSet
  <2>3. Service!Cancel(t)
    BY <1>2, <1>5, <2>1, <2>2 DEF Service!Cancel, Waiting
  <2> QED BY <1>3, <2>3 DEF ServiceStep, Service!Next
<1>6. CASE active # <<>> /\ active[1].timer = t /\ StartTimerAtHead(Tail(active), last, load)
  <2> DEFINE list == Tail(active)
  <2>1. /\ list \in Seq(Entry) /\ Among(list, active) /\ Ascending(list)
        /\ Waiting(list) = Waiting(active) \ {t} /\ 1 \in DOMAIN active
    BY <1>1, <1>6, TailOfList DEF OnTime
  <2> HIDE DEF list
  <2>2. StartTimerAtHead(list, last, load)
    BY <1>6 DEF list
  <2>3. OnTime' /\ Bounded(longest)' /\ Waiting(active') = Waiting(list)
    BY <1>2, <1>4, <2>1, <2>2, RestartOnTime
  <2>4. found
    BY <1>6, <2>1 DEF LinkedIn
  <2> QED BY <1>5, <2>1, <2>3, <2>4
<1>7. ASSUME NEW i \in 2 .. Len(active), active[i].timer = t, active' = RemoveAt(active, i),
             UNCHANGED <<last, load, running, cnt>>
      PROVE  OnTime' /\ Bounded(longest)' /\ ServiceStep
  <2>1. i \in 1 .. Len(active) /\ i \in DOMAIN active /\ Len(active) >= 2 /\ Len(active) \in Nat
    BY <1>1
  <2>2. /\ Among(active', active) /\ Ascending(active')
        /\ Waiting(active') = Waiting(active) \ {t}
    BY <1>1, <1>7, <2>1, RemoveFromList DEF OnTime
  <2>3. active' # <<>>
    <3>1. Len(active') = Len(active) - 1
      BY <1>1, <1>7, <2>1, RemoveAtFacts
    <3> QED BY <2>1, <3>1
  <2>4. OnTime'
    <3>1. Elapsed' = Elapsed /\ last' = last /\ due' = due
      BY <1>2, <1>7 DEF Elapsed
    <3>2. NoneBefore(active', last) /\ Owed(active', last + Elapsed, due)
      BY <1>1, <2>2, AmongKeeps DEF OnTime
    <3>3. HeadDue'
      BY <1>1, <1>2, <2>1 DEF OnTime, HeadDue, Unflagged
    <3> QED BY <1>4, <2>2, <2>3, <3>1, <3>2, <3>3 DEF OnTime, Stopped
  <2>5. Bounded(longest)'
    <3>1. \A time \in Nat : InReach(time) => InReach(time)'
      BY <1>7, <2>2, AmongKeeps DEF InReach
    <3>2. last' \in Int /\ last' >= last
      BY <1>1, <1>7, RtcAssumption DEF TypeOK
    <3> QED BY <1>1, <1>4, <3>1, <3>2, ReachKept
  <2>6. found
    BY <1>7, <2>1 DEF LinkedIn
  <2> QED BY <1>5, <2>2, <2>4, <2>5, <2>6
<1>8. CASE active' = active /\ UNCHANGED <<last, load, running, cnt>>
  BY <1>2, <1>4, <1>8, MoveOnTime DEF ServiceStep
<1> QED BY <1>6, <1>7, <1>8 DEF UnlinkActive, t

LEMMA TailIsRemoval ==
  ASSUME NEW S, NEW s \in Seq(S), s # <<>>
  PROVE  Tail(s) = RemoveAt(s, 1)
<1>1. Len(s) \in Nat \ {0} /\ 1 \in 1 .. Len(s)
  OBVIOUS
<1>2. Tail(s) \in Seq(S) /\ Len(Tail(s)) = Len(s) - 1
  BY TailFacts
<1>3. /\ RemoveAt(s, 1) \in Seq(S) /\ Len(RemoveAt(s, 1)) = Len(s) - 1
      /\ \A j \in 1 .. Len(s) - 1 : RemoveAt(s, 1)[j] = IF j < 1 THEN s[j] ELSE s[j + 1]
  BY <1>1, RemoveAtFacts
<1>4. \A j \in 1 .. Len(s) - 1 : Tail(s)[j] = RemoveAt(s, 1)[j]
  BY <1>1, <1>3, TailFacts
<1> QED BY <1>1, <1>2, <1>3, <1>4, SeqEqual

LEMMA UnlinkQueuedOnTime ==
  ASSUME NEW longest, FarFromWrap(longest), TimeInv(longest), IInv', UnlinkQueued
  PROVE  OnTime' /\ Bounded(longest)' /\ ServiceStep
<1> DEFINE t == call.timer
<1>1. /\ TypeOK /\ OnTime /\ active \in Seq(Entry) /\ queue \in Seq(Timers) /\ call \in Call
  BY DEF TimeInv, IInv, TypeOK
<1>2. /\ call.at = "unlink" /\ call.list = "queue" /\ call' = AfterHelper(call, TRUE)
      /\ UNCHANGED <<ovf, due>>
  BY DEF UnlinkQueued
<1>3. t \in Timers /\ t \notin LinkedIn(active)
  BY <1>1, <1>2, CallShapes DEF InDelete, TimeInv, IInv, SearchOrder
<1> HIDE DEF t
<1>4. Unflagged' /\ (Creating' => Creating)
  BY <1>2, HelperLeft
<1>5. ASSUME NEW i \in 1 .. Len(queue), queue[i] = t, queue' = RemoveAt(queue, i),
             Waiting(active') = Waiting(active)
      PROVE  ServiceStep
  <2>1. i \in DOMAIN queue /\ t \in Service!Queued
    BY <1>1, <1>5 DEF Service!Queued
  <2>2. Waiting(active) \ {t} = Waiting(active)
    BY <1>3 DEF Waiting
  <2>3. Service!Cancel(t)
    <3>1. \E k \in DOMAIN queue : queue[k] = t /\ queue' = Service!RemoveAt(queue, k)
      <4>1. Service!RemoveAt(queue, i) = RemoveAt(queue, i)
        BY DEF Service!RemoveAt, RemoveAt
      <4> QED BY <1>5, <2>1, <4>1
    <3>2. Waiting(active)' = Waiting(active) \ {t}
      BY <1>5, <2>2
    <3> QED BY <1>2, <2>1, <3>1, <3>2, Zenon DEF Service!Cancel, Waiting
  <2> QED BY <1>3, <2>3 DEF ServiceStep, Service!Next
<1>6. CASE /\ queue # <<>> /\ Head(queue) = t /\ queue' = Tail(queue)
           /\ StartTimerAtHead(active, last, load)
  <2>1. Among(active, active) /\ Ascending(active)
    BY <1>1 DEF Among, OnTime
  <2>2. OnTime' /\ Bounded(longest)' /\ Waiting(active') = Waiting(active)
    BY <1>1, <1>2, <1>4, <1>6, <2>1, RestartOnTime
  <2>3. 1 \in 1 .. Len(queue) /\ queue[1] = t /\ queue' = RemoveAt(queue, 1)
    BY <1>1, <1>6, TailFacts, TailIsRemoval
  <2> QED BY <1>5, <2>2, <2>3
<1>7. CASE /\ \/ \E i \in 2 .. Len(queue) : queue[i] = t /\ queue' = RemoveAt(queue, i)
              \/ queue' = queue
           /\ UNCHANGED <<active, last, load, running, cnt>>
  <2>1. OnTime' /\ Bounded(longest)' /\ UNCHANGED <<Waiting(active), due>>
    BY <1>2, <1>4, <1>7, MoveOnTime
  <2>2. ASSUME NEW i \in 2 .. Len(queue), queue[i] = t, queue' = RemoveAt(queue, i)
        PROVE  ServiceStep
    <3>1. i \in 1 .. Len(queue) /\ Waiting(active') = Waiting(active)
      BY <1>1, <1>7 DEF Waiting
    <3> QED BY <1>5, <2>2, <3>1
  <2>3. queue' = queue => ServiceStep
    BY <2>1 DEF ServiceStep
  <2> QED BY <1>7, <2>1, <2>2, <2>3
<1> QED BY <1>6, <1>7 DEF UnlinkQueued, t

(* A list to which one entry was added.                                    *)
LEMMA AmongOrNew ==
  ASSUME NEW list, NEW e, NEW u,
         \A i \in DOMAIN u : u[i] = e \/ \E j \in DOMAIN list : u[i] = list[j]
  PROVE  /\ \A time : NoneBefore(list, time) /\ e.at >= time => NoneBefore(u, time)
         /\ \A time : NoneAfter(list, time) /\ e.at <= time => NoneAfter(u, time)
         /\ \A now, owed : Owed(list, now, owed) /\ owed[e.timer] <= e.at - now + 1
              => Owed(u, now, owed)
<1>1. ASSUME NEW time, NoneBefore(list, time), e.at >= time PROVE NoneBefore(u, time)
  BY <1>1, Zenon DEF NoneBefore
<1>2. ASSUME NEW time, NoneAfter(list, time), e.at <= time PROVE NoneAfter(u, time)
  BY <1>2, Zenon DEF NoneAfter
<1>3. ASSUME NEW now, NEW owed, Owed(list, now, owed), owed[e.timer] <= e.at - now + 1
      PROVE  Owed(u, now, owed)
  BY <1>3, Zenon DEF Owed
<1> QED BY <1>1, <1>2, <1>3

LEMMA OwedToOthers ==
  ASSUME NEW list \in Seq(Entry), NEW now, NEW t \in Timers, t \notin LinkedIn(list),
         NEW owed \in [Timers -> Nat], NEW more, Owed(list, now, owed)
  PROVE  Owed(list, now, [owed EXCEPT ![t] = more])
<1> SUFFICES ASSUME NEW i \in DOMAIN list, list[i].timer # Dummy
             PROVE  [owed EXCEPT ![t] = more][list[i].timer] <= list[i].at - now + 1
  BY DEF Owed
<1>1. list[i].timer \in Timers /\ list[i].timer # t
  BY EntryTime DEF LinkedIn
<1>2. [owed EXCEPT ![t] = more][list[i].timer] = owed[list[i].timer]
  BY <1>1
<1> QED BY <1>2 DEF Owed

(* The absolute time create computes is exact: it does not wrap.           *)
LEMMA InsertTime ==
  ASSUME NEW longest, FarFromWrap(longest), TimeInv(longest),
         call.at = "place", call.timeout \in Timeouts
  PROVE  \E now \in Nat :
           /\ MakeAbsolute(call.timeout) = now + call.timeout
           /\ MakeAbsolute(call.timeout) \in Nat /\ ~(MakeAbsolute(call.timeout) < last)
           /\ last <= now /\ now <= last + RtcMax
           /\ active # <<>> => now = last + Elapsed
           /\ Owed(active, now, due)
<1> DEFINE d == call.timeout
           reach == Horizon + RtcMax + longest
<1>1. /\ TypeOK /\ HeadArmed /\ OnTime /\ Bounded(longest)
      /\ last \in Nat /\ last < Word /\ cnt \in Int /\ load \in Int
  BY RtcAssumption DEF TimeInv, IInv, TypeOK
<1>2. /\ d \in Nat /\ d <= longest /\ longest \in Nat /\ RtcMax \in Nat /\ Horizon \in Nat
      /\ Word \in Nat \ {0} /\ reach + RtcMax + longest < Word /\ reach \in Nat
  <2>1. /\ longest \in Nat /\ d <= longest /\ Horizon + 2 * (RtcMax + longest) < Word
        /\ d \in 0 .. Word - 1
    BY ClientAssumption DEF FarFromWrap
  <2>2. RtcMax \in Nat /\ Horizon \in Nat /\ Word \in Nat \ {0}
    BY RtcAssumption, ClientAssumption
  <2> HIDE DEF d
  <2> QED BY <2>1, <2>2
<1>3. InReach(reach)
  BY <1>1 DEF Bounded, Creating
<1> HIDE DEF d, reach
<1>4. CASE active = <<>>
  <2>1. ~running /\ last = 0
    BY <1>1, <1>4 DEF OnTime, Stopped
  <2>2. MakeAbsolute(d) = (d + 0) % Word
    BY <2>1 DEF MakeAbsolute, Add
  <2>3. MakeAbsolute(d) = d
    BY <1>2, <1>3, <2>2 DEF reach
  <2>4. Owed(active, 0, due)
    BY <1>4 DEF Owed
  <2>5. 0 \in Nat /\ d = 0 + d /\ ~(d < last) /\ last <= 0 /\ 0 <= last + RtcMax
    BY <1>2, <2>1
  <2> QED BY <1>2, <1>4, <2>3, <2>4, <2>5 DEF d
<1>5. CASE active # <<>>
  <2>1. running
    BY <1>1, <1>5 DEF HeadArmed
  <2>2. /\ Elapsed \in Nat /\ Elapsed <= RtcMax /\ last + Elapsed <= active[1].at
        /\ 1 \in DOMAIN active /\ active[1].at \in Nat
    BY <1>1, <1>5, ElapsedRange DEF OnTime
  <2>3. active[1].at <= reach
    BY <1>3, <2>2 DEF InReach, NoneAfter
  <2>5. MakeAbsolute(d) = (d + last + Elapsed) % Word
    BY <2>1 DEF MakeAbsolute, Add, Elapsed
  <2> DEFINE now == last + Elapsed
  <2>6. now \in Nat /\ last <= now /\ now <= last + RtcMax
    BY <1>1, <1>2, <2>2
  <2>7. d + last + Elapsed \in 0 .. Word - 1 /\ d + last + Elapsed = now + d
    BY <1>1, <1>2, <2>2, <2>3
  <2>8. MakeAbsolute(d) = now + d
    BY <1>2, <2>5, <2>7
  <2>9. Owed(active, now, due)
    BY <1>1 DEF OnTime
  <2>10. now = last + Elapsed
    OBVIOUS
  <2> HIDE DEF now
  <2>11. MakeAbsolute(d) \in Nat /\ ~(MakeAbsolute(d) < last)
    BY <1>1, <1>2, <2>6, <2>8
  <2> QED BY <2>6, <2>8, <2>9, <2>10, <2>11 DEF d
<1> QED BY <1>4, <1>5

LEMMA InsertOnTime ==
  ASSUME NEW longest, FarFromWrap(longest), TimeInv(longest), IInv', Insert
  PROVE  OnTime' /\ Bounded(longest)' /\ ServiceStep
<1> DEFINE t == call.timer
           d == call.timeout
           raw == MakeAbsolute(call.timeout)
           node == [timer |-> call.timer, at |-> raw]
           rest == IF active # <<>> /\ active[1].timer = Dummy THEN Tail(active) ELSE active
           reach == Horizon + RtcMax + longest
           beyond == reach + RtcMax + longest
<1>1. /\ TypeOK /\ OnTime /\ Bounded(longest) /\ TypeOK'
      /\ active \in Seq(Entry) /\ due \in [Timers -> Nat] /\ call \in Call
      /\ Distinct(active) /\ call.at = "place"
      /\ last \in 0 .. Word - 1 /\ last \in Nat /\ Ascending(active) /\ NoneBefore(active, last)
  BY RtcAssumption DEF TimeInv, IInv, TypeOK, LinkedOnce, Insert, OnTime
<1>2. /\ t \in Timers /\ t # Dummy /\ d \in Timeouts /\ d \in Nat /\ d <= longest
      /\ t \notin LinkedIn(active) /\ t \notin ToSet(queue)
  <2>1. t \in Timers /\ d \in Timeouts
    BY <1>1, CallShapes
  <2>2. t \notin LinkedIn(active) \cup ToSet(queue)
    BY <1>1 DEF TimeInv, IInv, LinkedOnce
  <2>3. d <= longest /\ d \in 0 .. Word - 1
    BY <2>1, ClientAssumption DEF FarFromWrap
  <2>4. d \in Nat
    BY <2>3, RtcAssumption
  <2> QED BY <2>1, <2>2, <2>3, <2>4, ClientAssumption
<1>3. PICK now \in Nat :
        /\ raw = now + d /\ raw \in Nat /\ ~(raw < last)
        /\ last <= now /\ now <= last + RtcMax
        /\ active # <<>> => now = last + Elapsed
        /\ Owed(active, now, due)
  BY <1>1, <1>2, InsertTime
<1>4. /\ \/ /\ InsertPoint(active, raw, 1)
            /\ StartTimerAtHead(<<node>> \o rest, last, 0)
            /\ ovf' = FALSE
         \/ \E p \in 2 .. Len(active) + 1 :
            /\ InsertPoint(active, raw, p)
            /\ active' = InsertAt(active, p, node)
            /\ last' = last
            /\ UNCHANGED <<load, running, cnt, ovf>>
      /\ due' = [due EXCEPT ![t] = d + 1]
      /\ call' = Idle /\ queue' = queue
  BY <1>3 DEF Insert
<1>5. /\ InReach(reach) /\ reach \in Nat /\ beyond \in Nat /\ Horizon \in Nat /\ RtcMax \in Nat
      /\ longest \in Nat /\ beyond < Word /\ reach <= beyond
  BY <1>1, RtcAssumption, ClientAssumption, SMTT(60) DEF Bounded, Creating, FarFromWrap
<1>6. /\ last < Horizon => raw <= reach
      /\ raw <= beyond
  BY <1>1, <1>2, <1>3, <1>5 DEF InReach
<1> HIDE DEF raw, d, t, rest
<1>7. node \in Entry /\ node.timer = t /\ node.at = raw
  <2>1. raw \in 0 .. Word - 1
    BY <1>3, <1>5, <1>6, RtcAssumption
  <2> QED BY <1>2, <2>1 DEF Entry, t
<1> HIDE DEF node, reach, beyond
<1>8. ~Creating' /\ Unflagged'
  BY <1>4 DEF Idle, Creating, Unflagged
(* The new list and what is left to show of it.                            *)
<1>9. ASSUME last' = last,
             \A time \in Nat : InReach(time) /\ raw <= time => InReach(time)'
      PROVE  Bounded(longest)'
  <2>1. InReach(beyond)
    BY <1>1, <1>5, EntryTime DEF InReach, NoneAfter
  <2>2. \/ InReach(reach)'
        \/ last' >= Horizon /\ InReach(beyond)'
    BY <1>1, <1>5, <1>6, <1>9, <2>1
  <2> QED BY <1>8, <2>2 DEF Bounded, reach, beyond
<1>10. ASSUME Waiting(active') = Waiting(active) \cup {t}
       PROVE  ServiceStep
  <2>1. t \notin Waiting(active) /\ t \notin Service!Queued
    BY <1>2 DEF Waiting, Service!Queued, ToSet
  <2>2. Service!Start(t, d)
    BY <1>4, <1>10, <2>1 DEF Service!Start, Waiting
  <2> QED BY <1>2, <2>2 DEF ServiceStep, Service!Next
<1>11. due'[t] = d + 1 /\ due'[t] <= raw - now + 1
  BY <1>1, <1>2, <1>3, <1>4
<1>12. Owed(active, now, due')
  BY <1>1, <1>2, <1>3, <1>4, OwedToOthers
(* A new head takes the place of the dummy.                                *)
<1>13. CASE /\ InsertPoint(active, raw, 1)
            /\ StartTimerAtHead(<<node>> \o rest, last, 0)
            /\ ovf' = FALSE
  <2>1. /\ rest \in Seq(Entry) /\ Among(rest, active) /\ Ascending(rest)
        /\ Waiting(rest) = Waiting(active)
        /\ 1 <= Len(rest) => rest[1].at >= raw
    <3>1. active # <<>> => active[1].at > raw /\ active[1].at \in Nat
      <4>1. active # <<>> => 1 <= Len(active) /\ 1 \in DOMAIN active
        BY <1>1
      <4> QED BY <1>1, <1>13, <4>1, EntryTime DEF InsertPoint
    <3>2. CASE active # <<>> /\ active[1].timer = Dummy
      <4>1. rest = Tail(active)
        BY <3>2 DEF rest
      <4>2. /\ rest \in Seq(Entry) /\ Among(rest, active) /\ Ascending(rest)
            /\ Waiting(rest) = Waiting(active) \ {Dummy} /\ NoneBefore(rest, active[1].at)
        BY <1>1, <3>2, <4>1, TailOfList
      <4>3. Waiting(rest) = Waiting(active)
        BY <4>2 DEF Waiting
      <4>4. ASSUME 1 <= Len(rest) PROVE rest[1].at >= raw
        <5>1. 1 \in DOMAIN rest
          BY <4>2, <4>4
        <5>2. rest[1].at \in Nat /\ rest[1].at >= active[1].at
          BY <4>2, <5>1, EntryTime DEF NoneBefore
        <5> QED BY <1>3, <3>1, <3>2, <5>2
      <4> QED BY <4>2, <4>3, <4>4
    <3>3. CASE ~(active # <<>> /\ active[1].timer = Dummy)
      <4>1. rest = active
        BY <3>3 DEF rest
      <4>2. 1 <= Len(active) => active[1].at >= raw
        BY <1>1, <1>3, <3>1
      <4> QED BY <1>1, <4>1, <4>2 DEF Among
    <3> QED BY <3>2, <3>3
  <2> DEFINE u == <<node>> \o rest
  <2>2. /\ u \in Seq(Entry) /\ Len(u) = Len(rest) + 1 /\ u # <<>>
        /\ \A i \in 1 .. Len(rest) + 1 :
             u[i] = IF i < 1 THEN rest[i] ELSE IF i = 1 THEN node ELSE rest[i - 1]
    <3>1. /\ u \in Seq(Entry) /\ Len(u) = Len(rest) + 1 /\ Len(rest) \in Nat
          /\ \A i \in 1 .. Len(rest) + 1 : u[i] = IF i = 1 THEN node ELSE rest[i - 1]
      BY <1>7, <2>1, PrefixFacts
    <3> HIDE DEF u
    <3> QED BY <3>1
  <2> HIDE DEF u
  <2>3. /\ Ascending(u) /\ Waiting(u) = Waiting(rest) \cup {t}
        /\ \A i \in DOMAIN u : u[i] = node \/ \E j \in DOMAIN rest : u[i] = rest[j]
    <3>1. 1 \in 1 .. Len(rest) + 1 /\ \A i \in 1 .. 1 - 1 : rest[i].at <= node.at
      BY <2>1
    <3>2. node.timer # Dummy /\ (1 <= Len(rest) => rest[1].at >= node.at)
      BY <1>2, <1>7, <2>1
    <3>3. /\ Ascending(u) /\ Waiting(u) = Waiting(rest) \cup {node.timer}
          /\ \A i \in DOMAIN u : u[i] = node \/ \E j \in DOMAIN rest : u[i] = rest[j]
      BY <1>7, <2>1, <2>2, <3>1, <3>2, PutIntoList
    <3> QED BY <1>7, <3>3
  <2>4. NoneBefore(u, last)
    <3>1. NoneBefore(rest, last)
      BY <1>1, <2>1, AmongKeeps
    <3>2. node.at >= last
      BY <1>1, <1>3, <1>7
    <3> QED BY <2>3, <3>1, <3>2, AmongOrNew
  <2>5. Owed(u, last, due')
    <3>1. Owed(rest, now, due')
      BY <1>12, <2>1, AmongKeeps
    <3>2. due'[node.timer] <= node.at - now + 1
      BY <1>7, <1>11
    <3>3. Owed(u, now, due')
      BY <2>3, <3>1, <3>2, AmongOrNew
    <3>4. due' \in [Timers -> Nat]
      BY <1>1 DEF TypeOK
    <3> QED BY <1>1, <1>3, <2>2, <3>3, <3>4, OwedEarlier
  <2>6. /\ OnTime' /\ Waiting(active') = Waiting(u)
        /\ \A time \in Nat : last <= time /\ NoneAfter(u, time) => InReach(time)'
        /\ last' = last
    <3>1. StartTimerAtHead(u, last, 0)
      BY <1>13 DEF u
    <3>2. last' = last
      BY <2>2, <3>1 DEF StartTimerAtHead
    <3>3. ~ovf'
      BY <1>13
    <3> QED BY <1>1, <2>2, <2>3, <2>4, <2>5, <3>1, <3>2, <3>3, StartKeepsTime
  <2>7. \A time \in Nat : InReach(time) /\ raw <= time => InReach(time)'
    <3> SUFFICES ASSUME NEW time \in Nat, InReach(time), raw <= time PROVE InReach(time)'
      OBVIOUS
    <3>1. NoneAfter(rest, time) /\ last <= time /\ node.at <= time
      BY <1>7, <2>1, AmongKeeps DEF InReach
    <3>2. NoneAfter(u, time)
      BY <2>3, <3>1, AmongOrNew
    <3> QED BY <2>6, <3>1, <3>2
  <2> QED BY <1>9, <1>10, <2>1, <2>3, <2>6, <2>7
(* Behind the head nothing changes for the countdown.                      *)
<1>14. ASSUME NEW p \in 2 .. Len(active) + 1, InsertPoint(active, raw, p),
              active' = InsertAt(active, p, node), last' = last,
              UNCHANGED <<load, running, cnt, ovf>>
       PROVE  OnTime' /\ Bounded(longest)' /\ ServiceStep
  <2>1. p \in 1 .. Len(active) + 1 /\ active # <<>> /\ Len(active) \in Nat
    BY <1>1
  <2>2. /\ active' \in Seq(Entry) /\ Len(active') = Len(active) + 1
        /\ \A i \in 1 .. Len(active) + 1 :
             active'[i] = IF i < p THEN active[i] ELSE IF i = p THEN node ELSE active[i - 1]
    <3> DEFINE u == InsertAt(active, p, node)
    <3>1. /\ u \in Seq(Entry) /\ Len(u) = Len(active) + 1
          /\ \A i \in 1 .. Len(active) + 1 :
               u[i] = IF i < p THEN active[i] ELSE IF i = p THEN node ELSE active[i - 1]
      BY <1>1, <1>7, <2>1, InsertAtFacts
    <3>2. active' = u
      BY <1>14
    <3> HIDE DEF u
    <3> QED BY <3>1, <3>2
  <2>3. /\ Ascending(active') /\ Waiting(active') = Waiting(active) \cup {t}
        /\ \A i \in DOMAIN active' : active'[i] = node \/ \E j \in DOMAIN active : active'[i] = active[j]
    <3>1. /\ \A i \in 1 .. p - 1 : active[i].at <= node.at
          /\ p <= Len(active) => active[p].at >= node.at
      <4>1. p <= Len(active) => active[p].at \in Nat
        BY <1>1, <2>1, EntryTime
      <4> QED BY <1>3, <1>7, <1>14, <4>1 DEF InsertPoint
    <3>2. node.timer # Dummy
      BY <1>2, <1>7
    <3>3. /\ Ascending(active') /\ Waiting(active') = Waiting(active) \cup {node.timer}
          /\ \A i \in DOMAIN active' :
               active'[i] = node \/ \E j \in DOMAIN active : active'[i] = active[j]
      BY <1>1, <1>7, <2>1, <2>2, <3>1, <3>2, PutIntoList
    <3> QED BY <1>7, <3>3
  <2>4. OnTime'
    <3>1. Elapsed' = Elapsed /\ last' = last /\ active' # <<>>
      BY <1>14, <2>1, <2>2 DEF Elapsed
    <3>2. NoneBefore(active', last)
      <4>1. node.at >= last
        BY <1>1, <1>3, <1>7
      <4> QED BY <1>1, <2>3, <4>1, AmongOrNew
    <3>3. Owed(active', last + Elapsed, due')
      <4>1. due'[node.timer] <= node.at - now + 1
        BY <1>7, <1>11
      <4>2. Owed(active', now, due')
        BY <1>12, <2>3, <4>1, AmongOrNew
      <4> QED BY <1>3, <2>1, <4>2
    <3>4. HeadDue'
      <4>1. active'[1] = active[1] /\ 1 \in DOMAIN active
        BY <2>1, <2>2
      <4>2. active[1].timer # t
        BY <1>2, <4>1 DEF LinkedIn
      <4> QED BY <1>1, <1>4, <1>14, <2>1, <4>1, <4>2 DEF OnTime, HeadDue
    <3> QED BY <1>8, <2>3, <3>1, <3>2, <3>3, <3>4 DEF OnTime, Stopped
  <2>5. \A time \in Nat : InReach(time) /\ raw <= time => InReach(time)'
    <3> SUFFICES ASSUME NEW time \in Nat, InReach(time), raw <= time PROVE InReach(time)'
      OBVIOUS
    <3>1. NoneAfter(active, time) /\ last <= time /\ node.at <= time
      BY <1>7 DEF InReach
    <3>2. NoneAfter(active', time)
      BY <2>3, <3>1, AmongOrNew
    <3> QED BY <1>14, <3>1, <3>2 DEF InReach
  <2> QED BY <1>9, <1>10, <1>14, <2>3, <2>4, <2>5
<1> QED BY <1>4, <1>13, <1>14

-----------------------------------------------------------------------------
LEMMA InitTimeInv ==
  ASSUME NEW longest, FarFromWrap(longest), Init
  PROVE  TimeInv(longest) /\ Service!Init
<1>1. /\ active = <<>> /\ DOMAIN active = {} /\ queue = <<>> /\ last = 0 /\ running = FALSE
      /\ call.at = "idle" /\ due = [t \in Timers |-> 0]
  BY DEF Init, Idle
<1>2. OnTime
  BY <1>1 DEF OnTime, Ascending, NoneBefore, Owed, HeadDue, Unflagged, Stopped
<1>3. Bounded(longest)
  <2>1. 0 <= Horizon + RtcMax + longest
    BY RtcAssumption, ClientAssumption DEF FarFromWrap
  <2> QED BY <1>1, <2>1 DEF Bounded, InReach, NoneAfter
<1>4. Service!Init
  BY <1>1 DEF Service!Init, LinkedIn
<1> QED BY <1>2, <1>3, <1>4, InitIInv DEF TimeInv

LEMMA NextTimeInv ==
  ASSUME NEW longest, FarFromWrap(longest), TimeInv(longest), [Next]_vars
  PROVE  TimeInv(longest)' /\ [Service!Next]_(Service!vars)
<1>1. IInv'
  BY NextIInv DEF TimeInv
<1>2. OnTime' /\ Bounded(longest)' /\ ServiceStep
  <2>1. CASE Tick
    BY <2>1, TickOnTime
  <2>2. CASE Expire
    BY <1>1, <2>2, ExpireOnTime
  <2>3. CASE UnlinkActive
    BY <1>1, <2>3, UnlinkActiveOnTime
  <2>4. CASE UnlinkQueued
    BY <1>1, <2>4, UnlinkQueuedOnTime
  <2>5. CASE Insert
    BY <1>1, <2>5, InsertOnTime
  <2>6. CASE \/ CheckEmpty \/ Mask \/ MaskInsert \/ BeginDispatch \/ Dispatch \/ Client
             \/ UNCHANGED vars \/ ExpireNothing
             \/ \E d \in Timeouts \cup {0} : CallbackReturns(d)
    BY <1>1, <2>6, MovesOnTime
  <2> QED BY <2>1, <2>2, <2>3, <2>4, <2>5, <2>6 DEF Next, Interrupt, InCall, Crashed
<1>3. [Service!Next]_(Service!vars)
  BY <1>2 DEF ServiceStep, Service!vars, Waiting
<1> QED BY <1>1, <1>2, <1>3 DEF TimeInv

(* A timer waits, expires no earlier than asked for, is queued behind      *)
(* those that expired before it and is handed over once (timeout.h:67):    *)
(* the driver implements TimerService, for any interleaving of its calls   *)
(* with its interrupt, any number of timers and any counter.               *)
THEOREM ImplementsTimerService ==
  ASSUME NEW CONSTANT longest, FarFromWrap(longest)
  PROVE  Spec => ImplementsService
<1>1. Init => TimeInv(longest) /\ Service!Init
  BY InitTimeInv
<1>2. TimeInv(longest) /\ [Next]_vars => TimeInv(longest)' /\ [Service!Next]_(Service!vars)
  BY NextTimeInv
<1> QED BY <1>1, <1>2, PTL DEF Spec, ImplementsService, Service!Spec

(* The list is always in the order in which its timers expire              *)
(* (timeout.c:149), so the interrupt handler finds the right one at its    *)
(* head.                                                                   *)
THEOREM AlwaysSorted ==
  ASSUME NEW CONSTANT longest, FarFromWrap(longest)
  PROVE  Spec => []SortedByTime
<1>1. Init => TimeInv(longest)
  BY InitTimeInv
<1>2. TimeInv(longest) /\ [Next]_vars => TimeInv(longest)'
  BY NextTimeInv
<1>3. TimeInv(longest) => SortedByTime
  BY DEF TimeInv, OnTime, Ascending, SortedByTime
<1> QED BY <1>1, <1>2, <1>3, PTL DEF Spec

(* A step of the service queues a timer only when nothing is owed to it.   *)
LEMMA QueuedIsNotOwed ==
  ASSUME queue \in Seq(Timers), [Service!Next]_(Service!vars), NEW t \in Timers,
         Len(queue') > Len(queue), queue'[Len(queue')] = t
  PROVE  due[t] = 0
<1>1. Len(queue) \in Nat
  OBVIOUS
<1>2. queue' # queue
  BY <1>1
<1>3. CASE Service!Tick \/ \E u \in Timers, d \in Timeouts : Service!Start(u, d)
  BY <1>2, <1>3 DEF Service!Tick, Service!Start
<1>4. CASE Service!Dispatch
  BY <1>1, <1>4 DEF Service!Dispatch
<1>5. ASSUME NEW u \in Timers, Service!Cancel(u) PROVE FALSE
  <2>1. PICK i \in DOMAIN queue : queue' = RemoveAt(queue, i)
    BY <1>2, <1>5 DEF Service!Cancel, Service!RemoveAt, RemoveAt
  <2>2. Len(queue') = Len(queue) - 1
    BY <2>1, RemoveAtFacts
  <2> QED BY <1>1, <2>2
<1>6. ASSUME NEW u \in Timers, Service!Expire(u) PROVE due[t] = 0
  <2>1. due[u] = 0 /\ queue' = Append(queue, u)
    BY <1>6 DEF Service!Expire
  <2>2. queue'[Len(queue')] = u
    BY <2>1
  <2> QED BY <2>1, <2>2
<1> QED BY <1>2, <1>3, <1>4, <1>5, <1>6 DEF Service!Next, Service!vars

(* A timer reaches the execute queue only when the ticks it asked for have *)
(* passed (timeout.h:67).  An edge in delete's masked section, which       *)
(* FarFromWrap excludes, is all that breaks this far from the wrap.        *)
THEOREM ExpiresOnlyWhenDue ==
  ASSUME NEW CONSTANT longest, FarFromWrap(longest)
  PROVE  Spec => NeverEarly
<1>1. Init => TimeInv(longest)
  BY InitTimeInv
<1>2. TimeInv(longest) /\ [Next]_vars => TimeInv(longest)'
  BY NextTimeInv
<1>3. ASSUME TimeInv(longest), [Next]_vars
      PROVE  [\A t \in Timers :
                Len(queue') > Len(queue) /\ queue'[Len(queue')] = t => due[t] = 0]_vars
  <2>1. queue \in Seq(Timers) /\ [Service!Next]_(Service!vars)
    BY <1>3, NextTimeInv DEF TimeInv, IInv, TypeOK
  <2> QED BY <2>1, QueuedIsNotOwed
<1> QED BY <1>1, <1>2, <1>3, PTL DEF Spec, NeverEarly
=============================================================================
