----------------------- MODULE TimeoutSchedulerProofs -----------------------
(***************************************************************************)
(* Proofs about TimeoutScheduler for every set of timers, counter range,   *)
(* word size and set of timeouts.                                          *)
(***************************************************************************)
EXTENDS TimeoutScheduler, SequenceFacts, TLAPS

(* Arithmetic modulo the word size. *)
LEMMA TimeRange ==
  ASSUME NEW a \in Int, NEW b \in Int
  PROVE  Sub(a, b) \in 0 .. Word - 1 /\ Add(a, b) \in 0 .. Word - 1
<1>1. Word \in Nat \ {0} /\ a - b \in Int /\ a + b \in Int
  BY RtcAssumption
<1> QED BY <1>1, ModRange DEF Sub, Add

(* Moving the origin of time changes no distance. *)
LEMMA SubShift ==
  ASSUME NEW a \in Int, NEW b \in Int, NEW c \in Int
  PROVE  Sub(Sub(a, c), Sub(b, c)) = Sub(a, b)
<1> DEFINE W == Word
<1>0. W \in Nat \ {0}
  BY RtcAssumption
<1>1. PICK i \in Int : a - c = W * i + Sub(a, c)
  BY <1>0, ModQuotient, a - c \in Int DEF Sub
<1>2. PICK j \in Int : b - c = W * j + Sub(b, c)
  BY <1>0, ModQuotient, b - c \in Int DEF Sub
<1>3. PICK k \in Int : a - b = W * k + Sub(a, b)
  BY <1>0, ModQuotient, a - b \in Int DEF Sub
<1>4. Sub(a, b) \in 0 .. W - 1 /\ Sub(a, c) \in Int /\ Sub(b, c) \in Int
  BY <1>0 DEF Sub
<1>5. Sub(a, c) - Sub(b, c) = W * (k - i + j) + Sub(a, b)
  <2>1. W * (k - i + j) = W * k - W * i + W * j
    BY <1>0
  <2>2. W * i \in Int /\ W * j \in Int /\ W * k \in Int
    BY <1>0
  <2> HIDE DEF W
  <2> QED BY <2>1, <2>2, <1>1, <1>2, <1>3, <1>4
<1>6. k - i + j \in Int
  OBVIOUS
<1> DEFINE x == Sub(a, c) - Sub(b, c)
           q == k - i + j
           r == Sub(a, b)
<1>7. x \in Int /\ q \in Int /\ r \in 0 .. W - 1 /\ x = W * q + r
  BY <1>4, <1>5, <1>6
<1> HIDE DEF W, x, q, r
<1>8. x % W = r
  BY <1>0, <1>7, ModUnique
<1> QED BY <1>8 DEF Sub, W, x, r

(* The dummy stands exactly RtcMax after the last timeout. *)
LEMMA SubAdd ==
  ASSUME NEW b \in Int, NEW r \in 0 .. Word - 1
  PROVE  Sub(Add(b, r), b) = r
<1> DEFINE W == Word
<1>0. W \in Nat \ {0} /\ r \in 0 .. W - 1
  BY RtcAssumption
<1>1. PICK i \in Int : b + r = W * i + Add(b, r)
  BY <1>0, ModQuotient, b + r \in Int DEF Add
<1>2. Add(b, r) \in Int
  BY <1>0 DEF Add
<1>3. Add(b, r) - b = W * (-i) + r /\ -i \in Int
  BY <1>0, <1>1, <1>2
<1> DEFINE x == Add(b, r) - b
           q == -i
<1>4. x \in Int /\ q \in Int /\ x = W * q + r
  BY <1>2, <1>3
<1> HIDE DEF W, x, q
<1>5. x % W = r
  BY <1>0, <1>4, ModUnique
<1> QED BY <1>5 DEF Sub, W, x

-----------------------------------------------------------------------------

(* An entry put in front of a list. *)
LEMMA PrefixFacts ==
  ASSUME NEW S, NEW s \in Seq(S), NEW e \in S
  PROVE  /\ <<e>> \o s \in Seq(S)
         /\ Len(<<e>> \o s) = Len(s) + 1
         /\ \A j \in 1 .. Len(s) + 1 : (<<e>> \o s)[j] = IF j = 1 THEN e ELSE s[j - 1]
  OBVIOUS

LEMMA TailFacts ==
  ASSUME NEW S, NEW s \in Seq(S), s # <<>>
  PROVE  /\ Tail(s) \in Seq(S)
         /\ Len(Tail(s)) = Len(s) - 1
         /\ \A j \in 1 .. Len(s) - 1 : Tail(s)[j] = s[j + 1]
         /\ Len(s) \in Nat \ {0} /\ s[1] \in S /\ Head(s) = s[1]
  OBVIOUS
-----------------------------------------------------------------------------
(* What scheduler_start_timer_at_head does to a well-formed list. *)

(* After it a non-empty list is armed for its head, and values keep their types. *)
LEMMA StartArms ==
  ASSUME NEW list \in Seq(Entry), NEW base \in 0 .. Word - 1,
         NEW oldLoad \in 0 .. RtcMax, cnt \in 0 .. RtcMax,
         StartTimerAtHead(list, base, oldLoad)
  PROVE  /\ active' \in Seq(Entry) /\ last' \in 0 .. Word - 1
         /\ load' \in 0 .. RtcMax /\ cnt' \in 0 .. RtcMax
         /\ running' \in BOOLEAN /\ ie' \in BOOLEAN
         /\ active' # <<>> =>
              /\ running' = TRUE /\ ie' = TRUE
              /\ Sub(active'[1].at, last') <= RtcMax
              /\ load' = LoadFor(Sub(active'[1].at, last'))
              /\ cnt' = load'
<1> DEFINE dummy == [timer |-> Dummy, at |-> Add(base, RtcMax)]
<1>0. RtcMax \in 0 .. Word - 1 /\ RtcMax \in Nat /\ Word \in Nat \ {0}
  BY RtcAssumption
<1>1. CASE list = <<>>
  <2>1. active' = <<>> /\ load' = oldLoad /\ cnt' = cnt /\ StopTimeouts
    BY <1>1 DEF StartTimerAtHead
  <2>2. active' \in Seq(Entry)
    BY <2>1
  <2>3. last' \in 0 .. Word - 1 /\ load' \in 0 .. RtcMax /\ cnt' \in 0 .. RtcMax
    BY <2>1, <1>0 DEF StopTimeouts
  <2>4. running' \in BOOLEAN /\ ie' \in BOOLEAN
    BY <2>1 DEF StopTimeouts
  <2> QED BY <2>1, <2>2, <2>3, <2>4
<1>2. CASE list # <<>>
  <2>1. list[1] \in Entry
    BY <1>2, TailFacts
  <2>2. list[1].at \in Int /\ Sub(list[1].at, base) \in 0 .. Word - 1
    <3>1. list[1].at \in Int /\ base \in Int
      BY <2>1, <1>0 DEF Entry
    <3> QED BY <3>1, TimeRange
  <2>3. CASE Sub(list[1].at, base) > RtcMax
    <3>1. active' = <<dummy>> \o list /\ last' = base /\ Arm(RtcMax)
      BY <1>2, <2>3 DEF StartTimerAtHead
    <3>2. dummy \in Entry
      <4>1. base \in Int /\ RtcMax \in Int
        BY <1>0
      <4> QED BY <4>1, TimeRange DEF Entry
    <3>3. active' \in Seq(Entry) /\ active'[1] = dummy
      BY <3>1, <3>2, PrefixFacts
    <3>4. Sub(active'[1].at, last') = RtcMax
      BY <3>1, <3>3, <1>0, SubAdd
    <3> QED BY <3>1, <3>3, <3>4, <1>0 DEF Arm, LoadFor
  <2>4. CASE ~(Sub(list[1].at, base) > RtcMax)
    <3>1. active' = list /\ last' = base /\ Arm(Sub(list[1].at, base))
      BY <1>2, <2>4 DEF StartTimerAtHead
    <3> QED BY <3>1, <2>2, <2>4, <1>0 DEF Arm, LoadFor
  <2> QED BY <2>3, <2>4
<1> QED BY <1>1, <1>2

(* It links no timer and unlinks none: at most it puts the dummy in front, and
   only of a list whose head is out of the counter's range. *)
LEMMA StartKeepsLinks ==
  ASSUME NEW list \in Seq(Entry), NEW base \in 0 .. Word - 1, NEW oldLoad,
         StartTimerAtHead(list, base, oldLoad),
         Distinct(list), DummyFirst(list),
         list # <<>> /\ list[1].timer = Dummy => Sub(list[1].at, base) <= RtcMax
  PROVE  /\ Distinct(active') /\ DummyFirst(active')
         /\ LinkedIn(active') \subseteq LinkedIn(list) \cup {Dummy}
<1> DEFINE dummy == [timer |-> Dummy, at |-> Add(base, RtcMax)]
<1>1. CASE active' = list
  BY <1>1
<1>2. CASE active' # list
  <2>1. list # <<>> /\ Sub(list[1].at, base) > RtcMax /\ active' = <<dummy>> \o list
    BY <1>2 DEF StartTimerAtHead
  <2>2. Len(list) \in Nat /\ list[1].timer # Dummy
    <3>1. list[1] \in Entry
      BY <2>1, TailFacts
    <3>2. list[1].at \in Int /\ base \in Int
      BY <3>1, RtcAssumption DEF Entry
    <3>3. Sub(list[1].at, base) \in 0 .. Word - 1
      BY <3>2, TimeRange
    <3> QED BY <2>1, <3>3, RtcAssumption
  <2>3. dummy \in Entry
    <3>1. base \in Int /\ RtcMax \in Int
      BY RtcAssumption
    <3> QED BY <3>1, TimeRange DEF Entry
  <2>4. /\ Len(active') = Len(list) + 1
        /\ \A j \in 1 .. Len(list) + 1 : active'[j] = IF j = 1 THEN dummy ELSE list[j - 1]
        /\ DOMAIN active' = 1 .. Len(list) + 1 /\ DOMAIN list = 1 .. Len(list)
    BY <2>1, <2>3, PrefixFacts
  <2>5. \A j \in 1 .. Len(list) : list[j].timer # Dummy
    BY <2>2, <2>4 DEF DummyFirst
  <2> HIDE DEF dummy
  <2>6. dummy.timer = Dummy
    BY DEF dummy
  <2>7. Distinct(active')
    BY <2>2, <2>4, <2>5, <2>6, SMTT(60) DEF Distinct
  <2>8. DummyFirst(active')
    BY <2>2, <2>4, <2>5 DEF DummyFirst
  <2>9. LinkedIn(active') \subseteq LinkedIn(list) \cup {Dummy}
    <3>1. ASSUME NEW j \in 1 .. Len(list) + 1
          PROVE  active'[j].timer \in LinkedIn(list) \cup {Dummy}
      <4>1. CASE j = 1
        BY <4>1, <2>4, <2>6
      <4>2. CASE j # 1
        <5>1. j - 1 \in DOMAIN list /\ active'[j] = list[j - 1]
          BY <4>2, <2>2, <2>4
        <5> QED BY <5>1 DEF LinkedIn
      <4> QED BY <4>1, <4>2
    <3> QED BY <3>1, <2>4 DEF LinkedIn
  <2> QED BY <2>7, <2>8, <2>9
<1> QED BY <1>1, <1>2
-----------------------------------------------------------------------------
(* What the list operations of the scheduler do to the set of linked timers. *)

(* A list whose nodes all come from other places of a given list. *)
LEMMA Reindexed ==
  ASSUME NEW list, NEW u, NEW from, Distinct(list), DummyFirst(list),
         \A j \in DOMAIN u : from[j] \in DOMAIN list /\ u[j] = list[from[j]],
         \A j, k \in DOMAIN u : from[j] = from[k] => j = k,
         \A j \in DOMAIN u : from[j] = 1 => j = 1
  PROVE  /\ Distinct(u) /\ DummyFirst(u)
         /\ \A i \in DOMAIN list :
              (\A j \in DOMAIN u : from[j] # i) =>
                LinkedIn(u) \subseteq LinkedIn(list) \ {list[i].timer}
<1>1. ASSUME NEW j \in DOMAIN u, NEW k \in DOMAIN u, u[j].timer = u[k].timer
      PROVE  j = k
  <2>1. from[j] \in DOMAIN list /\ from[k] \in DOMAIN list
    OBVIOUS
  <2>2. list[from[j]].timer = list[from[k]].timer
    BY <1>1
  <2>3. from[j] = from[k]
    BY <2>1, <2>2 DEF Distinct
  <2> QED BY <2>3
<1>2. ASSUME NEW j \in DOMAIN u, u[j].timer = Dummy
      PROVE  j = 1
  <2>1. from[j] \in DOMAIN list /\ list[from[j]].timer = Dummy
    BY <1>2
  <2> QED BY <2>1 DEF DummyFirst
<1>3. ASSUME NEW i \in DOMAIN list, \A j \in DOMAIN u : from[j] # i, NEW j \in DOMAIN u
      PROVE  u[j].timer \in LinkedIn(list) \ {list[i].timer}
  <2>1. from[j] \in DOMAIN list /\ u[j] = list[from[j]] /\ from[j] # i
    BY <1>3
  <2>2. list[from[j]].timer # list[i].timer
    BY <2>1 DEF Distinct
  <2> QED BY <2>1, <2>2 DEF LinkedIn
<1>4. Distinct(u)
  BY <1>1 DEF Distinct
<1>5. DummyFirst(u)
  BY <1>2 DEF DummyFirst
<1>6. ASSUME NEW i \in DOMAIN list, \A j \in DOMAIN u : from[j] # i
      PROVE  LinkedIn(u) \subseteq LinkedIn(list) \ {list[i].timer}
  BY <1>3, <1>6 DEF LinkedIn
<1> QED BY <1>4, <1>5, <1>6

(* Taking the head off; it may have been the dummy, which is nowhere else. *)
LEMMA TailLinks ==
  ASSUME NEW list \in Seq(Entry), list # <<>>, Distinct(list), DummyFirst(list)
  PROVE  /\ Tail(list) \in Seq(Entry)
         /\ Distinct(Tail(list)) /\ DummyFirst(Tail(list))
         /\ LinkedIn(Tail(list)) \subseteq LinkedIn(list) \ {list[1].timer}
         /\ Tail(list) # <<>> => Tail(list)[1].timer # Dummy
         /\ list[1] \in Entry /\ list[1].timer \in LinkedIn(list)
<1> DEFINE n == Len(list)
           u == Tail(list)
           from == [j \in 1 .. n - 1 |-> j + 1]
<1>1. /\ n \in Nat \ {0} /\ list[1] \in Entry /\ DOMAIN list = 1 .. n
      /\ u \in Seq(Entry) /\ Len(u) = n - 1 /\ DOMAIN u = 1 .. n - 1
      /\ \A j \in 1 .. n - 1 : u[j] = list[j + 1]
  BY TailFacts
<1> HIDE DEF n, u
<1>2. /\ \A j \in DOMAIN u : from[j] \in DOMAIN list /\ u[j] = list[from[j]]
      /\ \A j, k \in DOMAIN u : from[j] = from[k] => j = k
      /\ \A j \in DOMAIN u : from[j] # 1
      /\ \A j \in DOMAIN u : from[j] = 1 => j = 1
      /\ 1 \in DOMAIN list
  BY <1>1
<1> HIDE DEF from
<1>3. /\ Distinct(u) /\ DummyFirst(u)
      /\ LinkedIn(u) \subseteq LinkedIn(list) \ {list[1].timer}
  BY <1>2, Reindexed
<1>4. ASSUME u # <<>> PROVE u[1].timer # Dummy
  <2>1. 1 \in DOMAIN u
    BY <1>1, <1>4
  <2>2. from[1] \in DOMAIN list /\ from[1] # 1 /\ u[1] = list[from[1]]
    BY <2>1, <1>2
  <2>3. list[from[1]].timer # Dummy
    BY <2>2 DEF DummyFirst
  <2> QED BY <2>2, <2>3
<1>5. list[1].timer \in LinkedIn(list)
  BY <1>2 DEF LinkedIn
<1> QED BY <1>1, <1>3, <1>4, <1>5 DEF u

(* Cutting a node out behind the head. *)
LEMMA RemoveLinks ==
  ASSUME NEW list \in Seq(Entry), Distinct(list), DummyFirst(list),
         NEW i \in 2 .. Len(list)
  PROVE  /\ RemoveAt(list, i) \in Seq(Entry)
         /\ Distinct(RemoveAt(list, i)) /\ DummyFirst(RemoveAt(list, i))
         /\ LinkedIn(RemoveAt(list, i)) \subseteq LinkedIn(list) \ {list[i].timer}
         /\ list # <<>> /\ RemoveAt(list, i)[1] = list[1]
<1> DEFINE n == Len(list)
           u == RemoveAt(list, i)
           from == [j \in 1 .. n - 1 |-> IF j < i THEN j ELSE j + 1]
<1>1. n \in Nat /\ i \in 1 .. n /\ i \in 2 .. n /\ DOMAIN list = 1 .. n /\ list # <<>>
  BY SMTT(60)
<1>2. /\ u \in Seq(Entry) /\ Len(u) = n - 1
      /\ \A j \in 1 .. n - 1 : u[j] = IF j < i THEN list[j] ELSE list[j + 1]
  BY <1>1, RemoveAtFacts
<1> HIDE DEF n, u
<1>3. DOMAIN u = 1 .. n - 1
  BY <1>1, <1>2
<1>4. /\ \A j \in DOMAIN u : from[j] \in DOMAIN list
      /\ \A j \in DOMAIN u : u[j] = list[from[j]]
      /\ \A j, k \in DOMAIN u : from[j] = from[k] => j = k
      /\ \A j \in DOMAIN u : from[j] = 1 => j = 1
      /\ \A j \in DOMAIN u : from[j] # i
      /\ i \in DOMAIN list
  BY <1>1, <1>2, <1>3
<1> HIDE DEF from
<1>5. /\ Distinct(u) /\ DummyFirst(u)
      /\ LinkedIn(u) \subseteq LinkedIn(list) \ {list[i].timer}
  BY <1>4, Reindexed, SMTT(60)
<1>6. u[1] = list[1]
  BY <1>1, <1>2
<1> QED BY <1>1, <1>2, <1>5, <1>6 DEF u

(* Linking a node, in front of a list without the dummy or behind the head. *)
LEMMA InsertLinks ==
  ASSUME NEW list \in Seq(Entry), Distinct(list), DummyFirst(list),
         NEW p \in 1 .. Len(list) + 1, NEW e \in Entry, NEW u \in Seq(Entry),
         p = 1 => list = <<>> \/ list[1].timer # Dummy,
         e.timer # Dummy, e.timer \notin LinkedIn(list),
         Len(u) = Len(list) + 1,
         \A j \in 1 .. Len(list) + 1 :
           u[j] = IF j < p THEN list[j] ELSE IF j = p THEN e ELSE list[j - 1]
  PROVE  /\ Distinct(u) /\ DummyFirst(u)
         /\ LinkedIn(u) \subseteq LinkedIn(list) \cup {e.timer}
<1> DEFINE from(j) == IF j < p THEN j ELSE j - 1
<1>1. /\ Len(list) \in Nat /\ DOMAIN list = 1 .. Len(list) /\ p \in DOMAIN u
      /\ DOMAIN u = 1 .. Len(list) + 1
  OBVIOUS
<1>2. /\ u[p] = e
      /\ \A j \in DOMAIN u : j # p => from(j) \in DOMAIN list
      /\ \A j \in DOMAIN u : j # p => u[j] = list[from(j)]
      /\ \A j, k \in DOMAIN u : j # p /\ k # p /\ from(j) = from(k) => j = k
      /\ \A j \in DOMAIN u : j # p /\ from(j) = 1 => p = 1 \/ j = 1
  BY <1>1
<1> HIDE DEF from
<1>3. ASSUME NEW i \in DOMAIN list PROVE list[i].timer # e.timer
  BY <1>3 DEF LinkedIn
<1>4. ASSUME NEW j \in DOMAIN u, NEW k \in DOMAIN u, u[j].timer = u[k].timer
      PROVE  j = k
  <2>1. CASE j # p /\ k # p
    <3>1. from(j) \in DOMAIN list /\ from(k) \in DOMAIN list
      BY <2>1, <1>2
    <3>2. list[from(j)].timer = list[from(k)].timer
      BY <1>4, <2>1, <1>2
    <3>3. from(j) = from(k)
      BY <3>1, <3>2 DEF Distinct
    <3> QED BY <3>3, <2>1, <1>2
  <2>2. CASE j = p /\ k # p
    BY <2>2, <1>2, <1>3, <1>4
  <2>3. CASE j # p /\ k = p
    BY <2>3, <1>2, <1>3, <1>4
  <2> QED BY <2>1, <2>2, <2>3
<1>5. ASSUME NEW j \in DOMAIN u, u[j].timer = Dummy PROVE j = 1
  <2>1. j # p /\ from(j) \in DOMAIN list /\ list[from(j)].timer = Dummy
    BY <1>2, <1>5
  <2>2. from(j) = 1
    BY <2>1 DEF DummyFirst
  <2>3. p # 1
    <3>1. list[1].timer = Dummy /\ list # <<>>
      BY <2>1, <2>2, <1>1
    <3> QED BY <3>1
  <2> QED BY <1>2, <2>1, <2>2, <2>3
<1>6. ASSUME NEW j \in DOMAIN u PROVE u[j].timer \in LinkedIn(list) \cup {e.timer}
  <2>1. CASE j = p
    BY <2>1, <1>2
  <2>2. CASE j # p
    <3>1. from(j) \in DOMAIN list /\ u[j] = list[from(j)]
      BY <2>2, <1>2
    <3> QED BY <3>1 DEF LinkedIn
  <2> QED BY <2>1, <2>2
<1>7. Distinct(u)
  BY <1>4 DEF Distinct
<1>8. DummyFirst(u)
  BY <1>5 DEF DummyFirst
<1>9. LinkedIn(u) \subseteq LinkedIn(list) \cup {e.timer}
  BY <1>6 DEF LinkedIn
<1> QED BY <1>7, <1>8, <1>9

LEMMA InsertAtLinks ==
  ASSUME NEW list \in Seq(Entry), Distinct(list), DummyFirst(list),
         NEW p \in 2 .. Len(list) + 1, NEW e \in Entry,
         e.timer # Dummy, e.timer \notin LinkedIn(list)
  PROVE  /\ InsertAt(list, p, e) \in Seq(Entry)
         /\ Distinct(InsertAt(list, p, e)) /\ DummyFirst(InsertAt(list, p, e))
         /\ LinkedIn(InsertAt(list, p, e)) \subseteq LinkedIn(list) \cup {e.timer}
         /\ list # <<>> /\ InsertAt(list, p, e)[1] = list[1]
<1> DEFINE u == InsertAt(list, p, e)
<1>1. Len(list) \in Nat /\ p \in 1 .. Len(list) + 1 /\ p > 1 /\ list # <<>>
  OBVIOUS
<1>2. /\ u \in Seq(Entry) /\ Len(u) = Len(list) + 1
      /\ \A j \in 1 .. Len(list) + 1 :
           u[j] = IF j < p THEN list[j] ELSE IF j = p THEN e ELSE list[j - 1]
  BY <1>1, InsertAtFacts
<1> HIDE DEF u
<1>3. p # 1 /\ u[1] = list[1]
  BY <1>1, <1>2
<1>4. /\ Distinct(u) /\ DummyFirst(u)
      /\ LinkedIn(u) \subseteq LinkedIn(list) \cup {e.timer}
  BY <1>1, <1>2, <1>3, InsertLinks
<1> QED BY <1>1, <1>2, <1>3, <1>4 DEF u

LEMMA PrefixLinks ==
  ASSUME NEW list \in Seq(Entry), Distinct(list), DummyFirst(list),
         list # <<>> => list[1].timer # Dummy,
         NEW e \in Entry, e.timer # Dummy, e.timer \notin LinkedIn(list)
  PROVE  /\ <<e>> \o list \in Seq(Entry)
         /\ Distinct(<<e>> \o list) /\ DummyFirst(<<e>> \o list)
         /\ LinkedIn(<<e>> \o list) \subseteq LinkedIn(list) \cup {e.timer}
         /\ <<e>> \o list # <<>> /\ (<<e>> \o list)[1] = e
<1> DEFINE u == <<e>> \o list
           p == 1
<1>1. /\ u \in Seq(Entry) /\ Len(u) = Len(list) + 1 /\ Len(list) \in Nat
      /\ \A j \in 1 .. Len(list) + 1 : u[j] = IF j = 1 THEN e ELSE list[j - 1]
  BY PrefixFacts
<1> HIDE DEF u
<1>2. /\ p \in 1 .. Len(list) + 1
      /\ p = 1 => list = <<>> \/ list[1].timer # Dummy
      /\ \A j \in 1 .. Len(list) + 1 :
           u[j] = IF j < p THEN list[j] ELSE IF j = p THEN e ELSE list[j - 1]
  BY <1>1
<1>3. u # <<>> /\ u[1] = e
  BY <1>1
<1> HIDE DEF p
<1>4. /\ Distinct(u) /\ DummyFirst(u)
      /\ LinkedIn(u) \subseteq LinkedIn(list) \cup {e.timer}
  BY <1>1, <1>2, InsertLinks
<1> QED BY <1>1, <1>3, <1>4 DEF u

(* Rebasing moves every time and keeps the timers and their order. *)
LEMMA RebaseLinks ==
  ASSUME NEW list \in Seq(Entry), NEW base \in Int, Distinct(list), DummyFirst(list)
  PROVE  /\ Rebase(list, base) \in Seq(Entry)
         /\ Distinct(Rebase(list, base)) /\ DummyFirst(Rebase(list, base))
         /\ LinkedIn(Rebase(list, base)) = LinkedIn(list)
         /\ Len(Rebase(list, base)) = Len(list)
         /\ list # <<>> => /\ Rebase(list, base)[1].timer = list[1].timer
                          /\ Rebase(list, base)[1].at = Sub(list[1].at, base)
<1> DEFINE n == Len(list)
           u == Rebase(list, base)
<1>1. n \in Nat /\ DOMAIN list = 1 .. n /\ DOMAIN u = 1 .. n
  BY DEF Rebase
<1>2. ASSUME NEW j \in 1 .. n
      PROVE  u[j] \in Entry /\ u[j].timer = list[j].timer /\ u[j].at = Sub(list[j].at, base)
  <2>1. list[j] \in Entry /\ u[j] = [list[j] EXCEPT !.at = Sub(list[j].at, base)]
    BY <1>1 DEF Rebase
  <2>2. list[j].at \in Int
    BY <2>1, RtcAssumption DEF Entry
  <2>3. Sub(list[j].at, base) \in 0 .. Word - 1
    BY <2>2, TimeRange
  <2> QED BY <2>1, <2>3 DEF Entry
<1>3. u \in Seq(Entry) /\ Len(u) = n
  <2>1. u = [i \in 1 .. n |-> u[i]]
    BY <1>1 DEF Rebase
  <2> HIDE DEF u
  <2> QED BY <2>1, <1>1, <1>2
<1> HIDE DEF n, u
<1>4. Distinct(u) /\ DummyFirst(u) /\ LinkedIn(u) = LinkedIn(list)
  BY <1>1, <1>2 DEF Distinct, DummyFirst, LinkedIn
<1>5. list # <<>> => 1 \in 1 .. n
  BY <1>1 DEF n
<1> QED BY <1>2, <1>3, <1>4, <1>5 DEF u, n
-----------------------------------------------------------------------------
(* The inductive invariant: TypeOK, LinkedOnce and HeadArmed, with two facts
   about the interrupt coming inside a call.  A timer is not put in the queue
   while delete searches the queue for it: delete has already found that the
   active list does not hold it. *)
SearchOrder ==
  call.at \in {"check", "mask", "unlink"} /\ call.list = "queue" =>
    call.timer \notin LinkedIn(active)

(* The queue that call_next_callback found stays non-empty, and the mask it read
   is the one the running timers need: the interrupt starts no timer by itself. *)
DispatchOrder ==
  call.at = "dispatch" => queue # <<>> /\ (active # <<>> => call.tempIE)

IInv == TypeOK /\ LinkedOnce /\ HeadArmed /\ SearchOrder /\ DispatchOrder

-----------------------------------------------------------------------------
(* Where the main loop can be. *)

InDelete == {"check", "mask", "unlink"}

LEMMA CallShapes ==
  ASSUME NEW c \in Call
  PROVE  /\ c.at \in InDelete =>
              /\ c.timer \in Timers /\ c.list \in {"active", "queue"} /\ c.req \in Request
              /\ c = Deleting(c.at, c.list, c.timer, c.req)
         /\ c.at \in {"insert", "place"} =>
              /\ c.timer \in Timers /\ c.timeout \in Timeouts
              /\ c = Inserting(c.at, c.timer, c.timeout)
         /\ c.at = "callback" => c.timer \in Timers
         /\ c.at = "dispatch" => c.tempIE \in BOOLEAN
<1>1. CASE c = Idle
  BY <1>1 DEF Idle, InDelete
<1>2. CASE \E t \in Timers : c = Callback(t)
  BY <1>2 DEF Callback, InDelete
<1>3. CASE \E where \in {"insert", "place"}, t \in Timers, d \in Timeouts :
             c = Inserting(where, t, d)
  BY <1>3 DEF Inserting, InDelete
<1>6. CASE \E mask \in BOOLEAN : c = Dispatching(mask)
  BY <1>6 DEF Dispatching, InDelete
<1>4. ASSUME NEW where \in InDelete, NEW list \in {"active", "queue"},
             NEW t \in Timers, NEW req \in Request, c = Deleting(where, list, t, req)
      PROVE  /\ c.at = where /\ c.timer = t /\ c.list = list /\ c.req = req
             /\ c.at \in InDelete
  BY <1>4 DEF Deleting
<1>5. CASE \E where \in InDelete, list \in {"active", "queue"}, t \in Timers, req \in Request :
             c = Deleting(where, list, t, req)
  <2>1. PICK where \in InDelete, list \in {"active", "queue"}, t \in Timers, req \in Request :
             c = Deleting(where, list, t, req)
    BY <1>5
  <2>2. c.at = where /\ c.timer = t /\ c.list = list /\ c.req = req
    BY <2>1, <1>4
  <2> QED BY <2>1, <2>2 DEF InDelete
<1> QED BY <1>1, <1>2, <1>3, <1>5, <1>6 DEF Call, InDelete

LEMMA CallMembers ==
  /\ Idle \in Call
  /\ \A t \in Timers : Callback(t) \in Call
  /\ \A mask \in BOOLEAN : Dispatching(mask) \in Call
  /\ \A where \in {"insert", "place"}, t \in Timers, d \in Timeouts :
       Inserting(where, t, d) \in Call
  /\ \A where \in InDelete, list \in {"active", "queue"}, t \in Timers, req \in Request :
       Deleting(where, list, t, req) \in Call
BY DEF Call, InDelete

(* After the active list, the execute queue is searched; otherwise create
   goes on to its insertion, or the main loop is done. *)
LEMMA AfterHelperCases ==
  ASSUME NEW c \in Call, c.at \in InDelete, NEW found \in BOOLEAN
  PROVE  /\ AfterHelper(c, found) \in Call
         /\ LET r == AfterHelper(c, found) IN
              \/ r.at = "check" /\ r.list = "queue" /\ c.list = "active" /\ ~found
                 /\ r.timer = c.timer
              \/ r.at = "insert" /\ (c.list = "queue" \/ found) /\ r.timer = c.timer
              \/ r.at = "idle"
<1>1. c.timer \in Timers /\ c.list \in {"active", "queue"} /\ c.req \in Request
  BY CallShapes
<1>2. CASE c.list = "active" /\ ~found
  <2>1. AfterHelper(c, found) = Deleting("check", "queue", c.timer, c.req)
    BY <1>2 DEF AfterHelper
  <2>2. Deleting("check", "queue", c.timer, c.req) \in Call
    BY <1>1, CallMembers DEF InDelete
  <2> QED BY <2>1, <2>2, <1>2 DEF Deleting
<1>3. CASE ~(c.list = "active" /\ ~found) /\ c.req.op = "create"
  <2>1. AfterHelper(c, found) = Inserting("insert", c.timer, c.req.timeout)
    BY <1>3 DEF AfterHelper
  <2>2. c.req.timeout \in Timeouts
    BY <1>1, <1>3 DEF Request
  <2>3. Inserting("insert", c.timer, c.req.timeout) \in Call
    BY <1>1, <2>2, CallMembers
  <2> QED BY <2>1, <2>3, <1>1, <1>3 DEF Inserting
<1>4. CASE ~(c.list = "active" /\ ~found) /\ c.req.op # "create"
  <2>1. AfterHelper(c, found) = Idle
    BY <1>4 DEF AfterHelper
  <2> QED BY <2>1, CallMembers DEF Idle
<1> QED BY <1>2, <1>3, <1>4

(* The execute queue, which holds bare timers. *)
LEMMA QueueTail ==
  ASSUME NEW s \in Seq(Timers), s # <<>>, IsInjective(s)
  PROVE  /\ Tail(s) \in Seq(Timers) /\ IsInjective(Tail(s))
         /\ ToSet(Tail(s)) \subseteq ToSet(s) \ {Head(s)}
         /\ Head(s) \in Timers /\ Head(s) \in ToSet(s)
<1> DEFINE n == Len(s)
           u == Tail(s)
<1>1. /\ u \in Seq(Timers) /\ DOMAIN u = 1 .. n - 1 /\ DOMAIN s = 1 .. n
      /\ \A j \in 1 .. n - 1 : u[j] = s[j + 1]
      /\ n \in Nat \ {0} /\ s[1] \in Timers /\ Head(s) = s[1]
  BY TailFacts
<1> HIDE DEF n, u
<1>2. \A j \in DOMAIN u : j + 1 \in DOMAIN s /\ j + 1 # 1 /\ u[j] = s[j + 1]
  BY <1>1
<1>3. ASSUME NEW i \in DOMAIN u, NEW j \in DOMAIN u, u[i] = u[j] PROVE i = j
  <2>1. i + 1 = j + 1
    BY <1>2, <1>3 DEF IsInjective
  <2> QED BY <2>1, <1>1
<1>4. ASSUME NEW j \in DOMAIN u PROVE u[j] \in ToSet(s) \ {s[1]}
  <2>1. j + 1 \in DOMAIN s /\ 1 \in DOMAIN s /\ s[j + 1] # s[1]
    BY <1>1, <1>2 DEF IsInjective
  <2> QED BY <2>1, <1>2 DEF ToSet
<1>5. 1 \in DOMAIN s
  BY <1>1
<1> QED BY <1>1, <1>3, <1>4, <1>5 DEF u, ToSet, IsInjective

LEMMA QueueRemove ==
  ASSUME NEW s \in Seq(Timers), IsInjective(s), NEW i \in 2 .. Len(s)
  PROVE  /\ RemoveAt(s, i) \in Seq(Timers) /\ IsInjective(RemoveAt(s, i))
         /\ ToSet(RemoveAt(s, i)) \subseteq ToSet(s) \ {s[i]}
<1> DEFINE n == Len(s)
           u == RemoveAt(s, i)
           from == [j \in 1 .. n - 1 |-> IF j < i THEN j ELSE j + 1]
<1>1. n \in Nat /\ i \in 1 .. n /\ DOMAIN s = 1 .. n
  BY SMTT(60)
<1>2. /\ u \in Seq(Timers) /\ Len(u) = n - 1
      /\ \A j \in 1 .. n - 1 : u[j] = IF j < i THEN s[j] ELSE s[j + 1]
  BY <1>1, RemoveAtFacts
<1> HIDE DEF n, u
<1>3. DOMAIN u = 1 .. n - 1
  BY <1>1, <1>2
<1>4. /\ \A j \in DOMAIN u : from[j] \in DOMAIN s
      /\ \A j \in DOMAIN u : u[j] = s[from[j]]
      /\ \A j, k \in DOMAIN u : from[j] = from[k] => j = k
      /\ \A j \in DOMAIN u : from[j] # i
      /\ i \in DOMAIN s
  BY <1>1, <1>2, <1>3
<1> HIDE DEF from
<1>5. ASSUME NEW j \in DOMAIN u, NEW k \in DOMAIN u, u[j] = u[k] PROVE j = k
  <2>1. from[j] = from[k]
    BY <1>4, <1>5 DEF IsInjective
  <2> QED BY <2>1, <1>4
<1>6. ASSUME NEW j \in DOMAIN u PROVE u[j] \in ToSet(s) \ {s[i]}
  <2>1. from[j] \in DOMAIN s /\ s[from[j]] # s[i]
    BY <1>4 DEF IsInjective
  <2> QED BY <2>1, <1>4 DEF ToSet
<1> QED BY <1>2, <1>5, <1>6, SMTT(60) DEF u, ToSet, IsInjective

LEMMA QueueAppend ==
  ASSUME NEW s \in Seq(Timers), IsInjective(s), NEW t \in Timers, t \notin ToSet(s)
  PROVE  /\ Append(s, t) \in Seq(Timers) /\ IsInjective(Append(s, t))
         /\ ToSet(Append(s, t)) \subseteq ToSet(s) \cup {t}
<1> DEFINE n == Len(s)
           u == Append(s, t)
<1>1. /\ n \in Nat /\ DOMAIN s = 1 .. n /\ u \in Seq(Timers) /\ DOMAIN u = 1 .. n + 1
      /\ \A j \in DOMAIN u : u[j] = IF j = n + 1 THEN t ELSE s[j]
  OBVIOUS
<1> HIDE DEF n, u
<1>2. \A j \in DOMAIN u : j = n + 1 \/ (j \in DOMAIN s /\ u[j] = s[j])
  BY <1>1
<1>3. \A j \in DOMAIN s : s[j] # t
  BY DEF ToSet
<1>4. IsInjective(u)
  BY <1>1, <1>2, <1>3 DEF IsInjective
<1>5. ToSet(u) \subseteq ToSet(s) \cup {t}
  BY <1>1, <1>2 DEF ToSet
<1> QED BY <1>1, <1>4, <1>5 DEF u


-----------------------------------------------------------------------------
(* The initial state, and each action in turn. *)

LEMMA InitIInv == Init => IInv
<1> SUFFICES ASSUME Init PROVE IInv
  OBVIOUS
<1>1. RtcMax \in Nat /\ Word \in Nat \ {0}
  BY RtcAssumption
<1>2. TypeOK
  <2>1. active \in Seq(Entry) /\ queue \in Seq(Timers)
    BY DEF Init
  <2>2. last \in 0 .. Word - 1 /\ load \in 0 .. RtcMax /\ cnt \in 0 .. RtcMax
    BY <1>1 DEF Init
  <2>3. call \in Call /\ due \in [Timers -> Nat]
    BY CallMembers DEF Init
  <2> QED BY <2>1, <2>2, <2>3 DEF Init, TypeOK
<1>3. LinkedOnce
  <2>1. active = <<>> /\ queue = <<>> /\ call.at = "idle"
    BY DEF Init, Idle
  <2>2. DOMAIN active = {} /\ DOMAIN queue = {}
    BY <2>1
  <2> QED BY <2>1, <2>2 DEF LinkedOnce, Distinct, DummyFirst, LinkedIn, IsInjective, ToSet
<1>4. HeadArmed
  BY DEF Init, HeadArmed
<1>5. SearchOrder
  BY DEF Init, SearchOrder, Idle
<1>6. DispatchOrder
  BY DEF Init, DispatchOrder, Idle
<1> QED BY <1>2, <1>3, <1>4, <1>5, <1>6 DEF IInv

LEMMA TickIInv == IInv /\ Tick => IInv'
<1> SUFFICES ASSUME IInv, Tick PROVE IInv'
  OBVIOUS
<1>1. RtcMax \in Nat /\ cnt \in 0 .. RtcMax /\ load \in 0 .. RtcMax /\ due \in [Timers -> Nat]
  BY RtcAssumption DEF IInv, TypeOK
<1>2. /\ cnt' = IF cnt = RtcMax THEN 0 ELSE cnt + 1
      /\ ovf' = (ovf \/ cnt = RtcMax)
      /\ due' = [t \in Timers |-> IF due[t] > 0 THEN due[t] - 1 ELSE 0]
      /\ UNCHANGED <<active, queue, last, load, running, ie, call, fault>>
  BY DEF Tick
<1>3. TypeOK'
  <2>1. cnt' \in 0 .. RtcMax
    BY <1>1, <1>2
  <2>2. due' \in [Timers -> Nat]
    BY <1>1, <1>2
  <2>3. ovf' \in BOOLEAN
    BY <1>2
  <2> QED BY <1>2, <2>1, <2>2, <2>3 DEF IInv, TypeOK
<1>4. HeadArmed'
  <2>1. ovf' \/ (~ovf /\ cnt' = cnt + 1)
    BY <1>2
  <2>2. ovf \/ cnt >= load => ovf' \/ cnt' >= load
    <3>1. CASE ovf'
      BY <3>1
    <3>2. CASE ~ovf' /\ ~ovf /\ cnt' = cnt + 1
      BY <3>2, <1>1
    <3> QED BY <2>1, <3>1, <3>2
  <2> QED BY <1>2, <2>2 DEF IInv, HeadArmed, LoadFor
<1>5. LinkedOnce' /\ SearchOrder' /\ DispatchOrder'
  BY <1>2 DEF IInv, LinkedOnce, SearchOrder, DispatchOrder
<1> QED BY <1>3, <1>4, <1>5 DEF IInv

LEMMA ExpireIInv == IInv /\ Expire => IInv'
<1> SUFFICES ASSUME IInv, Expire PROVE IInv'
  OBVIOUS
<1> DEFINE head == active[1]
<1>1. /\ active \in Seq(Entry) /\ queue \in Seq(Timers) /\ active # <<>>
      /\ cnt \in 0 .. RtcMax /\ 0 \in 0 .. RtcMax /\ call \in Call
      /\ Distinct(active) /\ DummyFirst(active) /\ IsInjective(queue)
      /\ LinkedIn(active) \cap ToSet(queue) = {}
  BY RtcAssumption DEF IInv, TypeOK, LinkedOnce, Expire
<1>2. /\ queue' = IF head.timer = Dummy THEN queue ELSE Append(queue, head.timer)
      /\ StartTimerAtHead(Tail(active), head.at, 0)
      /\ ovf' = FALSE /\ call' = call /\ due' = due /\ fault' = fault
  BY DEF Expire
<1>3. /\ Tail(active) \in Seq(Entry)
      /\ Distinct(Tail(active)) /\ DummyFirst(Tail(active))
      /\ LinkedIn(Tail(active)) \subseteq LinkedIn(active) \ {head.timer}
      /\ Tail(active) # <<>> => Tail(active)[1].timer # Dummy
      /\ head \in Entry /\ head.timer \in LinkedIn(active)
  BY <1>1, TailLinks
<1>4. head.at \in 0 .. Word - 1 /\ head.timer \in Timers \cup {Dummy}
  BY <1>3 DEF Entry
<1> HIDE DEF head
<1>5. /\ active' \in Seq(Entry) /\ last' \in 0 .. Word - 1
      /\ load' \in 0 .. RtcMax /\ cnt' \in 0 .. RtcMax
      /\ running' \in BOOLEAN /\ ie' \in BOOLEAN
      /\ active' # <<>> =>
           /\ running' = TRUE /\ ie' = TRUE
           /\ Sub(active'[1].at, last') <= RtcMax
           /\ load' = LoadFor(Sub(active'[1].at, last'))
           /\ cnt' = load'
  BY <1>1, <1>2, <1>3, <1>4, StartArms
<1>6. /\ Distinct(active') /\ DummyFirst(active')
      /\ LinkedIn(active') \subseteq LinkedIn(Tail(active)) \cup {Dummy}
  BY <1>2, <1>3, <1>4, StartKeepsLinks
<1>7. /\ queue' \in Seq(Timers) /\ IsInjective(queue')
      /\ ToSet(queue') \subseteq ToSet(queue) \cup {head.timer}
  <2>1. CASE head.timer = Dummy
    BY <2>1, <1>1, <1>2
  <2>2. CASE head.timer # Dummy
    <3>1. head.timer \in Timers /\ head.timer \notin ToSet(queue)
      BY <2>2, <1>1, <1>3, <1>4
    <3> QED BY <3>1, <2>2, <1>1, <1>2, QueueAppend
  <2> QED BY <2>1, <2>2
<1>8. Dummy \notin ToSet(queue') /\ Dummy \notin Timers
  BY <1>7, ClientAssumption DEF ToSet
<1>9. TypeOK'
  BY <1>2, <1>5, <1>7 DEF IInv, TypeOK
<1>10. HeadArmed'
  BY <1>5 DEF HeadArmed, LoadFor, TypeOK
<1>11. LinkedOnce'
  <2>1. LinkedIn(active') \cap ToSet(queue') = {}
    BY <1>1, <1>3, <1>6, <1>7, <1>8
  <2>2. call'.at \in {"insert", "place", "callback"} => call'.timer \notin LinkedIn(active') \cup ToSet(queue')
    <3>1. ASSUME call.at \in {"insert", "place", "callback"}
          PROVE  /\ call.timer \in Timers /\ call.timer \notin LinkedIn(active) \cup ToSet(queue)
      BY <3>1, <1>1, CallShapes DEF IInv, LinkedOnce
    <3> QED BY <3>1, <1>2, <1>3, <1>6, <1>7, <1>8
  <2> QED BY <1>6, <1>7, <2>1, <2>2 DEF LinkedOnce
<1>12. SearchOrder'
  <2>1. ASSUME call.at \in InDelete, call.list = "queue"
        PROVE  call.timer \in Timers /\ call.timer \notin LinkedIn(active)
    BY <2>1, <1>1, CallShapes DEF IInv, SearchOrder, InDelete
  <2> QED BY <2>1, <1>2, <1>3, <1>6, <1>8 DEF SearchOrder, InDelete
<1>13. DispatchOrder'
  <2>1. queue # <<>> => queue' # <<>>
    BY <1>1, <1>2
  <2> QED BY <2>1, <1>1, <1>2 DEF IInv, DispatchOrder
<1> QED BY <1>9, <1>10, <1>11, <1>12, <1>13 DEF IInv

LEMMA StutterIInv == IInv /\ (ExpireNothing \/ UNCHANGED vars) => IInv'
<1> SUFFICES ASSUME IInv, ExpireNothing \/ UNCHANGED vars PROVE IInv'
  OBVIOUS
<1>1. /\ UNCHANGED <<active, queue, last, load, running, cnt, ovf, ie, call, due>>
      /\ fault' \in BOOLEAN
  <2>1. CASE ExpireNothing
    BY <2>1 DEF ExpireNothing, clock
  <2>2. CASE UNCHANGED vars
    BY <2>2 DEF vars, clock, IInv, TypeOK
  <2> QED BY <2>1, <2>2
<1> QED BY <1>1 DEF IInv, TypeOK, LinkedOnce, HeadArmed, SearchOrder, DispatchOrder

(* The main loop moves and the lists, the clock and the mask stay: it is enough
   that its new place is a place, is not one where `timer` is about to be inserted
   or called while linked, and keeps the order of delete's searches. *)
LEMMA MoveIInv ==
  ASSUME IInv, UNCHANGED <<active, queue, last, load, running, cnt, ovf, ie, due, fault>>,
         call' \in Call,
         call'.at \in {"insert", "place", "callback"} =>
           call'.timer \notin LinkedIn(active) \cup ToSet(queue),
         call'.at \in InDelete /\ call'.list = "queue" => call'.timer \notin LinkedIn(active),
         active # <<>> => ie = TRUE \/ call'.at \in {"unlink", "place"},
         call'.at = "dispatch" => queue # <<>> /\ (active # <<>> => call'.tempIE)
  PROVE  IInv'
<1>1. TypeOK'
  BY DEF IInv, TypeOK
<1>2. LinkedOnce'
  BY DEF IInv, LinkedOnce
<1>3. HeadArmed'
  BY DEF IInv, HeadArmed, LoadFor
<1>4. SearchOrder'
  BY DEF IInv, SearchOrder, InDelete
<1>5. DispatchOrder'
  BY DEF DispatchOrder
<1> QED BY <1>1, <1>2, <1>3, <1>4, <1>5 DEF IInv

LEMMA BeginIInv ==
  ASSUME IInv, NEW t \in Timers,
         BeginDelete(t) \/ \E d \in Timeouts : BeginCreate(t, d)
  PROVE  IInv'
<1>1. PICK req \in Request : call' = Deleting("check", "active", t, req)
  BY DEF BeginDelete, BeginCreate, Request
<1>2. call = Idle /\ UNCHANGED <<active, queue, last, load, running, cnt, ovf, ie, due, fault>>
  BY DEF BeginDelete, BeginCreate, clock
<1>3. call' \in Call
  BY <1>1, CallMembers DEF InDelete
<1>4. call'.at = "check" /\ call'.list = "active"
  BY <1>1 DEF Deleting
<1>5. active # <<>> => ie = TRUE
  BY <1>2 DEF IInv, TypeOK, HeadArmed, Idle
<1> QED BY <1>2, <1>3, <1>4, <1>5, MoveIInv

LEMMA CheckEmptyIInv == IInv /\ CheckEmpty => IInv'
<1> SUFFICES ASSUME IInv, CheckEmpty PROVE IInv'
  OBVIOUS
<1>1. /\ call \in Call /\ call.at = "check" /\ call.at \in InDelete
      /\ UNCHANGED <<active, queue, last, load, running, cnt, ovf, ie, due, fault>>
  BY DEF IInv, TypeOK, CheckEmpty, clock, InDelete
<1>2. active # <<>> => ie = TRUE
  BY <1>1 DEF IInv, TypeOK, HeadArmed
<1>3. call.list = "queue" => call.timer \notin LinkedIn(active)
  BY <1>1 DEF IInv, SearchOrder
<1>4. CASE call' = AfterHelper(call, FALSE) /\ (call.list = "active" => active = <<>>)
             /\ (call.list # "active" => queue = <<>>)
  <2>1. /\ call' \in Call
        /\ \/ call'.at = "check" /\ call'.list = "queue" /\ call.list = "active"
              /\ call'.timer = call.timer
           \/ call'.at = "insert" /\ call.list = "queue" /\ call'.timer = call.timer
           \/ call'.at = "idle"
    <3>1. FALSE \in BOOLEAN
      OBVIOUS
    <3> QED BY <1>1, <1>4, <3>1, AfterHelperCases
  <2>2. call'.at = "insert" => call'.timer \notin LinkedIn(active) \cup ToSet(queue)
    <3>1. queue = <<>> => ToSet(queue) = {}
      BY DEF ToSet
    <3> QED BY <1>3, <1>4, <2>1, <3>1
  <2>3. call'.at \in InDelete /\ call'.list = "queue" => call'.timer \notin LinkedIn(active)
    <3>1. active = <<>> => LinkedIn(active) = {}
      BY DEF LinkedIn
    <3> QED BY <1>4, <2>1, <3>1 DEF InDelete
  <2>4. call'.at # "callback"
    BY <2>1
  <2> QED BY <1>1, <1>2, <2>1, <2>2, <2>3, <2>4, MoveIInv
<1>5. CASE call' = [call EXCEPT !.at = "mask"]
  <2>1. /\ call.timer \in Timers /\ call.list \in {"active", "queue"} /\ call.req \in Request
        /\ call = Deleting(call.at, call.list, call.timer, call.req)
    BY <1>1, CallShapes
  <2>2. call' = Deleting("mask", call.list, call.timer, call.req)
    BY <1>5, <2>1 DEF Deleting
  <2>3. call' \in Call
    BY <2>1, <2>2, CallMembers DEF InDelete
  <2>4. call'.at = "mask" /\ call'.list = call.list /\ call'.timer = call.timer
    BY <2>2 DEF Deleting
  <2> QED BY <1>1, <1>2, <1>3, <2>3, <2>4, MoveIInv
<1> QED BY <1>4, <1>5 DEF CheckEmpty

LEMMA MaskIInv == IInv /\ Mask => IInv'
<1> SUFFICES ASSUME IInv, Mask PROVE IInv'
  OBVIOUS
<1>1. /\ call \in Call /\ call.at \in InDelete /\ ie' = FALSE
      /\ call' = [call EXCEPT !.at = "unlink"]
      /\ UNCHANGED <<active, queue, last, load, running, cnt, ovf, due, fault>>
  BY DEF IInv, TypeOK, Mask, InDelete
<1>2. /\ call.timer \in Timers /\ call.list \in {"active", "queue"} /\ call.req \in Request
      /\ call = Deleting(call.at, call.list, call.timer, call.req)
  BY <1>1, CallShapes
<1>3. call' = Deleting("unlink", call.list, call.timer, call.req)
  BY <1>1, <1>2 DEF Deleting
<1>4. call' \in Call
  BY <1>2, <1>3, CallMembers DEF InDelete
<1>5. call'.at = "unlink" /\ call'.list = call.list /\ call'.timer = call.timer
  BY <1>3 DEF Deleting
<1>6. TypeOK'
  BY <1>1, <1>4 DEF IInv, TypeOK
<1>7. LinkedOnce'
  BY <1>1, <1>5 DEF IInv, LinkedOnce
<1>8. HeadArmed'
  BY <1>1, <1>5 DEF IInv, HeadArmed, LoadFor
<1>9. SearchOrder'
  BY <1>1, <1>5 DEF IInv, SearchOrder, InDelete
<1>10. DispatchOrder'
  BY <1>5 DEF DispatchOrder
<1> QED BY <1>6, <1>7, <1>8, <1>9, <1>10 DEF IInv

LEMMA MaskInsertIInv == IInv /\ MaskInsert => IInv'
<1> SUFFICES ASSUME IInv, MaskInsert PROVE IInv'
  OBVIOUS
<1>1. /\ call \in Call /\ call.at = "insert" /\ ie' = FALSE
      /\ call' = [call EXCEPT !.at = "place"]
      /\ UNCHANGED <<active, queue, last, load, running, cnt, ovf, due, fault>>
  BY DEF IInv, TypeOK, MaskInsert
<1>2. /\ call.timer \in Timers /\ call.timeout \in Timeouts
      /\ call = Inserting("insert", call.timer, call.timeout)
  BY <1>1, CallShapes
<1>3. call' = Inserting("place", call.timer, call.timeout)
  BY <1>1, <1>2 DEF Inserting
<1>4. call' \in Call
  BY <1>2, <1>3, CallMembers
<1>5. call'.at = "place" /\ call'.timer = call.timer
  BY <1>3 DEF Inserting
<1>6. TypeOK'
  BY <1>1, <1>4 DEF IInv, TypeOK
<1>7. LinkedOnce'
  BY <1>1, <1>5 DEF IInv, LinkedOnce
<1>8. HeadArmed'
  BY <1>1, <1>5 DEF IInv, HeadArmed, LoadFor
<1>9. SearchOrder' /\ DispatchOrder'
  BY <1>5 DEF SearchOrder, DispatchOrder
<1> QED BY <1>6, <1>7, <1>8, <1>9 DEF IInv

LEMMA BeginDispatchIInv == IInv /\ BeginDispatch => IInv'
<1> SUFFICES ASSUME IInv, BeginDispatch PROVE IInv'
  OBVIOUS
<1>1. /\ queue # <<>> /\ call.at = "idle" /\ call' = Dispatching(ie) /\ ie \in BOOLEAN
      /\ UNCHANGED <<active, queue, last, load, running, cnt, ovf, ie, due, fault>>
  BY DEF IInv, TypeOK, BeginDispatch, clock, Idle
<1>2. call' \in Call /\ call'.at = "dispatch" /\ call'.tempIE = ie
  BY <1>1, CallMembers DEF Dispatching
<1>3. active # <<>> => ie = TRUE
  BY <1>1 DEF IInv, HeadArmed
<1> QED BY <1>1, <1>2, <1>3, MoveIInv DEF InDelete

LEMMA DispatchIInv == IInv /\ Dispatch => IInv'
<1> SUFFICES ASSUME IInv, Dispatch PROVE IInv'
  OBVIOUS
<1>1. /\ queue \in Seq(Timers) /\ queue # <<>> /\ IsInjective(queue)
      /\ call \in Call /\ call.at = "dispatch" /\ (active # <<>> => call.tempIE)
      /\ LinkedIn(active) \cap ToSet(queue) = {}
      /\ call' = Callback(Head(queue)) /\ queue' = Tail(queue) /\ ie' = call.tempIE
      /\ UNCHANGED <<active, last, load, running, cnt, ovf, due, fault>>
  BY DEF IInv, TypeOK, LinkedOnce, DispatchOrder, Dispatch
<1>2. /\ Tail(queue) \in Seq(Timers) /\ IsInjective(Tail(queue))
      /\ ToSet(Tail(queue)) \subseteq ToSet(queue) \ {Head(queue)}
      /\ Head(queue) \in Timers /\ Head(queue) \in ToSet(queue)
  BY <1>1, QueueTail
<1>3. call' \in Call /\ call'.at = "callback" /\ call'.timer = Head(queue)
  BY <1>1, <1>2, CallMembers DEF Callback
<1>4. TypeOK'
  <2>1. ie' \in BOOLEAN
    BY <1>1, CallShapes
  <2> QED BY <1>1, <1>2, <1>3, <2>1 DEF IInv, TypeOK
<1>5. LinkedOnce'
  <2>1. LinkedIn(active) \cap ToSet(queue') = {} /\ Head(queue) \notin LinkedIn(active) \cup ToSet(queue')
    BY <1>1, <1>2
  <2> QED BY <1>1, <1>2, <1>3, <2>1 DEF IInv, LinkedOnce
<1>6. HeadArmed'
  <2>1. active # <<>> => ie'
    BY <1>1
  <2> QED BY <1>1, <2>1 DEF IInv, HeadArmed, LoadFor
<1>7. SearchOrder' /\ DispatchOrder'
  BY <1>3 DEF SearchOrder, DispatchOrder
<1> QED BY <1>4, <1>5, <1>6, <1>7 DEF IInv

LEMMA CallbackReturnsIInv ==
  ASSUME IInv, NEW d \in Timeouts \cup {0}, CallbackReturns(d)
  PROVE  IInv'
<1>1. /\ call \in Call /\ call.at = "callback" /\ call.timer \in Timers
      /\ UNCHANGED <<active, queue, last, load, running, cnt, ovf, ie, due, fault>>
  BY CallShapes DEF IInv, TypeOK, CallbackReturns, clock
<1>2. active # <<>> => ie = TRUE
  BY <1>1 DEF IInv, TypeOK, HeadArmed
<1>3. CASE d = 0
  <2>1. call' \in Call /\ call'.at = "idle"
    BY <1>3, CallMembers DEF CallbackReturns, Idle
  <2> QED BY <1>1, <1>2, <2>1, MoveIInv DEF InDelete
<1>4. CASE d # 0
  <2>1. PICK req \in Request : call' = Deleting("check", "active", call.timer, req)
    BY <1>4 DEF CallbackReturns, Request
  <2>2. call' \in Call
    BY <1>1, <2>1, CallMembers DEF InDelete
  <2>3. call'.at = "check" /\ call'.list = "active"
    BY <2>1 DEF Deleting
  <2> QED BY <1>1, <1>2, <2>2, <2>3, MoveIInv
<1> QED BY <1>3, <1>4

(* What starting the countdown for a well-formed list, with the main loop's place
   and the queue as they are after the step, re-establishes. *)
LEMMA StartIInv ==
  ASSUME TypeOK, NEW list \in Seq(Entry), NEW base \in 0 .. Word - 1,
         NEW oldLoad \in 0 .. RtcMax, StartTimerAtHead(list, base, oldLoad),
         Distinct(list), DummyFirst(list),
         list # <<>> /\ list[1].timer = Dummy => Sub(list[1].at, base) <= RtcMax,
         call' \in Call, queue' \in Seq(Timers), IsInjective(queue'),
         ovf' \in BOOLEAN, due' \in [Timers -> Nat], fault' \in BOOLEAN,
         LinkedIn(list) \cap ToSet(queue') = {},
         call'.at \in {"insert", "place", "callback"} =>
           call'.timer \notin LinkedIn(list) \cup ToSet(queue'),
         call'.at \in InDelete /\ call'.list = "queue" => call'.timer \notin LinkedIn(list),
         call'.at # "dispatch"
  PROVE  IInv'
<1>1. cnt \in 0 .. RtcMax
  BY DEF TypeOK
<1>2. /\ active' \in Seq(Entry) /\ last' \in 0 .. Word - 1
      /\ load' \in 0 .. RtcMax /\ cnt' \in 0 .. RtcMax
      /\ running' \in BOOLEAN /\ ie' \in BOOLEAN
      /\ active' # <<>> =>
           /\ running' = TRUE /\ ie' = TRUE
           /\ Sub(active'[1].at, last') <= RtcMax
           /\ load' = LoadFor(Sub(active'[1].at, last'))
           /\ cnt' = load'
  BY <1>1, StartArms
<1>3. /\ Distinct(active') /\ DummyFirst(active')
      /\ LinkedIn(active') \subseteq LinkedIn(list) \cup {Dummy}
  BY StartKeepsLinks
<1>4. Dummy \notin ToSet(queue') /\ Dummy \notin Timers
  BY ClientAssumption DEF ToSet
<1>5. TypeOK'
  BY <1>2 DEF TypeOK
<1>6. HeadArmed'
  BY <1>2 DEF HeadArmed, LoadFor
<1>7. LinkedOnce'
  <2>1. LinkedIn(active') \cap ToSet(queue') = {}
    BY <1>3, <1>4
  <2>2. call'.at \in {"insert", "place", "callback"} =>
          call'.timer \notin LinkedIn(active') \cup ToSet(queue')
    BY <1>3, <1>4, CallShapes
  <2> QED BY <1>3, <2>1, <2>2 DEF LinkedOnce
<1>8. SearchOrder'
  <2>1. ASSUME call'.at \in InDelete, call'.list = "queue"
        PROVE  call'.timer \notin LinkedIn(active')
    BY <2>1, <1>3, <1>4, CallShapes
  <2> QED BY <2>1 DEF SearchOrder, InDelete
<1>9. DispatchOrder'
  BY DEF DispatchOrder
<1> QED BY <1>5, <1>6, <1>7, <1>8, <1>9 DEF IInv

LEMMA UnlinkActiveIInv == IInv /\ UnlinkActive => IInv'
<1> SUFFICES ASSUME IInv, UnlinkActive PROVE IInv'
  OBVIOUS
<1> DEFINE t == call.timer
           found == t \in LinkedIn(active)
<1>1. /\ call \in Call /\ call.at = "unlink" /\ call.at \in InDelete /\ call.list = "active"
      /\ call' = AfterHelper(call, found) /\ UNCHANGED <<queue, ovf, due, fault>>
  BY DEF UnlinkActive, IInv, TypeOK, InDelete
<1>2. /\ active \in Seq(Entry) /\ queue \in Seq(Timers) /\ IsInjective(queue)
      /\ Distinct(active) /\ DummyFirst(active)
      /\ LinkedIn(active) \cap ToSet(queue) = {}
      /\ last \in 0 .. Word - 1 /\ load \in 0 .. RtcMax
  BY DEF IInv, TypeOK, LinkedOnce
<1>3. t \in Timers
  BY <1>1, CallShapes
<1>4. /\ call' \in Call
      /\ \/ call'.at = "check" /\ call'.list = "queue" /\ ~found /\ call'.timer = t
         \/ call'.at = "insert" /\ found /\ call'.timer = t
         \/ call'.at = "idle"
  <2>1. found \in BOOLEAN
    OBVIOUS
  <2> HIDE DEF found
  <2> QED BY <2>1, <1>1, AfterHelperCases
<1> HIDE DEF t
(* The lists after the step do not hold the timer, and hold no other than before. *)
<1>5. ASSUME NEW list, LinkedIn(list) \subseteq LinkedIn(active) \ {t}
      PROVE  /\ LinkedIn(list) \cap ToSet(queue') = {}
             /\ call'.at \in {"insert", "place", "callback"} =>
                  call'.timer \notin LinkedIn(list) \cup ToSet(queue')
             /\ call'.at \in InDelete /\ call'.list = "queue" => call'.timer \notin LinkedIn(list)
  BY <1>1, <1>2, <1>4, <1>5 DEF InDelete
<1>6. CASE active # <<>> /\ active[1].timer = t /\ StartTimerAtHead(Tail(active), last, load)
  <2>1. /\ Tail(active) \in Seq(Entry)
        /\ Distinct(Tail(active)) /\ DummyFirst(Tail(active))
        /\ LinkedIn(Tail(active)) \subseteq LinkedIn(active) \ {t}
        /\ Tail(active) # <<>> => Tail(active)[1].timer # Dummy
    BY <1>2, <1>6, TailLinks
  <2>2. /\ ovf' \in BOOLEAN /\ due' \in [Timers -> Nat] /\ fault' \in BOOLEAN
        /\ queue' \in Seq(Timers) /\ IsInjective(queue') /\ TypeOK
    BY <1>1, <1>2 DEF IInv, TypeOK
  <2> QED BY <1>2, <1>4, <1>5, <1>6, <2>1, <2>2, StartIInv
<1>7. CASE /\ \/ \E i \in 2 .. Len(active) :
                    active[i].timer = t /\ active' = RemoveAt(active, i)
              \/ t \notin LinkedIn(active) /\ active' = active
           /\ ie' = TRUE
           /\ UNCHANGED <<last, load, running, cnt>>
  <2>1. /\ active' \in Seq(Entry) /\ Distinct(active') /\ DummyFirst(active')
        /\ LinkedIn(active') \subseteq LinkedIn(active) \ {t}
        /\ active' # <<>> => active # <<>> /\ active'[1] = active[1]
    <3>1. ASSUME NEW i \in 2 .. Len(active), active[i].timer = t, active' = RemoveAt(active, i)
          PROVE  <2>1!:
      BY <3>1, <1>2, RemoveLinks
    <3>2. CASE t \notin LinkedIn(active) /\ active' = active
      BY <3>2, <1>2
    <3> QED BY <1>7, <3>1, <3>2
  <2>2. /\ LinkedIn(active') \cap ToSet(queue') = {}
        /\ call'.at \in {"insert", "place", "callback"} =>
             call'.timer \notin LinkedIn(active') \cup ToSet(queue')
        /\ call'.at \in InDelete /\ call'.list = "queue" => call'.timer \notin LinkedIn(active')
    BY <2>1, <1>5
  <2>3. TypeOK'
    BY <1>1, <1>4, <1>7, <2>1 DEF IInv, TypeOK
  <2>4. LinkedOnce'
    BY <1>1, <1>2, <2>1, <2>2 DEF LinkedOnce
  <2>5. HeadArmed'
    BY <1>1, <1>7, <2>1 DEF IInv, HeadArmed, LoadFor
  <2>6. SearchOrder'
    BY <2>2 DEF SearchOrder, InDelete
  <2>7. DispatchOrder'
    BY <1>4 DEF DispatchOrder
  <2> QED BY <2>3, <2>4, <2>5, <2>6, <2>7 DEF IInv
<1> QED BY <1>6, <1>7 DEF UnlinkActive, t

LEMMA UnlinkQueuedIInv == IInv /\ UnlinkQueued => IInv'
<1> SUFFICES ASSUME IInv, UnlinkQueued PROVE IInv'
  OBVIOUS
<1> DEFINE t == call.timer
<1>1. /\ call \in Call /\ call.at = "unlink" /\ call.at \in InDelete /\ call.list = "queue"
      /\ call' = AfterHelper(call, TRUE) /\ UNCHANGED <<ovf, due, fault>>
  BY DEF UnlinkQueued, IInv, TypeOK, InDelete
<1>2. /\ active \in Seq(Entry) /\ queue \in Seq(Timers) /\ IsInjective(queue)
      /\ Distinct(active) /\ DummyFirst(active)
      /\ LinkedIn(active) \cap ToSet(queue) = {}
      /\ last \in 0 .. Word - 1 /\ load \in 0 .. RtcMax
  BY DEF IInv, TypeOK, LinkedOnce
<1>3. t \in Timers /\ t \notin LinkedIn(active)
  BY <1>1, CallShapes DEF IInv, SearchOrder
<1>4. /\ call' \in Call
      /\ (call'.at = "insert" /\ call'.timer = t) \/ call'.at = "idle"
  <2>1. TRUE \in BOOLEAN /\ call.list # "active"
    BY <1>1
  <2> QED BY <2>1, <1>1, AfterHelperCases
<1> HIDE DEF t
<1>5. CASE queue # <<>> /\ Head(queue) = t /\ queue' = Tail(queue)
             /\ StartTimerAtHead(active, last, load)
  <2>1. /\ queue' \in Seq(Timers) /\ IsInjective(queue')
        /\ ToSet(queue') \subseteq ToSet(queue) \ {t}
    BY <1>2, <1>5, QueueTail
  <2>2. active # <<>> /\ active[1].timer = Dummy => Sub(active[1].at, last) <= RtcMax
    BY DEF IInv, HeadArmed
  <2>3. /\ ovf' \in BOOLEAN /\ due' \in [Timers -> Nat] /\ fault' \in BOOLEAN /\ TypeOK
    BY <1>1 DEF IInv, TypeOK
  <2>4. /\ LinkedIn(active) \cap ToSet(queue') = {}
        /\ call'.at \in {"insert", "place", "callback"} =>
             call'.timer \notin LinkedIn(active) \cup ToSet(queue')
        /\ ~(call'.at \in InDelete)
    BY <1>2, <1>3, <1>4, <2>1 DEF InDelete
  <2> QED BY <1>2, <1>4, <1>5, <2>1, <2>2, <2>3, <2>4, StartIInv
<1>6. CASE /\ \/ \E i \in 2 .. Len(queue) : queue[i] = t /\ queue' = RemoveAt(queue, i)
              \/ t \notin ToSet(queue) /\ queue' = queue
           /\ ie' = TRUE
           /\ UNCHANGED <<active, last, load, running, cnt>>
  <2>1. /\ queue' \in Seq(Timers) /\ IsInjective(queue')
        /\ ToSet(queue') \subseteq ToSet(queue) \ {t}
    <3>1. ASSUME NEW i \in 2 .. Len(queue), queue[i] = t, queue' = RemoveAt(queue, i)
          PROVE  <2>1!:
      BY <3>1, <1>2, QueueRemove
    <3>2. CASE t \notin ToSet(queue) /\ queue' = queue
      BY <3>2, <1>2
    <3> QED BY <1>6, <3>1, <3>2
  <2>2. TypeOK'
    BY <1>1, <1>4, <1>6, <2>1 DEF IInv, TypeOK
  <2>3. LinkedOnce'
    <3>1. /\ LinkedIn(active) \cap ToSet(queue') = {}
          /\ call'.at \in {"insert", "place", "callback"} =>
               call'.timer \notin LinkedIn(active) \cup ToSet(queue')
      BY <1>2, <1>3, <1>4, <2>1
    <3> QED BY <1>2, <1>6, <2>1, <3>1 DEF LinkedOnce
  <2>4. HeadArmed'
    BY <1>1, <1>6 DEF IInv, HeadArmed, LoadFor
  <2>5. SearchOrder' /\ DispatchOrder'
    BY <1>4 DEF SearchOrder, DispatchOrder
  <2> QED BY <2>2, <2>3, <2>4, <2>5 DEF IInv
<1> QED BY <1>5, <1>6 DEF UnlinkQueued, t

LEMMA MakeAbsoluteRange ==
  ASSUME TypeOK, NEW d \in 0 .. Word - 1
  PROVE  MakeAbsolute(d) \in 0 .. Word - 1
<1>1. last \in Int /\ cnt \in Int /\ load \in Int /\ d \in Int /\ RtcMax \in Int
  BY RtcAssumption DEF TypeOK
<1> DEFINE now == (IF ovf THEN RtcMax ELSE cnt) - load
<1>2. d + last \in Int /\ now \in Int
  BY <1>1
<1> HIDE DEF now
<1>3. Add(d + last, now) \in 0 .. Word - 1 /\ Add(d, last) \in 0 .. Word - 1
  BY <1>1, <1>2, TimeRange
<1> QED BY <1>3 DEF MakeAbsolute, now

LEMMA InsertIInv == IInv /\ Insert => IInv'
<1> SUFFICES ASSUME IInv, Insert PROVE IInv'
  OBVIOUS
<1> DEFINE raw == MakeAbsolute(call.timeout)
           wrapped == raw < last
           base == MakeAbsolute(0)
           list == IF wrapped THEN Rebase(active, base) ELSE active
           time == IF wrapped THEN (raw + RtcMax - base + 1) % Word ELSE raw
           origin == IF wrapped THEN Sub(last, base) ELSE last
           node == [timer |-> call.timer, at |-> time]
           rest == IF list # <<>> /\ list[1].timer = Dummy THEN Tail(list) ELSE list
<1>1. /\ RtcMax \in Nat /\ Word \in Nat \ {0} /\ 0 \in 0 .. Word - 1 /\ 0 \in 0 .. RtcMax
      /\ Dummy \notin Timers
  BY RtcAssumption, ClientAssumption
<1>2. /\ call \in Call /\ call.at = "place" /\ call' = Idle
      /\ UNCHANGED <<queue, fault>> /\ due' = [due EXCEPT ![call.timer] = call.timeout + 1]
  BY DEF Insert, IInv, TypeOK
<1>3. call.timer \in Timers /\ call.timeout \in Timeouts /\ call.timeout \in 0 .. Word - 1
  BY <1>2, CallShapes, ClientAssumption
<1>4. /\ TypeOK /\ active \in Seq(Entry) /\ queue \in Seq(Timers) /\ IsInjective(queue)
      /\ Distinct(active) /\ DummyFirst(active)
      /\ LinkedIn(active) \cap ToSet(queue) = {}
      /\ call.timer \notin LinkedIn(active) /\ call.timer \notin ToSet(queue)
      /\ last \in 0 .. Word - 1
  BY <1>2 DEF IInv, TypeOK, LinkedOnce
<1>5. raw \in 0 .. Word - 1 /\ base \in 0 .. Word - 1
  BY <1>1, <1>3, <1>4, MakeAbsoluteRange
<1>6. due' \in [Timers -> Nat]
  <2>1. due \in [Timers -> Nat] /\ call.timeout + 1 \in Nat
    BY <1>1, <1>3, <1>4 DEF TypeOK
  <2> QED BY <2>1, <1>2, <1>3
<1>7. call' \in Call /\ call'.at = "idle"
  BY <1>2, CallMembers DEF Idle
<1> DEFINE alone == InsertPoint(list, time, 1)
<1>8. \/ InsertPoint(list, time, 1) /\ StartTimerAtHead(<<node>> \o rest, origin, 0) /\ ovf' = FALSE
      \/ \E p \in 2 .. Len(list) + 1 :
           /\ active' = InsertAt(list, p, node) /\ last' = origin /\ ie' = running
           /\ UNCHANGED <<load, running, cnt, ovf>>
  BY DEF Insert
<1> HIDE DEF raw, base
<1>9. time \in 0 .. Word - 1 /\ origin \in 0 .. Word - 1
  <2>1. raw + RtcMax - base + 1 \in Int /\ last \in Int /\ base \in Int
    BY <1>1, <1>4, <1>5
  <2>2. (raw + RtcMax - base + 1) % Word \in 0 .. Word - 1
    BY <2>1, <1>1, ModRange
  <2>3. Sub(last, base) \in 0 .. Word - 1
    BY <2>1, TimeRange
  <2> QED BY <2>2, <2>3, <1>4, <1>5
<1>10. /\ list \in Seq(Entry) /\ Distinct(list) /\ DummyFirst(list)
       /\ LinkedIn(list) = LinkedIn(active)
       /\ list # <<>> => active # <<>> /\ Sub(list[1].at, origin) = Sub(active[1].at, last)
  <2>1. CASE wrapped
    <3>1. /\ list = Rebase(active, base) /\ origin = Sub(last, base)
          /\ base \in Int /\ last \in Int
      BY <2>1, <1>1, <1>4, <1>5
    <3>2. /\ Rebase(active, base) \in Seq(Entry)
          /\ Distinct(Rebase(active, base)) /\ DummyFirst(Rebase(active, base))
          /\ LinkedIn(Rebase(active, base)) = LinkedIn(active)
          /\ Len(Rebase(active, base)) = Len(active)
          /\ active # <<>> => Rebase(active, base)[1].at = Sub(active[1].at, base)
      BY <3>1, <1>4, RebaseLinks
    <3>3. ASSUME list # <<>>
          PROVE  active # <<>> /\ Sub(list[1].at, origin) = Sub(active[1].at, last)
      <4>1. active # <<>>
        BY <3>1, <3>2, <3>3, <1>4
      <4>2. active[1].at \in Int
        <5>1. active[1] \in Entry
          BY <4>1, <1>4, TailFacts
        <5> QED BY <5>1, <1>1 DEF Entry
      <4>3. Sub(Sub(active[1].at, base), Sub(last, base)) = Sub(active[1].at, last)
        BY <4>2, <3>1, SubShift
      <4> QED BY <4>1, <4>3, <3>1, <3>2
    <3> QED BY <3>1, <3>2, <3>3
  <2>2. CASE ~wrapped
    BY <2>2, <1>4
  <2> QED BY <2>1, <2>2
<1> HIDE DEF list, time, origin, wrapped, alone
<1>11. node \in Entry /\ node.timer = call.timer /\ node.timer # Dummy /\ node.timer \notin LinkedIn(list)
  BY <1>1, <1>3, <1>4, <1>9, <1>10 DEF Entry
<1> HIDE DEF node
(* A new head takes the place of the dummy and its countdown starts. *)
<1>12. CASE StartTimerAtHead(<<node>> \o rest, origin, 0) /\ ovf' = FALSE
  <2>1. /\ rest \in Seq(Entry) /\ Distinct(rest) /\ DummyFirst(rest)
        /\ LinkedIn(rest) \subseteq LinkedIn(list)
        /\ rest # <<>> => rest[1].timer # Dummy
    BY <1>10, TailLinks
  <2> HIDE DEF rest
  <2>2. /\ <<node>> \o rest \in Seq(Entry)
        /\ Distinct(<<node>> \o rest) /\ DummyFirst(<<node>> \o rest)
        /\ LinkedIn(<<node>> \o rest) \subseteq LinkedIn(rest) \cup {node.timer}
        /\ (<<node>> \o rest)[1] = node
    BY <1>11, <2>1, PrefixLinks
  <2>3. /\ queue' \in Seq(Timers) /\ IsInjective(queue') /\ ovf' \in BOOLEAN
        /\ fault' \in BOOLEAN
    BY <1>2, <1>4, <1>12 DEF TypeOK
  <2>4. LinkedIn(<<node>> \o rest) \cap ToSet(queue') = {}
    BY <1>2, <1>4, <1>10, <1>11, <2>1, <2>2
  <2>5. ~(call'.at \in {"insert", "place", "callback"}) /\ ~(call'.at \in InDelete)
    BY <1>7 DEF InDelete
  <2>6. (<<node>> \o rest)[1].timer # Dummy
    BY <1>11, <2>2
  <2> DEFINE new == <<node>> \o rest
  <2> HIDE DEF new
  <2>7. /\ new \in Seq(Entry) /\ Distinct(new) /\ DummyFirst(new)
        /\ new[1].timer # Dummy /\ LinkedIn(new) \cap ToSet(queue') = {}
        /\ StartTimerAtHead(new, origin, 0)
    BY <1>12, <2>2, <2>4, <2>6 DEF new
  <2> QED BY <1>1, <1>4, <1>6, <1>7, <1>9, <2>3, <2>5, <2>7, StartIInv
(* Behind the head, nothing changes for the countdown. *)
<1>13. ASSUME NEW p \in 2 .. Len(list) + 1, active' = InsertAt(list, p, node),
              last' = origin, ie' = running, UNCHANGED <<load, running, cnt, ovf>>
       PROVE  IInv'
  <2>1. /\ active' \in Seq(Entry) /\ Distinct(active') /\ DummyFirst(active')
        /\ LinkedIn(active') \subseteq LinkedIn(list) \cup {node.timer}
        /\ list # <<>> /\ active'[1] = list[1]
    BY <1>10, <1>11, <1>13, InsertAtLinks
  <2>2. TypeOK'
    BY <1>2, <1>4, <1>6, <1>7, <1>9, <1>13, <2>1 DEF TypeOK
  <2>3. LinkedOnce'
    <3>1. LinkedIn(active') \cap ToSet(queue') = {}
      BY <1>2, <1>4, <1>10, <1>11, <2>1
    <3> QED BY <1>2, <1>4, <1>7, <2>1, <3>1 DEF LinkedOnce
  <2>4. HeadArmed'
    <3>1. /\ running /\ Sub(active[1].at, last) <= RtcMax
          /\ load = LoadFor(Sub(active[1].at, last)) /\ (ovf \/ cnt >= load)
      BY <1>10, <2>1 DEF IInv, HeadArmed
    <3>2. Sub(active'[1].at, last') = Sub(active[1].at, last)
      BY <1>10, <1>13, <2>1
    <3>3. running' /\ ie'
      BY <1>13, <3>1
    <3>4. load' = LoadFor(Sub(active'[1].at, last'))
      BY <1>13, <3>1, <3>2
    <3> QED BY <1>13, <3>1, <3>2, <3>3, <3>4 DEF HeadArmed, LoadFor
  <2>5. SearchOrder' /\ DispatchOrder'
    BY <1>7 DEF SearchOrder, DispatchOrder
  <2> QED BY <2>2, <2>3, <2>4, <2>5 DEF IInv
<1> QED BY <1>8, <1>12, <1>13

-----------------------------------------------------------------------------
LEMMA NextIInv == IInv /\ [Next]_vars => IInv'
<1> SUFFICES ASSUME IInv, [Next]_vars PROVE IInv'
  OBVIOUS
<1>1. CASE Tick
  BY <1>1, TickIInv
<1>2. CASE Interrupt
  BY <1>2, ExpireIInv, StutterIInv DEF Interrupt
<1>3. CASE InCall
  BY <1>3, CheckEmptyIInv, MaskIInv, UnlinkActiveIInv, UnlinkQueuedIInv,
     MaskInsertIInv, InsertIInv, DispatchIInv, CallbackReturnsIInv DEF InCall
<1>4. CASE BeginDispatch
  BY <1>4, BeginDispatchIInv
<1>5. CASE Client
  BY <1>5, BeginIInv DEF Client
<1>6. CASE Crashed \/ UNCHANGED vars
  BY <1>6, StutterIInv DEF Crashed
<1> QED BY <1>1, <1>2, <1>3, <1>4, <1>5, <1>6 DEF Next

(* The inductive invariant holds throughout every behaviour. *)
THEOREM Invariance == Spec => []IInv
<1>1. Init => IInv
  BY InitIInv
<1>2. IInv /\ [Next]_vars => IInv'
  BY NextIInv
<1> QED BY <1>1, <1>2, PTL DEF Spec

(* Every variable of timeout.c keeps a value of its type, whatever the number of
   timers, the width of the counter and of the absolute time. *)
THEOREM TypeCorrect == Spec => []TypeOK
<1>1. IInv => TypeOK
  BY DEF IInv
<1> QED BY <1>1, Invariance, PTL

(* No timer is ever linked twice (timeout.c:263), for every interleaving of the
   main loop's calls with the interrupt. *)
THEOREM NeverLinkedTwice == Spec => []LinkedOnce
<1>1. IInv => LinkedOnce
  BY DEF IInv
<1> QED BY <1>1, Invariance, PTL

(* The countdown of the first timer is always armed, so the list never stays
   unserved (timeout.c:188). *)
THEOREM HeadAlwaysArmed == Spec => []HeadArmed
<1>1. IInv => HeadArmed
  BY DEF IInv
<1> QED BY <1>1, Invariance, PTL

=============================================================================
