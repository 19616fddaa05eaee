-------------------------- MODULE TimeoutScheduler --------------------------
(***************************************************************************)
(* The software timers of the AVR-IoT firmware (src/timeout.c): one 16-bit *)
(* real-time counter drives any number of one-shot timers.  A list of      *)
(* running timers is kept sorted by absolute time and the counter is       *)
(* loaded so that it overflows when the first of them expires; the         *)
(* overflow interrupt moves that timer to the execute queue, and the main  *)
(* loop later runs its callback.                                           *)
(*                                                                         *)
(* Two actors share the lists: the main loop (scheduler_timeout_create,    *)
(* _delete, _call_next_callback) and the interrupt handler.  The main loop *)
(* excludes the handler only by masking the RTC interrupt, so its steps    *)
(* are cut here wherever the interrupt can come, and once more inside the  *)
(* masked sections of create and delete, where the counter can overflow    *)
(* unseen.                                                                 *)
(*                                                                         *)
(* A linked list is a sequence of its nodes; LinkedOnce below is what      *)
(* makes that sound (no node is in two places).  Definitions named after a *)
(* defect (LoadForOffByOne, ...) replace the one that follows them in      *)
(* the mutation runs and are used nowhere else.                            *)
(***************************************************************************)
EXTENDS Integers, SequencesExt

CONSTANTS
  Timers,      (* the timers of the clients: timer_struct_t objects          *)
  Dummy,       (* scheduler_dummy, the stand-in for a time out of range      *)
  RtcMax,      (* the largest counter value, 65535 in the code               *)
  Word,        (* absolutetime_t is modulo Word, 2^32 in the code            *)
  Timeouts,    (* the timeouts the clients ask for                           *)
  Horizon,     (* bound: timers are created only while `last` is below it    *)
  TickInUnlink (* whether the counter may advance inside delete's masked section *)

ASSUME RtcAssumption ==
  /\ RtcMax \in Nat \ {0}
  /\ Word \in Nat
  /\ Word > RtcMax

ASSUME ClientAssumption ==
  /\ Dummy \notin Timers
  /\ Timeouts \subseteq 0 .. Word - 1
  /\ Horizon \in Nat
  /\ TickInUnlink \in BOOLEAN

VARIABLES
  active,  (* scheduler_list_head: the running timers with their absolute_time *)
  queue,   (* scheduler_execute_queue_head: expired, callback not yet called   *)
  last,    (* scheduler_absolute_time_of_last_timeout                          *)
  load,    (* scheduler_last_timer_load                                        *)
  running, (* scheduler_is_running                                             *)
  cnt,     (* RTC.CNT                                                          *)
  ovf,     (* the OVF bit of RTC.INTFLAGS: an overflow not yet served          *)
  ie,      (* the OVF bit of RTC.INTCTRL: the overflow interrupt is unmasked   *)
  call,    (* where the main loop is                                           *)
  due,     (* history: counter edges still owed to each timer's request        *)
  fault    (* the interrupt handler found the list empty and dereferenced NULL *)

clock == <<load, running, cnt, ovf, ie>>
vars == <<active, queue, last, clock, call, due, fault>>

Entry == [timer : Timers \cup {Dummy}, at : 0 .. Word - 1]

(***************************************************************************)
(* The main loop is idle, about to take a timer for its callback with the  *)
(* interrupt mask in tempIE ("dispatch"), in a callback, or in a create or *)
(* a delete of `timer`: before the empty-list test of delete_helper        *)
(* ("check"), about to mask the interrupt ("mask"), inside the masked      *)
(* section ("unlink"), for the active list or the execute queue, or        *)
(* between create's delete and its masked section ("insert") and inside    *)
(* that ("place").                                                         *)
(***************************************************************************)
Idle == [at |-> "idle"]
Dispatching(mask) == [at |-> "dispatch", tempIE |-> mask]
Callback(t) == [at |-> "callback", timer |-> t]
Request == [op : {"create"}, timeout : Timeouts] \cup [op : {"delete"}]
Deleting(where, list, t, req) ==
  [at |-> where, list |-> list, timer |-> t, req |-> req]
Inserting(where, t, timeout) == [at |-> where, timer |-> t, timeout |-> timeout]
Call ==
  {Idle} \cup {Dispatching(mask) : mask \in BOOLEAN}
    \cup {Callback(t) : t \in Timers}
    \cup {Inserting(where, t, d) :
            where \in {"insert", "place"}, t \in Timers, d \in Timeouts}
    \cup {Deleting(where, list, t, req) :
            where \in {"check", "mask", "unlink"}, list \in {"active", "queue"},
            t \in Timers, req \in Request}

-----------------------------------------------------------------------------
(* Arithmetic of absolutetime_t, and the sequence helpers. *)
Add(a, b) == (a + b) % Word
Sub(a, b) == (a - b) % Word

(* The timers linked in an active list. *)
LinkedIn(list) == {list[i].timer : i \in DOMAIN list}

Distinct(list) == \A i, j \in DOMAIN list : list[i].timer = list[j].timer => i = j
DummyFirst(list) == \A i \in DOMAIN list : list[i].timer = Dummy => i = 1

(* scheduler_set_timer_duration: the load from which `duration` is counted.
   The overflow comes one edge after the counter reaches RtcMax. *)
LoadForOffByOne(duration) == RtcMax - duration - 1
LoadFor(duration) == RtcMax - duration

(* scheduler_make_absolute *)
MakeAbsoluteIgnoresFlag(timeout) ==
  IF running THEN Add(timeout + last, cnt - load) ELSE Add(timeout, last)
MakeAbsolute(timeout) ==
  IF running THEN Add(timeout + last, (IF ovf THEN RtcMax ELSE cnt) - load)
             ELSE Add(timeout, last)

(* The countdown starts and its interrupt is unmasked. *)
ArmMasked(duration) ==
  load' = LoadFor(duration) /\ cnt' = load' /\ running' = TRUE /\ ie' = FALSE
Arm(duration) ==
  load' = LoadFor(duration) /\ cnt' = load' /\ running' = TRUE /\ ie' = TRUE

(* scheduler_stop_timeouts *)
StopTimeouts == last' = 0 /\ running' = FALSE /\ ie' = FALSE

(* scheduler_start_timer_at_head on a given list, base time and current load. *)
StartTimerAtHead(list, base, oldLoad) ==
  \/ /\ list = <<>>
     /\ active' = <<>> /\ load' = oldLoad /\ cnt' = cnt
     /\ StopTimeouts
  \/ /\ list # <<>>
     /\ LET period == Sub(list[1].at, base)
            dummy == [timer |-> Dummy, at |-> Add(base, RtcMax)]
        IN IF period > RtcMax
           THEN active' = <<dummy>> \o list /\ Arm(RtcMax)
           ELSE active' = list /\ Arm(period)
     /\ last' = base

(* scheduler_rebase_list *)
Rebase(list, base) == [i \in DOMAIN list |-> [list[i] EXCEPT !.at = Sub(@, base)]]

-----------------------------------------------------------------------------
(* scheduler_timeout_init; system_init runs it before interrupts are enabled.
   The overflow interrupt is unmasked although no timer is running. *)
Init ==
  /\ active = <<>> /\ queue = <<>> /\ last = 0
  /\ load = 0 /\ running = FALSE /\ cnt = 0 /\ ovf = FALSE /\ ie = TRUE
  /\ call = Idle
  /\ due = [t \in Timers |-> 0]
  /\ fault = FALSE

(* A pending unmasked interrupt is served before the main loop's next step. *)
MainRuns == ~fault /\ ~(ovf /\ ie)

(* The counter is free-running.  It advances slowly compared with code, so no
   edge falls between an unmasked overflow and its handler (timeout.c:347). *)
Tick ==
  /\ MainRuns
  /\ call.at = "unlink" => TickInUnlink
  /\ cnt' = IF cnt = RtcMax THEN 0 ELSE cnt + 1
  /\ ovf' = (ovf \/ cnt = RtcMax)
  /\ due' = [t \in Timers |-> IF due[t] > 0 THEN due[t] - 1 ELSE 0]
  /\ UNCHANGED <<active, queue, last, load, running, ie, call, fault>>

(* ISR(RTC_CNT_vect) with a timer, or the dummy, at the head of the list. *)
Expire ==
  /\ ~fault /\ ovf /\ ie /\ active # <<>>
  /\ queue' = IF active[1].timer = Dummy THEN queue
                                         ELSE Append(queue, active[1].timer)
  /\ StartTimerAtHead(Tail(active), active[1].at, 0)
  /\ ovf' = FALSE
  /\ UNCHANGED <<call, due, fault>>

(* ISR(RTC_CNT_vect) with no timer running: scheduler_list_head is NULL and the
   handler reads and writes through it.  Nothing is modelled after that. *)
ExpireNothing ==
  /\ ~fault /\ ovf /\ ie /\ active = <<>>
  /\ fault' = TRUE
  /\ UNCHANGED <<active, queue, last, clock, call, due>>

Crashed == fault /\ UNCHANGED vars

-----------------------------------------------------------------------------
(* scheduler_timeout_delete and scheduler_timeout_create, called from the main
   loop; create starts with a delete. *)
BeginDelete(t) ==
  /\ MainRuns /\ call = Idle
  /\ call' = Deleting("check", "active", t, [op |-> "delete"])
  /\ UNCHANGED <<active, queue, last, clock, due, fault>>

BeginCreate(t, timeout) ==
  /\ MainRuns /\ call = Idle /\ last < Horizon
  /\ call' = Deleting("check", "active", t, [op |-> "create", timeout |-> timeout])
  /\ UNCHANGED <<active, queue, last, clock, due, fault>>

AfterHelperActiveOnly(c, found) ==
  IF c.req.op = "create" THEN Inserting("insert", c.timer, c.req.timeout) ELSE Idle

(* What follows delete_helper on a list: a timer the active list did not hold is
   looked for in the execute queue; then create goes on to its insertion. *)
AfterHelper(c, found) ==
  IF c.list = "active" /\ ~found
    THEN Deleting("check", "queue", c.timer, c.req)
  ELSE IF c.req.op = "create" THEN Inserting("insert", c.timer, c.req.timeout) ELSE Idle

(* delete_helper's test for an empty list, made before it masks the interrupt. *)
CheckEmpty ==
  /\ MainRuns /\ call.at = "check"
  /\ call' = IF (IF call.list = "active" THEN active = <<>> ELSE queue = <<>>)
               THEN AfterHelper(call, FALSE)
               ELSE [call EXCEPT !.at = "mask"]
  /\ UNCHANGED <<active, queue, last, clock, due, fault>>

Mask ==
  /\ MainRuns /\ call.at = "mask"
  /\ ie' = FALSE
  /\ call' = [call EXCEPT !.at = "unlink"]
  /\ UNCHANGED <<active, queue, last, load, running, cnt, ovf, due, fault>>

UnlinkActiveNoRestart ==
  /\ MainRuns /\ call.at = "unlink" /\ call.list = "active"
  /\ active' = SelectSeq(active, LAMBDA e : e.timer # call.timer)
  /\ ie' = TRUE
  /\ call' = AfterHelper(call, call.timer \in LinkedIn(active))
  /\ UNCHANGED <<queue, last, load, running, cnt, ovf, due, fault>>

(* The rest of delete_helper on the active list: the head is taken off and the
   countdown starts for its successor; elsewhere the node is cut out, if it is
   there, and the interrupt unmasked. *)
UnlinkActive ==
  LET t == call.timer IN
  /\ MainRuns /\ call.at = "unlink" /\ call.list = "active"
  /\ \/ /\ active # <<>> /\ active[1].timer = t
        /\ StartTimerAtHead(Tail(active), last, load)
     \/ /\ \/ \E i \in 2 .. Len(active) :
                active[i].timer = t /\ active' = RemoveAt(active, i)
           \/ t \notin LinkedIn(active) /\ active' = active
        /\ ie' = TRUE
        /\ UNCHANGED <<last, load, running, cnt>>
  /\ call' = AfterHelper(call, t \in LinkedIn(active))
  /\ UNCHANGED <<queue, ovf, due, fault>>

(* The rest of delete_helper on the execute queue.  Deleting the head of the
   queue starts the countdown of the active list's head afresh; in every other
   case the interrupt is unmasked, whether or not a timer is running. *)
UnlinkQueued ==
  LET t == call.timer IN
  /\ MainRuns /\ call.at = "unlink" /\ call.list = "queue"
  /\ \/ /\ queue # <<>> /\ Head(queue) = t
        /\ queue' = Tail(queue)
        /\ StartTimerAtHead(active, last, load)
     \/ /\ \/ \E i \in 2 .. Len(queue) : queue[i] = t /\ queue' = RemoveAt(queue, i)
           \/ t \notin ToSet(queue) /\ queue' = queue
        /\ ie' = TRUE
        /\ UNCHANGED <<active, last, load, running, cnt>>
  /\ call' = AfterHelper(call, TRUE)
  /\ UNCHANGED <<ovf, due, fault>>

InsertPointAtEnd(list, time, p) == p = Len(list) + 1

(* scheduler_sorted_insert puts a timer behind those that expire no later. *)
InsertPoint(list, time, p) ==
  /\ \A i \in 1 .. p - 1 : list[i].at <= time
  /\ p <= Len(list) => list[p].at > time

(* scheduler_timeout_create after its delete. *)
MaskInsert ==
  /\ MainRuns /\ call.at = "insert"
  /\ ie' = FALSE
  /\ call' = [call EXCEPT !.at = "place"]
  /\ UNCHANGED <<active, queue, last, load, running, cnt, ovf, due, fault>>

(* The rest of it, with scheduler_sorted_insert: the list is rebased when the
   absolute time wrapped; a new head takes the place of the dummy, drops an
   overflow not yet served and restarts the countdown. *)
Insert ==
  LET raw == MakeAbsolute(call.timeout)
      wrapped == raw < last
      base == MakeAbsolute(0)
      list == IF wrapped THEN Rebase(active, base) ELSE active
      time == IF wrapped THEN (raw + RtcMax - base + 1) % Word ELSE raw
      origin == IF wrapped THEN Sub(last, base) ELSE last
      node == [timer |-> call.timer, at |-> time]
      rest == IF list # <<>> /\ list[1].timer = Dummy THEN Tail(list) ELSE list
  IN
  /\ MainRuns /\ call.at = "place"
  /\ \/ /\ InsertPoint(list, time, 1)
        /\ StartTimerAtHead(<<node>> \o rest, origin, 0)
        /\ ovf' = FALSE
     \/ \E p \in 2 .. Len(list) + 1 :
        /\ InsertPoint(list, time, p)
        /\ active' = InsertAt(list, p, node)
        /\ last' = origin
        /\ ie' = running
        /\ UNCHANGED <<load, running, cnt, ovf>>
  /\ due' = [due EXCEPT ![call.timer] = call.timeout + 1]
  /\ call' = Idle
  /\ UNCHANGED <<queue, fault>>

-----------------------------------------------------------------------------
(* scheduler_timeout_call_next_callback up to its reading of the mask. *)
BeginDispatch ==
  /\ MainRuns /\ call = Idle /\ queue # <<>>
  /\ call' = Dispatching(ie)
  /\ UNCHANGED <<active, queue, last, clock, due, fault>>

(* The head of the execute queue is taken with the interrupt masked, and its
   callback runs with the mask as it was read: if the interrupt came in between
   and found the last timer, it is unmasked again with nothing to expire. *)
Dispatch ==
  /\ MainRuns /\ call.at = "dispatch"
  /\ call' = Callback(Head(queue))
  /\ queue' = Tail(queue)
  /\ ie' = call.tempIE
  /\ UNCHANGED <<active, last, load, running, cnt, ovf, due, fault>>

(* The callback returns 0, or the timeout with which its timer is created again. *)
CallbackReturns(reschedule) ==
  /\ MainRuns /\ call.at = "callback"
  /\ reschedule = 0 \/ last < Horizon
  /\ call' = IF reschedule = 0 THEN Idle
             ELSE Deleting("check", "active", call.timer,
                           [op |-> "create", timeout |-> reschedule])
  /\ UNCHANGED <<active, queue, last, clock, due, fault>>

-----------------------------------------------------------------------------
Interrupt == Expire \/ ExpireNothing

InCall ==
  \/ CheckEmpty \/ Mask \/ UnlinkActive \/ UnlinkQueued \/ MaskInsert \/ Insert
  \/ Dispatch
  \/ \E d \in Timeouts \cup {0} : CallbackReturns(d)

Client ==
  \/ \E t \in Timers : BeginDelete(t)
  \/ \E t \in Timers, d \in Timeouts : BeginCreate(t, d)

Next == Tick \/ Interrupt \/ InCall \/ BeginDispatch \/ Client \/ Crashed

Spec == Init /\ [][Next]_vars

(* The hardware counter never stops; between two interrupts the main loop makes
   progress: a call into the scheduler returns and the superloop of main.c keeps
   asking for the next callback.  Nothing obliges a client to make a call. *)
FairSpec ==
  Spec /\ SF_vars(Tick) /\ WF_vars(Interrupt) /\ SF_vars(InCall) /\ SF_vars(BeginDispatch)

-----------------------------------------------------------------------------
(* Every variable holds a value the C type or the register can hold. *)
TypeOK ==
  /\ active \in Seq(Entry) /\ queue \in Seq(Timers)
  /\ last \in 0 .. Word - 1
  /\ load \in 0 .. RtcMax /\ cnt \in 0 .. RtcMax
  /\ running \in BOOLEAN /\ ovf \in BOOLEAN /\ ie \in BOOLEAN
  /\ call \in Call
  /\ due \in [Timers -> Nat]
  /\ fault \in BOOLEAN

(* No timer is linked twice: the active list and the execute queue are disjoint
   and neither has a cycle, whatever the interrupt handler moves between them
   while a delete is under way (timeout.c:263).  A timer that create is about to
   insert, or whose callback runs, is in neither.  The dummy stands only at the
   head of the active list. *)
LinkedOnce ==
  /\ Distinct(active)
  /\ IsInjective(queue)
  /\ LinkedIn(active) \cap ToSet(queue) = {}
  /\ call.at \in {"insert", "place", "callback"} =>
       call.timer \notin LinkedIn(active) \cup ToSet(queue)
  /\ DummyFirst(active)

(* While a timer is in the active list the countdown of the first one is armed:
   the counter was loaded for exactly the distance from the last timeout to it and
   has not passed zero unless the overflow is flagged, and the interrupt is masked
   only inside delete and create.  No order of calls and interrupts leaves the list unserved
   (timeout.c:188). *)
HeadArmed ==
  active # <<>> =>
    /\ running
    /\ ie \/ call.at \in {"unlink", "place"}
    /\ Sub(active[1].at, last) <= RtcMax
    /\ load = LoadFor(Sub(active[1].at, last))
    /\ ovf \/ cnt >= load

(* The timers are kept in the order in which they expire (timeout.c:149). *)
SortedByTime ==
  \A i, j \in DOMAIN active : i < j => active[i].at <= active[j].at

(* "it is always the one at the head" (timeout.c:357): when the interrupt handler
   runs there is a timer, or the dummy, whose time has come. *)
ExpiredIsAtHead == ~(ovf /\ ie /\ active = <<>>)

(* A timer reaches the execute queue only when the ticks it asked for have passed
   (timeout.h:67). *)
NeverEarly ==
  [][\A t \in Timers : Len(queue') > Len(queue) /\ queue'[Len(queue')] = t => due[t] = 0]_vars

(* A timer created at the head is counted down for the ticks its client asked for
   and no more (timeout.h:67), however long the former head has been running. *)
NewHeadOnTime ==
  [][\A t \in Timers :
       Insert /\ call.timer = t /\ active'[1].timer = t => RtcMax - cnt' < due'[t]]_vars

(* The driver implements TimerService. *)
Service ==
  INSTANCE TimerService WITH waiting <- LinkedIn(active) \ {Dummy}, ready <- queue

ImplementsService == Service!Spec

(* Once the clients make no more calls, no timer stays in the active list for
   good, even if callbacks keep creating theirs again (timeout.c:348). *)
QuietExpiry ==
  <>[][~Client]_vars => \A t \in Timers : []<>(fault \/ t \notin LinkedIn(active))
=============================================================================
