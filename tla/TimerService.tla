---------------------------- MODULE TimerService ----------------------------
(***************************************************************************)
(* What the timeout driver promises its clients (include/timeout.h): a     *)
(* timer that was started waits, expires no earlier than asked for, is     *)
(* queued behind those that expired before it and handed to its callback   *)
(* once, unless it is cancelled on the way.  Lists, counter, interrupt     *)
(* mask and absolute times are the implementation's (TimeoutScheduler).    *)
(***************************************************************************)
EXTENDS Naturals, SequencesExt

CONSTANTS Timers, Timeouts

VARIABLES
  waiting,  (* the timers that run                                     *)
  ready,    (* the expired timers whose callbacks are due, oldest first *)
  due       (* for each timer, the clock edges still to wait            *)

vars == <<waiting, ready, due>>

Queued == {ready[i] : i \in DOMAIN ready}

Init == waiting = {} /\ ready = <<>> /\ due = [t \in Timers |-> 0]

Tick ==
  /\ due' = [t \in Timers |-> IF due[t] > 0 THEN due[t] - 1 ELSE 0]
  /\ UNCHANGED <<waiting, ready>>

(* A timeout of d is d whole clock periods: d + 1 edges from an arbitrary
   moment between two edges. *)
Start(t, d) ==
  /\ t \notin waiting /\ t \notin Queued
  /\ waiting' = waiting \cup {t}
  /\ due' = [due EXCEPT ![t] = d + 1]
  /\ UNCHANGED ready

Cancel(t) ==
  /\ t \in waiting \/ t \in Queued
  /\ waiting' = waiting \ {t}
  /\ \/ t \notin Queued /\ UNCHANGED ready
     \/ \E i \in DOMAIN ready : ready[i] = t /\ ready' = RemoveAt(ready, i)
  /\ UNCHANGED due

Expire(t) ==
  /\ t \in waiting /\ due[t] = 0
  /\ waiting' = waiting \ {t}
  /\ ready' = Append(ready, t)
  /\ UNCHANGED due

Dispatch ==
  /\ ready # <<>>
  /\ ready' = Tail(ready)
  /\ UNCHANGED <<waiting, due>>

Next ==
  \/ Tick \/ Dispatch
  \/ \E t \in Timers : Cancel(t) \/ Expire(t)
  \/ \E t \in Timers, d \in Timeouts : Start(t, d)

Spec == Init /\ [][Next]_vars
=============================================================================
