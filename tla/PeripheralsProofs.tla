-------------------------- MODULE PeripheralsProofs --------------------------
(***************************************************************************)
(* The program of Peripherals, for every ring size and any numbers of      *)
(* lines, temperatures, commands, faults and refusals: the I2C driver is   *)
(* quiet outside its calls, writes only what it was given and completes    *)
(* what nothing disturbs; the serial port prints a queue; two disturbances *)
(* cannot pass an older answer of the secure element off for that to the   *)
(* command just given; and a transfer ends.                                *)
(***************************************************************************)
EXTENDS Peripherals, SequenceTheorems, TLAPS

-----------------------------------------------------------------------------
(* The serial port, by itself: its count and indices agree, no character   *)
(* is stranded, and the ring with its interrupt is the queue of CharFifo.  *)
(* The inductive invariant: while the count is changed, interrupts are off *)
(* and the loaded value is the count.                                      *)
Guarded == /\ wpc = "add" => reg = txElements /\ ~irqOn
           /\ wpc # "add" => irqOn

IInv == RingTypeOK /\ CountAgrees /\ NoneStranded /\ Guarded

-----------------------------------------------------------------------------
(* An index below twice the size wraps into the ring.                      *)
LEMMA WrapType ==
  ASSUME NEW i \in Nat, i < SIZE + SIZE
  PROVE  Wrap(i) \in Slots
BY SizeAssumption DEF Wrap, Slots

(* Every cell is somebody's character.                                     *)
LEMMA BlankType == Blank \in Chars
BY SizeAssumption DEF Blank

LEMMA InitIInv == SerialInit => IInv
<1> SUFFICES ASSUME SerialInit
             PROVE  IInv
  OBVIOUS
<1>1. 0 \in Slots /\ SIZE \in Nat /\ SIZE > 0
  BY SizeAssumption DEF Slots
<1>2. RingTypeOK
  <2>1. txbuf \in [Slots -> Chars]
    BY BlankType DEF SerialInit
  <2>2. line \in Seq(Chars)
    BY DEF SerialInit
  <2> QED
    BY <1>1, <2>1, <2>2, BlankType DEF SerialInit, RingTypeOK
<1>3. CountAgrees
  BY <1>1 DEF SerialInit, CountAgrees, Pending, Wrap
<1> QED
  BY <1>2, <1>3 DEF SerialInit, IInv, NoneStranded, Guarded

-----------------------------------------------------------------------------
(* One step of the port preserves the invariant.                           *)
LEMMA StepIInv ==
  ASSUME IInv, [SerialNext]_serialVars
  PROVE  IInv'
<1> USE SizeAssumption DEF IInv, Guarded
<1>t. RingTypeOK /\ CountAgrees /\ NoneStranded
  OBVIOUS
<1>1. ASSUME NEW c \in Chars, Write(c)
      PROVE  IInv'
  BY <1>1, <1>t DEF Write, ring, RingTypeOK, CountAgrees, NoneStranded, Pending, Slots
<1>2. CASE StoreChar
  <2>1. txHead' \in Slots
    BY <1>2, <1>t, WrapType DEF StoreChar, RingTypeOK, Slots
  <2>2. txHead' = Wrap(txTail + txElements + 1)
    BY <1>2, <1>t DEF StoreChar, RingTypeOK, CountAgrees, Pending, Wrap, Slots
  <2>3. txElements + 1 <= SIZE
    BY <1>2, <1>t DEF StoreChar, RingTypeOK, CountAgrees, Pending
  <2>4. RingTypeOK'
    BY <1>2, <1>t, <2>1 DEF StoreChar, RingTypeOK
  <2>5. CountAgrees'
    BY <1>2, <1>t, <2>2, <2>3 DEF StoreChar, CountAgrees, Pending, Wrap
  <2> QED
    BY <1>2, <1>t, <2>4, <2>5 DEF StoreChar, NoneStranded
<1>3. CASE LoadElements
  BY <1>3, <1>t DEF LoadElements, ring, RingTypeOK, CountAgrees, NoneStranded, Pending, Slots, Wrap
<1>4. CASE StoreElements
  BY <1>4, <1>t DEF StoreElements, ring, RingTypeOK, CountAgrees, NoneStranded, Pending, Slots, Wrap
<1>5. CASE EnableDre
  BY <1>5, <1>t DEF EnableDre, ring, RingTypeOK, CountAgrees, NoneStranded, Pending, Slots, Wrap
<1>6. CASE DreIsr
  <2>1. CASE txElements = 0
    BY <1>6, <1>t, <2>1 DEF DreIsr, RingTypeOK, CountAgrees, NoneStranded, Pending, Slots, Wrap
  <2>2. CASE txElements # 0
    <3>1. txTail' \in Slots /\ txTail' = Wrap(txTail + 1) /\ txElements' = txElements - 1
      BY <1>6, <1>t, <2>2, WrapType DEF DreIsr, RingTypeOK, Slots
    <3>2. line' \in Seq(Chars)
      <4>1. txbuf[txTail'] \in Chars
        BY <1>t, <3>1 DEF RingTypeOK
      <4> QED
        BY <1>6, <1>t, <2>2, <4>1 DEF DreIsr, RingTypeOK
    <3>e. dreie' \in BOOLEAN /\ (txElements' # 0 => dreie')
      <4>1. dreie' = (txElements' # 0)
        BY <1>6 DEF DreIsr
      <4> QED
        BY <4>1, Zenon
    <3>u. dre' = FALSE /\ UNCHANGED <<txbuf, txHead, irqOn, wpc, char, reg>>
      BY <1>6, <2>2 DEF DreIsr
    <3>3. RingTypeOK'
      <4>1. txElements' \in 0 .. SIZE
        BY <1>t, <2>2, <3>1 DEF RingTypeOK
      <4>2. dre' \in BOOLEAN /\ irqOn' \in BOOLEAN
        BY <1>t, <3>u DEF RingTypeOK
      <4> HIDE DEF IInv
      <4> QED
        BY <1>t, <4>1, <4>2, <3>1, <3>2, <3>e, <3>u DEF RingTypeOK
    <3>4. Pending' = Pending
      BY <1>6 DEF DreIsr, Pending
    <3>5. Wrap(txTail' + txElements' + Pending) = Wrap(txTail + txElements + Pending)
      BY <1>t, <2>2, <3>1 DEF RingTypeOK, CountAgrees, Pending, Wrap, Slots
    <3>6. CountAgrees'
      BY <1>6, <1>t, <3>1, <3>4, <3>5 DEF DreIsr, CountAgrees, RingTypeOK, Pending, Wrap
    <3> QED
      <4>1. Guarded'
        BY <3>u, <1>6, <1>t, <3>1 DEF DreIsr
      <4>2. NoneStranded'
        <5>1. txElements' > 0 => txElements' # 0
          BY <3>3 DEF RingTypeOK
        <5> QED
          BY <3>e, <5>1, Zenon DEF NoneStranded
      <4> QED
        BY <3>3, <3>6, <4>1, <4>2
  <2> QED
    BY <2>1, <2>2
<1>7. CASE Shift
  BY <1>7, <1>t DEF Shift, ring, RingTypeOK, CountAgrees, NoneStranded, Pending, Slots, Wrap
<1>8. CASE UNCHANGED serialVars
  BY <1>8, <1>t DEF serialVars, RingTypeOK, CountAgrees, NoneStranded, Pending, Slots, Wrap
<1> QED
  BY <1>1, <1>2, <1>3, <1>4, <1>5, <1>6, <1>7, <1>8 DEF SerialNext, WriteStep

(* The ring is sound in every reachable state.                             *)
THEOREM RingInvariance == SerialSpec => []IInv
<1>1. SerialInit => IInv
  BY InitIInv
<1>2. IInv /\ [SerialNext]_serialVars => IInv'
  BY StepIInv
<1> QED
  BY <1>1, <1>2, PTL DEF SerialSpec

(* Count and indices of the ring agree at every step of a write and of the *)
(* interrupt.                                                              *)
THEOREM CountsAgree == SerialSpec => []CountAgrees
<1>1. IInv => CountAgrees
  BY DEF IInv
<1> QED
  BY <1>1, RingInvariance, PTL

(* No character waits with its interrupt disabled.                         *)
THEOREM NoCharacterStranded == SerialSpec => []NoneStranded
<1>1. IInv => NoneStranded
  BY DEF IInv
<1> QED
  BY <1>1, RingInvariance, PTL

-----------------------------------------------------------------------------
(* The ring as a queue.                                                    *)

LEMMA QueueType ==
  ASSUME IInv
  PROVE  /\ Queue \in Seq(Chars)
         /\ Len(Queue) = txElements
         /\ \A i \in 1 .. txElements : Queue[i] = txbuf[Wrap(txTail + i)]
<1>1. txElements \in Nat
  BY SizeAssumption DEF IInv, RingTypeOK
<1>2. ASSUME NEW i \in 1 .. txElements
      PROVE  txbuf[Wrap(txTail + i)] \in Chars
  <2>1. Wrap(txTail + i) \in Slots
    BY SizeAssumption DEF IInv, RingTypeOK, Wrap, Slots
  <2> QED
    BY <2>1 DEF IInv, RingTypeOK
<1> QED
  BY <1>1, <1>2 DEF Queue

(* A step that keeps the cells, the tail and the count keeps the queue.    *)
LEMMA QueueStays ==
  ASSUME UNCHANGED <<txbuf, txTail, txElements>>
  PROVE  Queue' = Queue
BY DEF Queue, Wrap

(* The interrupt takes the first character.                                *)
LEMMA IsrTransmits ==
  ASSUME IInv, DreIsr, txElements # 0
  PROVE  Fifo!Transmit
<1> DEFINE n == txElements
           q == Queue
<1>1. n \in Nat /\ n > 0 /\ n <= SIZE /\ txTail \in Slots
  BY SizeAssumption DEF IInv, RingTypeOK
<1>2. q \in Seq(Chars) /\ Len(q) = n /\ q # <<>>
  BY QueueType, <1>1
<1>3. txTail' = Wrap(txTail + 1) /\ txElements' = n - 1 /\ txbuf' = txbuf
      /\ line' = Append(line, txbuf[txTail'])
  BY DEF DreIsr
<1>4. Head(q) = txbuf[Wrap(txTail + 1)]
  BY QueueType, <1>1, <1>2
<1>5. ASSUME NEW i \in 1 .. n - 1
      PROVE  Wrap(txTail' + i) = Wrap(txTail + (i + 1))
  BY <1>1, <1>3, SizeAssumption DEF Wrap, Slots
<1>6. Queue' = [i \in 1 .. n - 1 |-> txbuf[Wrap(txTail + (i + 1))]]
  <2>1. Queue' = [i \in 1 .. n - 1 |-> txbuf[Wrap(txTail' + i)]]
    BY <1>3 DEF Queue, Wrap
  <2> QED
    BY <2>1, <1>5
<1>7. Tail(q) = [i \in 1 .. n - 1 |-> txbuf[Wrap(txTail + (i + 1))]]
  <2>1. /\ Tail(q) \in Seq(Chars) /\ Len(Tail(q)) = n - 1
        /\ \A i \in 1 .. n - 1 : Tail(q)[i] = q[i + 1]
    BY <1>1, <1>2, HeadTailProperties
  <2>2. DOMAIN Tail(q) = 1 .. n - 1 /\ Tail(q) = [i \in DOMAIN Tail(q) |-> Tail(q)[i]]
    BY <2>1, LenProperties
  <2>3. \A i \in 1 .. n - 1 : q[i + 1] = txbuf[Wrap(txTail + (i + 1))]
    BY <1>1, QueueType
  <2> QED
    BY <2>1, <2>2, <2>3
<1> QED
  BY <1>2, <1>3, <1>4, <1>6, <1>7 DEF Fifo!Transmit

(* The counting of a stored character puts it last in the queue.           *)
LEMMA WritePuts ==
  ASSUME IInv, StoreElements
  PROVE  Fifo!Put
<1> DEFINE n == txElements
           c == txbuf[txHead]
<1>1. n \in Nat /\ n + 1 <= SIZE /\ txTail \in Slots /\ txHead = Wrap(txTail + n + 1)
      /\ reg = n
  BY SizeAssumption DEF IInv, RingTypeOK, CountAgrees, Pending, Guarded, StoreElements
<1>2. Queue \in Seq(Chars) /\ Len(Queue) = n
  BY QueueType
<1>3. c \in Chars
  BY DEF IInv, RingTypeOK
<1>4. txElements' = n + 1 /\ txTail' = txTail /\ txbuf' = txbuf /\ line' = line
  BY <1>1 DEF StoreElements, ring
<1>5. Queue' = [i \in 1 .. n + 1 |-> txbuf[Wrap(txTail + i)]]
  BY <1>4 DEF Queue, Wrap
<1>6. txbuf[Wrap(txTail + (n + 1))] = c
  BY <1>1 DEF Slots
<1>7. Append(Queue, c) = [i \in 1 .. n + 1 |-> IF i = n + 1 THEN c ELSE Queue[i]]
  BY <1>1, <1>2
<1>8. Queue' = Append(Queue, c)
  <2>1. \A i \in 1 .. n + 1 :
          txbuf[Wrap(txTail + i)] = IF i = n + 1 THEN c ELSE Queue[i]
    BY <1>1, <1>6, QueueType
  <2> QED
    BY <1>5, <1>7, <2>1
<1> QED
  <2>1. Len(Queue) < SIZE
    BY <1>1, <1>2, SizeAssumption
  <2> QED
    BY <1>3, <1>4, <1>8, <2>1 DEF Fifo!Put

(* The cell a write fills belongs to nobody: the queue does not change.    *)
LEMMA StoreHidden ==
  ASSUME IInv, StoreChar
  PROVE  Queue' = Queue
<1> DEFINE n == txElements
<1>1. n \in Nat /\ n < SIZE /\ txTail \in Slots /\ txHead' = Wrap(Wrap(txTail + n) + 1)
  <2>1. Pending = 0 /\ n # SIZE /\ txHead' = Wrap(txHead + 1)
    BY DEF StoreChar, Pending
  <2>2. n \in 0 .. SIZE /\ txTail \in Slots /\ txHead = Wrap(txTail + n + Pending)
    BY DEF IInv, RingTypeOK, CountAgrees
  <2>3. txTail + n + 0 = txTail + n
    BY <2>2, SizeAssumption DEF Slots
  <2> QED
    BY <2>1, <2>2, <2>3, SizeAssumption
<1>2. ASSUME NEW i \in 1 .. n
      PROVE  Wrap(txTail + i) # txHead' /\ Wrap(txTail + i) \in Slots
  BY <1>1, SizeAssumption DEF Wrap, Slots
<1>3. ASSUME NEW i \in 1 .. n
      PROVE  txbuf'[Wrap(txTail + i)] = txbuf[Wrap(txTail + i)]
  BY <1>2 DEF StoreChar, IInv, RingTypeOK
<1>4. Queue' = [i \in 1 .. n |-> txbuf'[Wrap(txTail + i)]]
  BY DEF StoreChar, Queue, Wrap
<1> QED
  BY <1>3, <1>4 DEF Queue

(* The ring implements the queue of characters its callers expect.         *)
THEOREM RingIsFifo == SerialSpec => ImplementsFifo
<1>1. SerialInit => Fifo!Init
  <2> SUFFICES ASSUME SerialInit
               PROVE  Fifo!Init
    OBVIOUS
  <2>1. txElements = 0 /\ line = <<>>
    BY DEF SerialInit
  <2>2. Queue = <<>>
    BY <2>1, InitIInv, QueueType
  <2> QED
    BY <2>1, <2>2 DEF Fifo!Init
<1>2. IInv /\ [SerialNext]_serialVars => [Fifo!Next]_<<Queue, line>>
  <2> SUFFICES ASSUME IInv, [SerialNext]_serialVars
               PROVE  Fifo!Next \/ UNCHANGED <<Queue, line>>
    OBVIOUS
  <2>1. ASSUME NEW c \in Chars, Write(c)
        PROVE  UNCHANGED <<Queue, line>>
    BY <2>1, QueueStays DEF Write, ring
  <2>2. CASE StoreChar
    BY <2>2, StoreHidden DEF StoreChar
  <2>3. CASE LoadElements
    BY <2>3, QueueStays DEF LoadElements, ring
  <2>4. CASE StoreElements
    BY <2>4, WritePuts DEF Fifo!Next
  <2>5. CASE EnableDre
    BY <2>5, QueueStays DEF EnableDre, ring
  <2>6. CASE DreIsr
    <3>1. CASE txElements = 0
      BY <2>6, <3>1, QueueStays DEF DreIsr
    <3> QED
      BY <2>6, <3>1, IsrTransmits DEF Fifo!Next
  <2>7. CASE Shift
    BY <2>7, QueueStays DEF Shift, ring
  <2>8. CASE UNCHANGED serialVars
    BY <2>8, QueueStays DEF serialVars
  <2> QED
    BY <2>1, <2>2, <2>3, <2>4, <2>5, <2>6, <2>7, <2>8 DEF SerialNext, WriteStep
<1> QED
  BY <1>1, <1>2, RingInvariance, PTL DEF SerialSpec, ImplementsFifo, Fifo!Spec

-----------------------------------------------------------------------------
(* The I2C driver.                                                         *)

Live == {"adrW", "adrR", "byteW", "byteR"}
Moving == {"poll", "close"}
OnNack == IF call.poll THEN "restart_write" ELSE "stop"
OnData == IF call.out > 0 /\ call.in > 0 THEN "restart_read" ELSE "stop"

(* The driver at rest: no interrupt can move its state machine.            *)
Quiet ==
  /\ ~m.inUse /\ ~m.flag /\ m.fault = "none" /\ m.job \in {"none", "dead"}
  /\ m.ien => m.state = "IDLE"

(* The bus is opened and nothing is on the wire yet.                       *)
Untouched == m.sent = 0 /\ m.got = 0 /\ ~m.strange /\ ~m.refused
Opened ==
  /\ m.inUse /\ m.ien /\ ~m.busy /\ m.state = "RESET"
  /\ ~m.flag /\ m.fault = "none" /\ m.job = "none" /\ Untouched

(* Whose bytes the state machine counts: those of the out buffer, those of *)
(* the in buffer, or, after a refused repeated start, bytes of the in      *)
(* buffer that it takes for bytes to write.                                *)
Writing ==
  /\ m.ptr = "out" /\ call.out > 0 /\ m.onData = OnData
  /\ m.state \in {"TX", "TX_EMPTY"} /\ (m.left > 0) = (m.state = "TX")
  /\ m.sent + m.left = call.out /\ m.got = 0
Reading ==
  /\ m.ptr = "in" /\ m.onData = "stop" /\ m.state = "RX" /\ m.left > 0
  /\ m.sent = call.out /\ m.got + m.left = call.in
  /\ m.nackCheck => m.got = 0
Misled ==
  /\ m.ptr = "in" /\ m.onData = "stop"
  /\ m.state \in {"TX", "TX_EMPTY"} /\ (m.left > 0) = (m.state = "TX")
  /\ m.refused /\ call.out > 0 /\ call.in > 0

(* The wire carries what the state stands for, or it has ended and the     *)
(* interrupt is due.                                                       *)
OnWire ==
  /\ ~m.flag /\ m.busy /\ m.fault = "none" /\ m.job \in Live
  /\ IF m.job \in {"adrR", "byteR"} THEN m.state = "RX" ELSE m.state \in {"TX", "TX_EMPTY"}
  /\ m.job = "adrW" => m.state = "TX"
Flagged ==
  /\ m.flag /\ m.job = "none" /\ (m.rxack => m.refused)
  /\ m.fault # "none" => faults > 0
  /\ ~m.busy => m.fault = "BUSERR"
Active ==
  /\ OnWire \/ Flagged
  /\ ~m.bufferFree /\ m.onNack = OnNack
  /\ m.nackCheck => m.state # "TX_EMPTY"
  /\ Writing \/ Reading \/ Misled

(* The transfer has ended, or the bus is dead.                             *)
Completed == faults = 0 /\ ~m.refused => m.sent = call.out /\ m.got = call.in
Over ==
  /\ ~m.flag /\ ~m.busy /\ m.fault = "none" /\ m.job = "none"
  /\ m.state \in {"IDLE", "RESET"} /\ Completed
Dead == ~m.flag /\ m.fault = "none" /\ m.job = "dead" /\ faults > 0

I2cInv ==
  /\ ipc = "none" => Quiet
  /\ ipc = "open" => Untouched /\ (IF m.inUse THEN Opened /\ m.bufferFree ELSE Quiet)
  /\ ipc = "setup" => Opened /\ m.bufferFree
  /\ ipc = "start" =>
       /\ Opened /\ ~m.bufferFree /\ m.onData = OnData /\ m.onNack = OnNack
       /\ m.ptr = IF call.out > 0 THEN "out" ELSE "in"
       /\ m.left = IF call.out > 0 THEN call.out ELSE call.in
  /\ ipc \in Moving => m.inUse /\ m.ien /\ (Active \/ Over \/ Dead)
  /\ ipc = "returned" => Quiet /\ Completed

(* Everything about the driver that holds together.                        *)
DriverInv == I2cTypeOK /\ I2cInv /\ WritesOwnBytes

-----------------------------------------------------------------------------
(* A call writes or reads, and only one that writes polls.                 *)
LEMMA CallShapes ==
  ASSUME I2cTypeOK
  PROVE  /\ call.out \in 0 .. 2 /\ call.in \in 0 .. 2 /\ call.poll \in BOOLEAN
         /\ call.out > 0 \/ call.in > 0
         /\ call.poll => call.out > 0
<1> DEFINE Fits(c) == /\ c.out \in 0 .. 2 /\ c.in \in 0 .. 2 /\ c.poll \in BOOLEAN
                      /\ c.out > 0 \/ c.in > 0
                      /\ c.poll => c.out > 0
<1>1. PICK name \in DOMAIN Calls : call = Calls[name]
  BY DEF I2cTypeOK
<1>2. name \in {"temperature", "wake", "verify", "send", "receive", "idle"}
  BY <1>1 DEF Calls
<1>3. /\ Calls["temperature"] = [dev |-> "sensor", out |-> 1, in |-> 2, poll |-> TRUE]
      /\ Calls["wake"] = [dev |-> "general", out |-> 1, in |-> 0, poll |-> FALSE]
      /\ Calls["verify"] = [dev |-> "element", out |-> 0, in |-> 2, poll |-> FALSE]
      /\ Calls["send"] = [dev |-> "element", out |-> 2, in |-> 0, poll |-> TRUE]
      /\ Calls["receive"] = [dev |-> "element", out |-> 0, in |-> 2, poll |-> FALSE]
      /\ Calls["idle"] = [dev |-> "element", out |-> 1, in |-> 0, poll |-> TRUE]
  BY DEF Calls
<1>4. Fits(call)
  <2>1. CASE name = "temperature"
    <3>1. call.out = 1 /\ call.in = 2 /\ call.poll = TRUE
      BY <1>1, <1>3, <2>1
    <3>2. call.poll \in BOOLEAN
      BY <3>1, Zenon
    <3> QED
      BY <3>1, <3>2
  <2>2. CASE name = "wake"
    <3>1. call.out = 1 /\ call.in = 0 /\ call.poll = FALSE
      BY <1>1, <1>3, <2>2
    <3>2. call.poll \in BOOLEAN
      BY <3>1, Zenon
    <3> QED
      BY <3>1, <3>2
  <2>3. CASE name = "verify"
    <3>1. call.out = 0 /\ call.in = 2 /\ call.poll = FALSE
      BY <1>1, <1>3, <2>3
    <3>2. call.poll \in BOOLEAN
      BY <3>1, Zenon
    <3> QED
      BY <3>1, <3>2
  <2>4. CASE name = "send"
    <3>1. call.out = 2 /\ call.in = 0 /\ call.poll = TRUE
      BY <1>1, <1>3, <2>4
    <3>2. call.poll \in BOOLEAN
      BY <3>1, Zenon
    <3> QED
      BY <3>1, <3>2
  <2>5. CASE name = "receive"
    <3>1. call.out = 0 /\ call.in = 2 /\ call.poll = FALSE
      BY <1>1, <1>3, <2>5
    <3>2. call.poll \in BOOLEAN
      BY <3>1, Zenon
    <3> QED
      BY <3>1, <3>2
  <2>6. CASE name = "idle"
    <3>1. call.out = 1 /\ call.in = 0 /\ call.poll = TRUE
      BY <1>1, <1>3, <2>6
    <3>2. call.poll \in BOOLEAN
      BY <3>1, Zenon
    <3> QED
      BY <3>1, <3>2
  <2> QED
    BY <1>2, <2>1, <2>2, <2>3, <2>4, <2>5, <2>6
<1> QED
  BY <1>4

(* The wire is busy only with a transfer of a call.                        *)
LEMMA LiveIsActive ==
  ASSUME I2cTypeOK, I2cInv, m.job \in Live
  PROVE  ipc \in Moving /\ m.inUse /\ m.ien /\ Active /\ OnWire
BY DEF I2cTypeOK, I2cInv, Live, Moving, Quiet, Opened, Active, Over, Dead, Flagged

(* The interrupt is due only to a transfer of a call.                      *)
LEMMA FlagIsActive ==
  ASSUME I2cTypeOK, I2cInv, m.flag
  PROVE  ipc \in Moving /\ m.inUse /\ m.ien /\ Active /\ Flagged
BY DEF I2cTypeOK, I2cInv, Moving, Quiet, Opened, Active, Over, Dead, OnWire

LEMMA ParkType ==
  ASSUME NEW s \in Master, NEW st \in States, NEW e \in {"NOERR", "FAIL"}
  PROVE  Park(s, st, e) \in Master
BY ZenonT(60) DEF Park, Master, States

LEMMA SendAdrType ==
  ASSUME NEW s \in Master
  PROVE  SendAdrRead(s) \in Master /\ SendAdrWrite(s) \in Master
BY ZenonT(60) DEF SendAdrRead, SendAdrWrite, Master, States

(* What the end of a byte or of an address does to the driver.             *)
LEMMA CompleteInv ==
  ASSUME DriverInv, NEW ack \in BOOLEAN, NEW nack \in BOOLEAN, Complete(ack, nack),
         faults \in Nat, faults' = faults
  PROVE  DriverInv'
<1>1. PICK r \in BOOLEAN :
        m' = [m EXCEPT !.flag = TRUE, !.rxack = r, !.job = "none", !.refused = @ \/ r]
  BY DEF Complete
<1>2. m \in Master /\ m.job \in Live /\ UNCHANGED <<ipc, call>>
  BY DEF Complete, DriverInv, I2cTypeOK, Live
<1>3. m' \in Master
  BY <1>1, <1>2, ZenonT(60) DEF Master
<1>4. ipc \in Moving /\ m.inUse /\ m.ien /\ Active /\ OnWire
  BY <1>2, LiveIsActive DEF DriverInv
<1>6. Flagged'
  BY <1>4, <1>1, <1>2 DEF OnWire, Flagged, Master
<1>7. Active'
  BY <1>2, <1>4, <1>1, <1>6 DEF Active, Writing, Reading, Misled, OnNack, OnData, Master
<1>8. I2cInv'
  BY <1>1, <1>2, <1>4, <1>7 DEF I2cInv, Moving, Master
<1>9. WritesOwnBytes'
  BY <1>1, <1>2 DEF DriverInv, WritesOwnBytes, Master
<1> QED
  BY <1>2, <1>3, <1>8, <1>9 DEF DriverInv, I2cTypeOK

(* So does a fault of the bus.                                             *)
LEMMA FaultInv ==
  ASSUME DriverInv, Fault, faults \in Nat, faults' = faults + 1
  PROVE  DriverInv'
<1>1. PICK f \in Faults \ {"none"}, r \in BOOLEAN :
        m' = [m EXCEPT !.flag = TRUE, !.rxack = r, !.job = "none", !.fault = f,
                       !.refused = @ \/ r]
  BY DEF Fault
<1>2. m \in Master /\ m.job \in Live /\ UNCHANGED <<ipc, call>>
  BY DEF Fault, DriverInv, I2cTypeOK, Live
<1>3. m' \in Master
  BY <1>1, <1>2 DEF Master
<1>4. ipc \in Moving /\ m.inUse /\ m.ien /\ Active /\ OnWire
  BY <1>2, LiveIsActive DEF DriverInv
<1>6. Flagged'
  BY <1>4, <1>1, <1>2 DEF OnWire, Flagged, Master
<1>7. Active'
  BY <1>2, <1>4, <1>1, <1>6 DEF Active, Writing, Reading, Misled, OnNack, OnData, Master
<1>8. I2cInv'
  BY <1>1, <1>2, <1>4, <1>7 DEF I2cInv, Moving, Master
<1>9. WritesOwnBytes'
  BY <1>1, <1>2 DEF DriverInv, WritesOwnBytes, Master
<1> QED
  BY <1>2, <1>3, <1>8, <1>9 DEF DriverInv, I2cTypeOK
(* The steps of the caller.                                                *)
LEMMA CallInv ==
  ASSUME DriverInv, NEW name \in DOMAIN Calls, Call(name)
  PROVE  DriverInv'
<1>1. m \in Master /\ ipc = "none" /\ ipc' = "open" /\ Quiet
  BY DEF DriverInv, I2cTypeOK, I2cInv, Call
<1>2. m' = [m EXCEPT !.sent = 0, !.got = 0, !.strange = FALSE, !.refused = FALSE]
  BY DEF Call
<1>3. m' \in Master
  <2> DEFINE none == 0
  <2>1. m \in Master /\ none \in 0 .. 2
    BY <1>1
  <2>2. m' = [m EXCEPT !.sent = none, !.got = none, !.strange = FALSE, !.refused = FALSE]
    BY <1>2
  <2> HIDE DEF none
  <2> QED
    BY <2>1, <2>2 DEF Master
<1>4. Untouched' /\ Quiet' /\ ~m'.inUse /\ ~m'.strange
  BY <1>1, <1>2 DEF Untouched, Quiet, Master
<1> QED
  <2>1. call' \in {Calls[n] : n \in DOMAIN Calls}
    BY DEF Call
  <2> QED
    BY <1>1, <1>3, <1>4, <2>1 DEF DriverInv, I2cTypeOK, I2cInv, WritesOwnBytes, Moving

LEMMA OpenInv ==
  ASSUME DriverInv, Open
  PROVE  DriverInv'
<1>1. m \in Master /\ ipc = "open" /\ UNCHANGED call /\ Untouched
  BY DEF DriverInv, I2cTypeOK, I2cInv, Open
<1>2. CASE m.inUse
  BY <1>1, <1>2 DEF DriverInv, I2cTypeOK, I2cInv, Open, Opened, Untouched, WritesOwnBytes,
     Moving
<1>3. CASE ~m.inUse
  <2>1. /\ m' = [m EXCEPT !.busy = FALSE, !.inUse = TRUE, !.nackCheck = FALSE,
                          !.state = "RESET", !.bufferFree = TRUE, !.onData = "stop",
                          !.onNack = "stop", !.flag = FALSE, !.fault = "none",
                          !.job = "none", !.ien = TRUE]
        /\ ipc' = ipc
    BY <1>3 DEF Open
  <2>2. m' \in Master
    <3> DEFINE cleared == [m EXCEPT !.busy = FALSE, !.inUse = TRUE, !.nackCheck = FALSE,
                                 !.state = "RESET", !.bufferFree = TRUE]
               hooks == [cleared EXCEPT !.onData = "stop", !.onNack = "stop", !.flag = FALSE]
    <3>1. cleared \in Master
      BY <1>1, ZenonT(60) DEF Master, States
    <3>2. m' = [hooks EXCEPT !.fault = "none", !.job = "none", !.ien = TRUE]
      BY <2>1
    <3> HIDE DEF cleared
    <3>3. hooks \in Master
      BY <3>1, ZenonT(60) DEF Master
    <3> HIDE DEF hooks
    <3> QED
      BY <3>2, <3>3, ZenonT(60) DEF Master, Faults
  <2>3. Opened' /\ m'.bufferFree /\ Untouched' /\ m'.inUse
    BY <1>1, <2>1 DEF Master, Opened, Untouched
  <2> QED
    BY <1>1, <2>1, <2>2, <2>3
    DEF DriverInv, I2cTypeOK, I2cInv, Moving, WritesOwnBytes, Untouched
<1> QED
  BY <1>2, <1>3

LEMMA SetupInv ==
  ASSUME DriverInv, Setup
  PROVE  DriverInv'
<1>1. m \in Master /\ ipc = "setup" /\ ipc' = "start" /\ UNCHANGED call /\ Opened /\ m.bufferFree
  BY DEF DriverInv, I2cTypeOK, I2cInv, Setup
<1>2. call.out \in 0 .. 2 /\ call.in \in 0 .. 2
  BY CallShapes DEF DriverInv
<1>3. m' = [m EXCEPT !.ptr = IF call.out > 0 THEN "out" ELSE "in",
                     !.left = IF call.out > 0 THEN call.out ELSE call.in,
                     !.bufferFree = FALSE, !.onData = OnData, !.onNack = OnNack]
  BY <1>1 DEF Setup, SetBuffer, OnData, OnNack
<1>4. OnData \in {"stop", "restart_read"} /\ OnNack \in {"stop", "restart_write"}
      /\ OnData' = OnData /\ OnNack' = OnNack
  BY <1>1 DEF OnData, OnNack
<1>5. m' \in Master
  <2> DEFINE ptr == IF call.out > 0 THEN "out" ELSE "in"
             left == IF call.out > 0 THEN call.out ELSE call.in
  <2>1. ptr \in {"out", "in"} /\ left \in 0 .. 2
    BY <1>2
  <2>2. m' = [m EXCEPT !.ptr = ptr, !.left = left,
                       !.bufferFree = FALSE, !.onData = OnData, !.onNack = OnNack]
    BY <1>3
  <2> HIDE DEF ptr, left
  <2> QED
    BY <1>1, <1>4, <2>1, <2>2, ZenonT(60) DEF Master
<1>6. /\ Opened' /\ ~m'.bufferFree /\ m'.onData = OnData /\ m'.onNack = OnNack
      /\ m'.ptr = IF call.out > 0 THEN "out" ELSE "in"
      /\ m'.left = IF call.out > 0 THEN call.out ELSE call.in
  BY <1>1, <1>3, <1>4 DEF Master, Opened, Untouched
<1> QED
  BY <1>1, <1>4, <1>5, <1>6
  DEF DriverInv, I2cTypeOK, I2cInv, Moving, WritesOwnBytes, Opened, Untouched

LEMMA StartInv ==
  ASSUME DriverInv, Start
  PROVE  DriverInv'
<1>1. /\ m \in Master /\ ipc = "start" /\ ipc' = "poll" /\ UNCHANGED call
      /\ Opened /\ ~m.bufferFree /\ m.onData = OnData /\ m.onNack = OnNack
      /\ m.ptr = IF call.out > 0 THEN "out" ELSE "in"
      /\ m.left = IF call.out > 0 THEN call.out ELSE call.in
  BY DEF DriverInv, I2cTypeOK, I2cInv, Start
<1>2. call.out \in 0 .. 2 /\ call.in \in 0 .. 2 /\ (call.out > 0 \/ call.in > 0)
  BY CallShapes DEF DriverInv
<1>3. CASE call.out > 0
  <2>1. m' = [m EXCEPT !.busy = TRUE, !.flag = FALSE, !.nackCheck = TRUE, !.job = "adrW",
                       !.state = "TX"]
    BY <1>3 DEF Start, SendAdrWrite
  <2>2. m' \in Master
    BY <1>1, <2>1, ZenonT(60) DEF Master, States
  <2>3. OnWire' /\ Writing' /\ m'.inUse /\ m'.ien /\ ~m'.bufferFree /\ m'.onNack = OnNack'
        /\ m'.state # "TX_EMPTY" /\ ~m'.strange
    BY <1>1, <1>2, <1>3, <2>1
    DEF Master, OnWire, Writing, Live, OnData, OnNack, Opened, Untouched
  <2> QED
    BY <1>1, <2>2, <2>3 DEF DriverInv, I2cTypeOK, I2cInv, Moving, Active, WritesOwnBytes
<1>4. CASE ~(call.out > 0)
  <2>0. call.out = 0 /\ call.in > 0
    BY <1>2, <1>4
  <2>1. m' = [m EXCEPT !.busy = TRUE, !.flag = FALSE, !.nackCheck = TRUE, !.job = "adrR",
                       !.state = "RX"]
    BY <1>4 DEF Start, SendAdrRead
  <2>2. m' \in Master
    BY <1>1, <2>1, ZenonT(60) DEF Master, States
  <2>3. OnWire' /\ Reading' /\ m'.inUse /\ m'.ien /\ ~m'.bufferFree /\ m'.onNack = OnNack'
        /\ m'.state # "TX_EMPTY" /\ ~m'.strange
    BY <1>1, <1>2, <2>0, <2>1
    DEF Master, OnWire, Reading, Live, OnData, OnNack, Opened, Untouched
  <2> QED
    BY <1>1, <2>2, <2>3 DEF DriverInv, I2cTypeOK, I2cInv, Moving, Active, WritesOwnBytes
<1> QED
  BY <1>3, <1>4

LEMMA CheckBusInv ==
  ASSUME DriverInv, CheckBus, faults' = faults
  PROVE  DriverInv'
<1>1. m \in Master /\ ipc = "poll" /\ ipc' = "close" /\ UNCHANGED call
      /\ m.inUse /\ m.ien /\ (Active \/ Over \/ Dead)
  BY DEF DriverInv, I2cTypeOK, I2cInv, CheckBus, Moving
<1>2. CASE m.fault = "BUSERR"
  <2>1. m' = [m EXCEPT !.busy = FALSE, !.error = "FAIL"]
    BY <1>2 DEF CheckBus
  <2>2. m' \in Master
    BY <1>1, <2>1 DEF Master
  <2>3. Active /\ Flagged
    BY <1>1, <1>2 DEF Over, Dead, Active, OnWire
  <2>4. Flagged'
    BY <1>1, <1>2, <2>1, <2>3 DEF Flagged, Master
  <2>5. Active'
    BY <1>1, <2>1, <2>3, <2>4
    DEF Active, Writing, Reading, Misled, OnNack, OnData, Master
  <2>6. m'.inUse /\ m'.ien /\ m'.strange = m.strange /\ m'.refused = m.refused
    BY <1>1, <2>1 DEF Master
  <2> QED
    BY <1>1, <2>2, <2>5, <2>6 DEF DriverInv, I2cTypeOK, I2cInv, Moving, WritesOwnBytes
<1>3. CASE m.fault # "BUSERR"
  <2>1. m' = m
    BY <1>3 DEF CheckBus
  <2>2. (Active \/ Over \/ Dead)'
    BY <1>1, <2>1 DEF Active, OnWire, Flagged, Writing, Reading, Misled, OnNack, OnData, Over,
       Dead, Completed
  <2> QED
    BY <1>1, <2>1, <2>2 DEF DriverInv, I2cTypeOK, I2cInv, Moving, WritesOwnBytes
<1> QED
  BY <1>2, <1>3

LEMMA CloseInv ==
  ASSUME DriverInv, Close, faults' = faults
  PROVE  DriverInv'
<1>1. m \in Master /\ ipc = "close" /\ UNCHANGED call
      /\ m.inUse /\ m.ien /\ (Active \/ Over \/ Dead)
  BY DEF DriverInv, I2cTypeOK, I2cInv, Close, Moving
<1>2. CASE m.busy
  <2>1. m' = m /\ ipc' = "poll"
    BY <1>2 DEF Close
  <2>2. (Active \/ Over \/ Dead)'
    BY <1>1, <2>1 DEF Active, OnWire, Flagged, Writing, Reading, Misled, OnNack, OnData, Over,
       Dead, Completed
  <2> QED
    BY <1>1, <2>1, <2>2 DEF DriverInv, I2cTypeOK, I2cInv, Moving, WritesOwnBytes
<1>3. CASE ~m.busy
  <2>1. /\ m' = [m EXCEPT !.inUse = FALSE, !.flag = FALSE, !.fault = "none", !.ien = FALSE]
        /\ ipc' = "returned"
    BY <1>3 DEF Close
  <2>2. m' \in Master
    BY <1>1, <2>1, ZenonT(60) DEF Master, Faults
  <2>3. m.job \in {"none", "dead"} /\ Completed
    BY <1>1, <1>3 DEF Active, OnWire, Flagged, Over, Dead, Completed
  <2>4. Quiet' /\ Completed'
    BY <1>1, <2>1, <2>3 DEF Quiet, Completed, Master
  <2>5. m'.strange = m.strange /\ m'.refused = m.refused
    BY <1>1, <2>1 DEF Master
  <2> QED
    BY <1>1, <2>1, <2>2, <2>4, <2>5 DEF DriverInv, I2cTypeOK, I2cInv, Moving, WritesOwnBytes
<1> QED
  BY <1>2, <1>3

LEMMA CallStepInv ==
  ASSUME DriverInv, CallStep, faults \in Nat, faults' = faults
  PROVE  DriverInv'
BY OpenInv, SetupInv, StartInv, CheckBusInv, CloseInv DEF CallStep

-----------------------------------------------------------------------------
(* The interrupt.                                                          *)

LEMMA TableIs ==
  ASSUME NEW s
  PROVE  /\ FsmStateTable(s, "TX") = Tx(s)
         /\ FsmStateTable(s, "RX") = Rx(s)
         /\ FsmStateTable(s, "TX_EMPTY") = TxEmpty(s)
         /\ FsmStateTable(s, "ADDRESS_NACK") = AddressNack(s)
         /\ FsmStateTable(s, "BUS_COLLISION") = BusCollision(s)
         /\ FsmStateTable(s, "BUS_ERROR") = BusError(s)
BY DEF FsmStateTable

LEMMA OverrideIs ==
  ASSUME NEW s, NEW fault
  PROVE  /\ fault = "BUSERR" => Override(s, fault) = "BUS_ERROR"
         /\ fault = "ARBLOST" => Override(s, fault) = "BUS_COLLISION"
         /\ fault = "none" => Override(s, fault) =
                                IF s.nackCheck /\ s.rxack THEN "ADDRESS_NACK" ELSE s.state
BY DEF Override

(* A transfer that ends leaves the driver idle or reset.                   *)
LEMMA ParkInv ==
  ASSUME DriverInv, m.flag, UNCHANGED <<ipc, call>>, faults' = faults,
         NEW s \in Master, NEW st \in {"IDLE", "RESET"}, NEW e \in {"NOERR", "FAIL"},
         m' = Park(s, st, e),
         s.inUse, s.ien, ~s.flag, s.fault = "none",
         s.strange = m.strange, s.refused = m.refused,
         faults = 0 /\ ~s.refused => s.sent = call.out /\ s.got = call.in
  PROVE  DriverInv'
<1>1. m' \in Master
  BY ParkType DEF States
<1>2. m' = [s EXCEPT !.busy = FALSE, !.error = e, !.job = "none", !.state = st]
  BY DEF Park
<1>3. Over' /\ m'.inUse /\ m'.ien /\ m'.strange = m.strange /\ m'.refused = m.refused
  BY <1>2 DEF Over, Completed, Master
<1>4. ipc \in Moving
  BY FlagIsActive DEF DriverInv
<1> QED
  BY <1>1, <1>3, <1>4 DEF DriverInv, I2cTypeOK, I2cInv, Moving, WritesOwnBytes

(* One that goes on is on the wire, or on a dead one.                      *)
LEMMA GoesOnInv ==
  ASSUME DriverInv, m.flag, UNCHANGED <<ipc, call>>, faults' = faults, faults \in Nat,
         m' \in Master, m'.inUse, m'.ien, ~m'.flag, m'.fault = "none",
         \/ m'.job = "dead" /\ faults > 0
         \/ m'.job \in Live /\ m'.busy,
         m'.job \in {"adrR", "byteR"} => m'.state = "RX",
         m'.job \in {"adrW", "byteW"} => m'.state \in {"TX", "TX_EMPTY"},
         m'.job = "adrW" => m'.state = "TX",
         ~m'.bufferFree, m'.onNack = OnNack, m'.nackCheck => m'.state # "TX_EMPTY",
         Writing' \/ Reading' \/ Misled',
         m'.refused = m.refused,
         m'.strange => m.strange \/ Misled
  PROVE  DriverInv'
<1>1. OnNack' = OnNack
  BY DEF OnNack
<1>2. Active' \/ Dead'
  BY <1>1 DEF Active, OnWire, Dead, Live
<1>3. ipc \in Moving
  BY FlagIsActive DEF DriverInv
<1>4. WritesOwnBytes'
  BY DEF WritesOwnBytes, DriverInv, Misled
<1> QED
  BY <1>2, <1>3, <1>4 DEF DriverInv, I2cTypeOK, I2cInv, Moving

LEMMA TwiIsrInv ==
  ASSUME DriverInv, TwiIsr, faults \in Nat, faults' = faults
  PROVE  DriverInv'
<1>1. PICK seen \in BOOLEAN : m' = MasterIsr(m, seen)
  BY DEF TwiIsr
<1> DEFINE fault == IF seen THEN m.fault ELSE "none"
           s == [m EXCEPT !.flag = FALSE, !.fault = "none"]
           a == FsmStateTable(s, Override(m, fault))
           hidden == m.fault # fault
<1>2. m' = IF hidden /\ a.job # "none" THEN [a EXCEPT !.job = "dead"] ELSE a
  BY <1>1, SMT DEF MasterIsr
<1>3. m.flag /\ m \in Master /\ UNCHANGED <<ipc, call>> /\ faults' = faults
  BY DEF TwiIsr, DriverInv, I2cTypeOK
<1>4. /\ ipc \in Moving /\ m.inUse /\ m.ien /\ Active /\ Flagged
      /\ m.onNack = OnNack /\ ~m.bufferFree /\ (Writing \/ Reading \/ Misled)
      /\ m.job = "none"
  BY <1>3, FlagIsActive DEF DriverInv, Active, Flagged
<1>5. call.out \in 0 .. 2 /\ call.in \in 0 .. 2 /\ (call.poll => call.out > 0)
  BY CallShapes DEF DriverInv
<1>6. s \in Master
  BY <1>3 DEF Master, Faults
<1>7. /\ s.inUse /\ s.ien /\ ~s.flag /\ s.fault = "none" /\ s.job = "none"
      /\ s.strange = m.strange /\ s.refused = m.refused
      /\ s.sent = m.sent /\ s.got = m.got
      /\ s.nackCheck = m.nackCheck /\ s.rxack = m.rxack /\ s.state = m.state
      /\ s.onNack = m.onNack /\ s.onData = m.onData /\ s.ptr = m.ptr /\ s.left = m.left
      /\ s.busy = m.busy /\ s.bufferFree = m.bufferFree
  BY <1>3, <1>4 DEF Master
<1>8. m.fault \in Faults /\ (m.fault # "none" => faults > 0) /\ (m.rxack => m.refused)
  BY <1>3, <1>4 DEF Master, Flagged
<1>9. m.state \in {"TX", "TX_EMPTY", "RX"}
  BY <1>4 DEF Writing, Reading, Misled
<1>h. hidden => faults > 0
  BY <1>8
<1>b. ~hidden /\ fault = "none" => m.busy
  BY <1>4 DEF Flagged
<1>c. CASE fault = "BUSERR"
  <2>1. a = Park(s, "RESET", "FAIL") /\ faults > 0
    <3>1. Override(m, fault) = "BUS_ERROR"
      BY <1>c, OverrideIs
    <3>2. a = BusError(s)
      BY <3>1, TableIs
    <3> QED
      BY <1>c, <1>8, <3>2 DEF BusError
  <2>2. m' = Park(s, "RESET", "FAIL")
    <3>1. Park(s, "RESET", "FAIL").job = "none"
      BY <1>6 DEF Park, Master
    <3> QED
      BY <1>2, <2>1, <3>1
  <2> HIDE DEF s
  <2> QED
    BY <1>3, <1>6, <1>7, <2>1, <2>2, ParkInv
<1>d. CASE fault = "ARBLOST"
  <2> DEFINE t == [s EXCEPT !.error = "FAIL"]
  <2>1. a = Park(t, "RESET", "NOERR") /\ faults > 0
    <3>1. Override(m, fault) = "BUS_COLLISION"
      BY <1>d, OverrideIs
    <3>2. a = BusCollision(s)
      BY <3>1, TableIs
    <3> QED
      BY <1>d, <1>8, <3>2 DEF BusCollision, Reset
  <2>2. t \in Master /\ t.inUse /\ t.ien /\ ~t.flag /\ t.fault = "none"
        /\ t.strange = m.strange /\ t.refused = m.refused
    BY <1>6, <1>7 DEF Master
  <2>3. m' = Park(t, "RESET", "NOERR")
    <3>1. Park(t, "RESET", "NOERR").job = "none"
      BY <2>2 DEF Park, Master
    <3> QED
      BY <1>2, <2>1, <3>1
  <2> HIDE DEF t
  <2> QED
    BY <1>3, <2>1, <2>2, <2>3, ParkInv
<1> HIDE DEF s
<1>e. CASE fault = "none" /\ m.nackCheck /\ m.rxack
  <2> DEFINE t == [s EXCEPT !.nackCheck = FALSE, !.error = "FAIL"]
  <2>1. a = IF m.onNack = "restart_write" THEN SendAdrWrite(t) ELSE Park(t, "IDLE", "NOERR")
    <3>1. a = AddressNack(s)
      BY <1>e, OverrideIs, TableIs
    <3> QED
      BY <1>7, <3>1 DEF AddressNack, SendStop, Idle
  <2>2. t \in Master /\ t.inUse /\ t.ien /\ ~t.flag /\ t.fault = "none"
        /\ t.strange = m.strange /\ t.refused = m.refused /\ m.refused
    BY <1>6, <1>7, <1>8, <1>e DEF Master
  <2>3. CASE m.onNack # "restart_write"
    <3>1. m' = Park(t, "IDLE", "NOERR")
      <4>1. Park(t, "IDLE", "NOERR").job = "none"
        BY <2>2 DEF Park, Master
      <4> QED
        BY <1>2, <2>1, <2>3, <4>1
    <3> HIDE DEF t
    <3> QED
      BY <1>3, <2>2, <3>1, ParkInv
  <2>4. CASE m.onNack = "restart_write"
    <3> DEFINE job1 == IF hidden THEN "dead" ELSE "adrW"
    <3>1. a = [s EXCEPT !.nackCheck = TRUE, !.error = "FAIL", !.job = "adrW", !.state = "TX"]
      BY <2>1, <2>4, <1>6 DEF SendAdrWrite, Master
    <3>2. m' = [s EXCEPT !.nackCheck = TRUE, !.error = "FAIL", !.job = job1, !.state = "TX"]
      BY <1>2, <1>6, <3>1 DEF Master
    <3>3. job1 \in {"dead", "adrW"} /\ (job1 = "dead" => faults > 0) /\ (job1 = "adrW" => m.busy)
      BY <1>h, <1>b, <1>e
    <3> HIDE DEF job1
    <3>4. m' \in Master
      BY <1>6, <3>2, <3>3, ZenonT(60) DEF Master, States
    <3>5. m.state # "TX_EMPTY" /\ call.poll /\ call.out > 0
      BY <1>4, <1>5, <1>e, <2>4 DEF Active, OnNack
    <3>6. Writing' \/ Misled'
      <4>1. CASE Writing
        BY <4>1, <1>3, <1>6, <1>7, <3>2, <3>5 DEF Writing, OnData, Master
      <4>2. CASE Reading
        <5>1. /\ m'.ptr = m.ptr /\ m'.onData = m.onData /\ m'.state = "TX"
              /\ m'.left = m.left /\ m'.refused
          BY <1>6, <1>7, <2>2, <3>2 DEF Master
        <5>2. call.in > 0 /\ m.left > 0
          <6>1. m.left \in 0 .. 2 /\ m.got \in 0 .. 2
            BY <1>3 DEF Master
          <6> QED
            BY <4>2, <1>5, <6>1 DEF Reading
        <5> QED
          BY <4>2, <1>3, <3>5, <5>1, <5>2 DEF Reading, Misled
      <4>3. CASE Misled
        BY <4>3, <1>3, <1>6, <1>7, <2>2, <3>2, <3>5, ZenonT(60) DEF Misled, Master
      <4> QED
        BY <1>4, <4>1, <4>2, <4>3
    <3>7. /\ m'.inUse /\ m'.ien /\ ~m'.flag /\ m'.fault = "none" /\ m'.job = job1
          /\ m'.state = "TX" /\ ~m'.bufferFree /\ m'.onNack = OnNack /\ m'.busy = m.busy
          /\ m'.refused = m.refused /\ m'.strange = m.strange
      BY <1>4, <1>6, <1>7, <3>2 DEF Master
    <3> QED
      BY <1>3, <3>3, <3>4, <3>6, <3>7, GoesOnInv DEF Live
  <2> QED
    BY <2>3, <2>4
<1>f. CASE fault = "none" /\ ~(m.nackCheck /\ m.rxack) /\ m.state = "TX"
  <2>1. a = Tx(s)
    BY <1>f, OverrideIs, TableIs
  <2>2. CASE m.rxack
    <3>1. a = Park(s, "IDLE", "NOERR")
      BY <1>7, <2>1, <2>2 DEF Tx, SendStop, Idle
    <3>2. m' = Park(s, "IDLE", "NOERR")
      <4>1. Park(s, "IDLE", "NOERR").job = "none"
        BY <1>6 DEF Park, Master
      <4> QED
        BY <1>2, <3>1, <4>1
    <3> QED
      BY <1>3, <1>6, <1>7, <1>8, <2>2, <3>2, ParkInv
  <2>3. CASE ~m.rxack
    <3> DEFINE job1 == IF hidden THEN "dead" ELSE "byteW"
               left == m.left - 1
               state == IF m.left > 1 THEN "TX" ELSE "TX_EMPTY"
               sent == IF m.ptr = "out" THEN m.sent + 1 ELSE m.sent
               strange == m.strange \/ m.ptr = "in"
    <3>1. a = [s EXCEPT !.nackCheck = FALSE, !.job = "byteW", !.left = left, !.state = state,
                        !.sent = sent, !.strange = strange]
      BY <1>7, <2>1, <2>3, <1>6 DEF Tx, Master
    <3>2. m' = [s EXCEPT !.nackCheck = FALSE, !.job = job1, !.left = left, !.state = state,
                         !.sent = sent, !.strange = strange]
      <4> HIDE DEF left, state, sent, strange
      <4> QED
        BY <1>2, <1>6, <3>1 DEF Master
    <3>3. job1 \in {"dead", "byteW"} /\ (job1 = "dead" => faults > 0)
          /\ (job1 = "byteW" => m.busy)
      BY <1>h, <1>b, <1>f
    <3>4. m.left \in 0 .. 2 /\ m.sent \in 0 .. 2 /\ m.left > 0
          /\ (m.ptr = "out" => Writing) /\ (m.ptr = "in" => Misled) /\ m.ptr \in {"out", "in"}
      BY <1>3, <1>4, <1>f DEF Writing, Reading, Misled, Master
    <3>5. left \in 0 .. 2 /\ state \in {"TX", "TX_EMPTY"} /\ (left > 0) = (state = "TX")
      BY <3>4
    <3>6. sent \in 0 .. 2 /\ (m.ptr = "out" => sent + left = call.out)
      BY <1>5, <3>4 DEF Writing
    <3>7. strange \in BOOLEAN /\ (strange => m.strange \/ Misled)
      BY <3>4, <1>3 DEF Master
    <3> HIDE DEF job1, left, state, sent, strange
    <3>8. m' \in Master
      BY <1>6, <3>2, <3>3, <3>5, <3>6, <3>7, ZenonT(60) DEF Master, States
    <3>9. /\ m'.inUse /\ m'.ien /\ ~m'.flag /\ m'.fault = "none" /\ m'.job = job1
          /\ m'.state = state /\ ~m'.bufferFree /\ m'.onNack = OnNack /\ m'.busy = m.busy
          /\ m'.refused = m.refused /\ m'.strange = strange /\ ~m'.nackCheck
          /\ m'.left = left /\ m'.sent = sent /\ m'.ptr = m.ptr /\ m'.onData = m.onData
          /\ m'.got = m.got
      BY <1>4, <1>6, <1>7, <3>2 DEF Master
    <3>10. Writing' \/ Misled'
      BY <1>3, <3>4, <3>5, <3>6, <3>9 DEF Writing, Misled, OnData
    <3> QED
      BY <1>3, <3>3, <3>5, <3>7, <3>8, <3>9, <3>10, GoesOnInv DEF Live
  <2> QED
    BY <2>2, <2>3
<1>g. CASE fault = "none" /\ ~(m.nackCheck /\ m.rxack) /\ m.state = "TX_EMPTY"
  <2>1. a = TxEmpty(s)
    BY <1>g, OverrideIs, TableIs
  <2>2. CASE m.rxack
    <3>1. a = Park(s, "IDLE", "NOERR")
      BY <1>7, <2>1, <2>2 DEF TxEmpty, SendStop, Idle
    <3>2. m' = Park(s, "IDLE", "NOERR")
      <4>1. Park(s, "IDLE", "NOERR").job = "none"
        BY <1>6 DEF Park, Master
      <4> QED
        BY <1>2, <3>1, <4>1
    <3> QED
      BY <1>3, <1>6, <1>7, <1>8, <2>2, <3>2, ParkInv
  <2>3. CASE ~m.rxack /\ m.onData = "restart_read"
    <3> DEFINE job1 == IF hidden THEN "dead" ELSE "adrR"
    <3>1. a = [s EXCEPT !.bufferFree = FALSE, !.ptr = "in", !.left = call.in,
                        !.onData = "stop", !.nackCheck = TRUE, !.job = "adrR", !.state = "RX"]
      BY <1>7, <2>1, <2>3, <1>6, ZenonT(60) DEF TxEmpty, SetBuffer, SendAdrRead, Master
    <3>2. m' = [s EXCEPT !.bufferFree = FALSE, !.ptr = "in", !.left = call.in,
                         !.onData = "stop", !.nackCheck = TRUE, !.job = job1, !.state = "RX"]
      BY <1>2, <1>6, <3>1 DEF Master
    <3>3. job1 \in {"dead", "adrR"} /\ (job1 = "dead" => faults > 0)
          /\ (job1 = "adrR" => m.busy)
      BY <1>h, <1>b, <1>g
    <3>4. Writing /\ call.in > 0 /\ m.sent = call.out /\ m.got = 0
      <4>1. Writing /\ call.in > 0
        BY <1>4, <1>5, <2>3 DEF Writing, Reading, Misled, OnData
      <4>2. m.left \in 0 .. 2 /\ m.sent \in 0 .. 2
        BY <1>3 DEF Master
      <4> QED
        BY <4>1, <4>2, <1>5, <1>g DEF Writing
    <3> HIDE DEF job1
    <3>5. m' \in Master
      BY <1>5, <1>6, <3>2, <3>3, ZenonT(60) DEF Master, States
    <3>6. /\ m'.inUse /\ m'.ien /\ ~m'.flag /\ m'.fault = "none" /\ m'.job = job1
          /\ m'.state = "RX" /\ ~m'.bufferFree /\ m'.onNack = OnNack /\ m'.busy = m.busy
          /\ m'.refused = m.refused /\ m'.strange = m.strange
          /\ m'.left = call.in /\ m'.sent = m.sent /\ m'.ptr = "in" /\ m'.onData = "stop"
          /\ m'.got = m.got
      BY <1>4, <1>6, <1>7, <3>2 DEF Master
    <3>7. Reading'
      BY <1>3, <1>5, <3>4, <3>6 DEF Reading
    <3> QED
      BY <1>3, <3>3, <3>5, <3>6, <3>7, GoesOnInv DEF Live
  <2>4. CASE ~m.rxack /\ m.onData # "restart_read"
    <3> DEFINE t == [s EXCEPT !.bufferFree = TRUE]
    <3>1. a = Park(t, "IDLE", "NOERR")
      BY <1>7, <2>1, <2>4 DEF TxEmpty, SendStop, Idle
    <3>2. /\ t \in Master /\ t.inUse /\ t.ien /\ ~t.flag /\ t.fault = "none"
          /\ t.strange = m.strange /\ t.refused = m.refused
          /\ t.sent = m.sent /\ t.got = m.got
      BY <1>6, <1>7 DEF Master
    <3>3. m' = Park(t, "IDLE", "NOERR")
      <4>1. Park(t, "IDLE", "NOERR").job = "none"
        BY <3>2 DEF Park, Master
      <4> QED
        BY <1>2, <3>1, <4>1
    <3>4. ~m.refused => m.sent = call.out /\ m.got = call.in
      <4>1. ~m.refused => Writing
        BY <1>4, <1>g DEF Reading, Misled
      <4>2. m.left \in 0 .. 2 /\ m.sent \in 0 .. 2
        BY <1>3 DEF Master
      <4> QED
        BY <4>1, <4>2, <1>5, <1>g, <2>4 DEF Writing, OnData
    <3> HIDE DEF t
    <3> QED
      BY <1>3, <3>2, <3>3, <3>4, ParkInv
  <2> QED
    BY <2>2, <2>3, <2>4
<1>i. CASE fault = "none" /\ ~(m.nackCheck /\ m.rxack) /\ m.state = "RX"
  <2> DEFINE left == m.left - 1
             got == m.got + 1
             n == [s EXCEPT !.nackCheck = FALSE, !.left = left, !.got = got]
  <2>1. a = Rx(s)
    BY <1>i, OverrideIs, TableIs
  <2>2. a = IF left > 0 THEN [n EXCEPT !.job = "byteR", !.state = "RX"]
                        ELSE Park([n EXCEPT !.bufferFree = TRUE], "IDLE", "NOERR")
    BY <1>6, <1>7, <2>1 DEF Rx, Idle, Master
  <2>3. Reading
    BY <1>4, <1>i DEF Writing, Misled
  <2>4. left \in 0 .. 2 /\ got \in 1 .. 2 /\ got + left = call.in
    <3>1. m.left \in 0 .. 2 /\ m.got \in 0 .. 2
      BY <1>3 DEF Master
    <3> QED
      BY <1>5, <2>3, <3>1 DEF Reading
  <2> HIDE DEF left, got
  <2>5. CASE left > 0
    <3> DEFINE job1 == IF hidden THEN "dead" ELSE "byteR"
    <3>1. m' = [s EXCEPT !.nackCheck = FALSE, !.left = left, !.got = got, !.job = job1,
                         !.state = "RX"]
      BY <1>2, <1>6, <2>2, <2>5 DEF Master
    <3>2. job1 \in {"dead", "byteR"} /\ (job1 = "dead" => faults > 0)
          /\ (job1 = "byteR" => m.busy)
      BY <1>h, <1>b, <1>i
    <3> HIDE DEF job1
    <3>3. m' \in Master
      <4>1. got \in 0 .. 2
        BY <2>4
      <4> QED
        BY <1>6, <2>4, <3>1, <3>2, <4>1, ZenonT(60) DEF Master, States
    <3>4. /\ m'.inUse /\ m'.ien /\ ~m'.flag /\ m'.fault = "none" /\ m'.job = job1
          /\ m'.state = "RX" /\ ~m'.bufferFree /\ m'.onNack = OnNack /\ m'.busy = m.busy
          /\ m'.refused = m.refused /\ m'.strange = m.strange /\ ~m'.nackCheck
          /\ m'.left = left /\ m'.sent = m.sent /\ m'.ptr = m.ptr /\ m'.onData = m.onData
          /\ m'.got = got
      BY <1>4, <1>6, <1>7, <3>1 DEF Master
    <3>5. Reading'
      BY <1>3, <2>3, <2>4, <2>5, <3>4 DEF Reading
    <3> QED
      BY <1>3, <3>2, <3>3, <3>4, <3>5, GoesOnInv DEF Live
  <2>6. CASE ~(left > 0)
    <3> DEFINE t == [s EXCEPT !.nackCheck = FALSE, !.left = left, !.got = got,
                              !.bufferFree = TRUE]
    <3>1. a = Park(t, "IDLE", "NOERR")
      BY <2>2, <2>6
    <3>2. got \in 0 .. 2 /\ got = call.in /\ m.sent = call.out
      BY <2>3, <2>4, <2>6 DEF Reading
    <3>3. /\ t \in Master /\ t.inUse /\ t.ien /\ ~t.flag /\ t.fault = "none"
          /\ t.strange = m.strange /\ t.refused = m.refused
          /\ t.sent = m.sent /\ t.got = got
      BY <1>6, <1>7, <2>4, <3>2, ZenonT(60) DEF Master
    <3>4. m' = Park(t, "IDLE", "NOERR")
      <4>1. Park(t, "IDLE", "NOERR").job = "none"
        BY <3>3 DEF Park, Master
      <4> QED
        BY <1>2, <3>1, <4>1
    <3> HIDE DEF t
    <3> QED
      BY <1>3, <3>2, <3>3, <3>4, ParkInv
  <2> QED
    BY <2>5, <2>6
<1> QED
  BY <1>8, <1>9, <1>c, <1>d, <1>e, <1>f, <1>g, <1>i DEF Faults

-----------------------------------------------------------------------------
(* What the superloop has left to do.                                      *)

Prints(n) == [i \in 1 .. n |-> "print"]
From(i) == SubSeq(ExecuteCommand, i, 7)

(* A line is about to be printed or partly printed, or a command is at one *)
(* of its steps; every line that is begun has its characters counted.      *)
JobInv ==
  \/ job = PublishADC /\ publishes > 0 /\ printed = PrintLength * (publishes - 1)
  \/ \E n \in 0 .. PrintLength : job = Prints(n) /\ printed + n = PrintLength * publishes
  \/ \E i \in 1 .. 7 : job = From(i) /\ printed = PrintLength * publishes

(* A call is made by the step it belongs to, while nothing is printed.     *)
CallOwned ==
  ipc # "none" => /\ job # <<>> /\ Head(job) \in DOMAIN Calls /\ call = Calls[Head(job)]
                  /\ wpc = "idle"

ProgramTypes ==
  /\ printed \in Nat /\ publishes \in 0 .. MaxPublish /\ cmd \in 0 .. MaxCommands
  /\ faults \in Nat /\ refusals \in Nat
  /\ init_data \in Outputs /\ packet \in Outputs \cup {Zero}
  /\ verdict \in {"none", "accepted", "refused"}
  /\ element \in {"asleep", "awake", "busy"} /\ output \in Outputs

(* The step the superloop is at.                                           *)
Step == IF job = <<>> THEN "done" ELSE Head(job)
Names == {"print", "delay", "check", "temperature", "wake", "verify", "send", "receive",
          "idle"}

(* The element executes while the superloop sends it a command or waits    *)
(* for it, and a step of a command is that of a command given.             *)
CommandSteps == {"wake", "verify", "send", "delay", "receive", "check", "idle"}
Commanded ==
  /\ element = "busy" => Step \in {"send", "delay"}
  /\ Step \in CommandSteps => cmd > 0

LEMMA CallNames ==
  DOMAIN Calls = {"temperature", "wake", "verify", "send", "receive", "idle"}
BY DEF Calls

LEMMA CallValues ==
  /\ Calls["temperature"] = [dev |-> "sensor", out |-> 1, in |-> 2, poll |-> TRUE]
  /\ Calls["wake"] = [dev |-> "general", out |-> 1, in |-> 0, poll |-> FALSE]
  /\ Calls["verify"] = [dev |-> "element", out |-> 0, in |-> 2, poll |-> FALSE]
  /\ Calls["send"] = [dev |-> "element", out |-> 2, in |-> 0, poll |-> TRUE]
  /\ Calls["receive"] = [dev |-> "element", out |-> 0, in |-> 2, poll |-> FALSE]
  /\ Calls["idle"] = [dev |-> "element", out |-> 1, in |-> 0, poll |-> TRUE]
BY DEF Calls

LEMMA Bounds ==
  /\ PrintLength \in Nat \ {0} /\ MaxPublish \in Nat \ {0} /\ MaxCommands \in Nat
  /\ MaxFaults \in Nat /\ MaxRefusals \in Nat
BY PeripheralBounds

(* The steps of a command.                                                 *)
LEMMA Steps ==
  /\ ExecuteCommand \in Seq(Names) /\ Len(ExecuteCommand) = 7
  /\ ExecuteCommand[1] = "wake" /\ ExecuteCommand[2] = "verify" /\ ExecuteCommand[3] = "send"
  /\ ExecuteCommand[4] = "delay" /\ ExecuteCommand[5] = "receive"
  /\ ExecuteCommand[6] = "check" /\ ExecuteCommand[7] = "idle"
BY DEF ExecuteCommand, Names

LEMMA FromFacts ==
  ASSUME NEW i \in 1 .. 7
  PROVE  /\ From(i) \in Seq(Names) /\ From(i) # <<>>
         /\ Head(From(i)) = ExecuteCommand[i]
         /\ i < 7 => Tail(From(i)) = From(i + 1)
         /\ i = 7 => Tail(From(i)) = <<>>
<1> DEFINE c == ExecuteCommand
<1>1. c \in Seq(Names) /\ Len(c) = 7
  BY Steps
<1> HIDE DEF c
<1>2. Head(SubSeq(c, i, 7)) = c[i] /\ Tail(SubSeq(c, i, 7)) = SubSeq(c, i + 1, 7)
  <2>1. i \in 1 .. Len(c) /\ 7 \in i .. Len(c)
    BY <1>1
  <2> QED
    BY <1>1, <2>1, HeadTailOfSubSeq
<1>3. SubSeq(c, i, 7) \in Seq(Names) /\ SubSeq(c, i, 7) # <<>>
  <2>1. ASSUME NEW j \in i .. 7
        PROVE  c[j] \in Names
    <3>1. j \in 1 .. Len(c)
      BY <1>1
    <3> QED
      BY <1>1, <3>1, ElementOfSeq
  <2>2. SubSeq(c, i, 7) \in Seq(Names) /\ Len(SubSeq(c, i, 7)) = 7 - i + 1
    BY <2>1, SubSeqProperties
  <2>3. Len(SubSeq(c, i, 7)) # 0
    BY <2>2
  <2> QED
    BY <2>2, <2>3, EmptySeq
<1>4. SubSeq(c, 8, 7) = <<>>
  BY SubSeqEmpty
<1> QED
  BY <1>2, <1>3, <1>4 DEF From, c

LEMMA PrintsFacts ==
  ASSUME NEW n \in Nat
  PROVE  /\ Prints(n) \in Seq(Names)
         /\ n = 0 => Prints(n) = <<>>
         /\ n > 0 => /\ Prints(n) # <<>> /\ Head(Prints(n)) = "print"
                     /\ Tail(Prints(n)) = Prints(n - 1)
<1>1. Prints(n) \in Seq(Names) /\ Len(Prints(n)) = n
  BY DEF Prints, Names
<1>2. ASSUME n > 0
      PROVE  /\ Prints(n) # <<>> /\ Head(Prints(n)) = "print"
             /\ Tail(Prints(n)) = Prints(n - 1)
  <2>1. Prints(n) # <<>> /\ Head(Prints(n)) = "print"
    BY <1>1, <1>2 DEF Prints
  <2>2. Tail(Prints(n)) = Prints(n - 1)
    BY <1>1, <1>2 DEF Prints
  <2> QED
    BY <2>1, <2>2
<1> QED
  BY <1>1, <1>2

LEMMA PublishFacts ==
  /\ PublishADC \in Seq(Names) /\ PublishADC # <<>> /\ Head(PublishADC) = "temperature"
  /\ Tail(PublishADC) = Prints(PrintLength)
<1> DEFINE p == Prints(PrintLength)
           q == <<"temperature">>
<1>1. p \in Seq(Names) /\ PublishADC = q \o p /\ Len(p) = PrintLength
  <2>1. p \in Seq(Names)
    BY PrintsFacts, Bounds
  <2>2. PublishADC = q \o p
    BY DEF PublishADC, PrintLine, Prints
  <2>3. Len(p) = PrintLength
    BY Bounds DEF Prints
  <2> QED
    BY <2>1, <2>2, <2>3
<1>2. q \in Seq(Names) /\ Len(q) = 1 /\ q[1] = "temperature"
  BY DEF Names
<1> HIDE DEF p, q
<1>3. /\ q \o p \in Seq(Names) /\ Len(q \o p) = 1 + PrintLength
      /\ \A i \in 1 .. 1 + PrintLength : (q \o p)[i] = IF i <= 1 THEN q[i] ELSE p[i - 1]
  <2>1. /\ q \o p \in Seq(Names) /\ Len(q \o p) = Len(q) + Len(p)
        /\ \A i \in 1 .. Len(q) + Len(p) :
             (q \o p)[i] = IF i <= Len(q) THEN q[i] ELSE p[i - Len(q)]
    BY <1>1, <1>2, ConcatProperties
  <2> QED
    BY <1>1, <1>2, <2>1
<1> DEFINE w == q \o p
<1> HIDE DEF w
<1>4. w # <<>> /\ Head(w) = "temperature"
  BY <1>2, <1>3, Bounds DEF w
<1>5. Tail(w) \in Seq(Names) /\ Len(Tail(w)) = PrintLength
      /\ \A i \in 1 .. PrintLength : Tail(w)[i] = w[i + 1]
  BY <1>3, <1>4, Bounds, HeadTailProperties DEF w
<1>6. \A i \in 1 .. PrintLength : Tail(w)[i] = p[i]
  BY <1>3, <1>5, Bounds, SMTT(60) DEF w
<1>7. Tail(w) = p
  BY <1>1, <1>5, <1>6, SeqEqual
<1> QED
  BY <1>1, <1>3, <1>4, <1>7 DEF w, p

LEMMA NoPrint == \A i \in 1 .. 7 : ExecuteCommand[i] # "print"
BY Steps

LEMMA FirstFrom == ExecuteCommand = From(1)
BY Steps, SubSeqFull DEF From

LEMMA LastFrom == <<"idle">> = From(7)
<1> DEFINE c == ExecuteCommand
<1>1. c \in Seq(Names) /\ Len(c) = 7 /\ c[7] = "idle"
  BY Steps
<1> HIDE DEF c
<1>2. SubSeq(c, 7, 7) = <<c[7]>> \o SubSeq(c, 8, 7)
  <2>1. 7 \in 1 .. Len(c) /\ 7 \in 7 .. Len(c) /\ 7 + 1 = 8
    BY <1>1
  <2> QED
    BY <1>1, <2>1, SubSeqRecursiveFirst
<1>3. SubSeq(c, 8, 7) = <<>>
  BY SubSeqEmpty
<1>4. <<c[7]>> \in Seq(Names)
  BY <1>1 DEF Names
<1>5. <<c[7]>> \o <<>> = <<c[7]>>
  BY <1>4, ConcatEmptySeq
<1> QED
  BY <1>1, <1>2, <1>3, <1>5 DEF From, c

(* Whatever is left to do is a list of known steps.                        *)
LEMMA JobType ==
  ASSUME JobInv
  PROVE  /\ job \in Seq(Names)
         /\ Step \in Names \cup {"done"}
         /\ Step = "done" <=> job = <<>>
         /\ job # <<>> => Head(job) = Step
<1>1. job \in Seq(Names)
  <2>1. ASSUME NEW n \in 0 .. PrintLength, job = Prints(n) PROVE job \in Seq(Names)
    BY <2>1, PrintsFacts, Bounds
  <2>2. ASSUME NEW i \in 1 .. 7, job = From(i) PROVE job \in Seq(Names)
    BY <2>2, FromFacts
  <2> QED
    BY <2>1, <2>2, PublishFacts DEF JobInv
<1>2. job # <<>> => Head(job) \in Names
  BY <1>1, HeadTailProperties
<1>3. "done" \notin Names
  BY DEF Names
<1> QED
  BY <1>1, <1>2, <1>3 DEF Step

(* The number of printed characters is that of the lines begun.            *)
LEMMA PrintedBound ==
  ASSUME JobInv, ProgramTypes
  PROVE  /\ printed \in 0 .. PrintLength * MaxPublish
         /\ job # <<>> /\ Head(job) = "print" => printed + 1 \in Chars
<1>0. PrintLength \in Nat /\ MaxPublish \in Nat /\ publishes \in 0 .. MaxPublish /\ printed \in Nat
  BY Bounds DEF ProgramTypes
<1>1. ASSUME NEW p \in 0 .. MaxPublish
      PROVE  PrintLength * p \in Nat /\ PrintLength * p <= PrintLength * MaxPublish
  <2>1. PICK d \in Nat : MaxPublish = p + d
    <3>1. MaxPublish - p \in Nat /\ MaxPublish = p + (MaxPublish - p)
      BY <1>0
    <3> QED
      BY <3>1
  <2>2. PrintLength * MaxPublish = PrintLength * p + PrintLength * d
    BY <1>0, <2>1
  <2>3. PrintLength * d \in Nat /\ PrintLength * p \in Nat
    BY <1>0
  <2> QED
    BY <2>2, <2>3
<1> DEFINE all == PrintLength * MaxPublish
<1>2. PrintLength * publishes \in Nat /\ PrintLength * publishes <= all /\ all \in Nat
  <2>1. MaxPublish \in 0 .. MaxPublish
    BY <1>0
  <2> QED
    BY <1>0, <1>1, <2>1
<1>3. publishes > 0 => PrintLength * (publishes - 1) <= all
  <2>1. publishes > 0 => publishes - 1 \in 0 .. MaxPublish
    BY <1>0
  <2> QED
    BY <1>1, <2>1
<1>4. printed <= all
  <2>1. ASSUME NEW n \in 0 .. PrintLength, printed + n = PrintLength * publishes
        PROVE  printed <= all
    BY <1>0, <1>2, <2>1
  <2> HIDE DEF all
  <2> QED
    BY <1>2, <1>3, <2>1 DEF JobInv
<1>5. job # <<>> /\ Head(job) = "print" => printed + 1 <= all
  <2>1. ASSUME NEW n \in 0 .. PrintLength, job = Prints(n), job # <<>>,
               printed + n = PrintLength * publishes
        PROVE  printed + 1 <= all
    <3>1. n > 0
      BY <2>1, PrintsFacts
    <3> HIDE DEF all
    <3> QED
      BY <1>0, <1>2, <2>1, <3>1
  <2>2. ASSUME NEW i \in 1 .. 7, job = From(i)
        PROVE  Head(job) # "print"
    <3>1. Head(job) = ExecuteCommand[i]
      BY <2>2, FromFacts
    <3> QED
      BY <3>1, NoPrint
  <2> HIDE DEF all
  <2> QED
    BY <2>1, <2>2, PublishFacts DEF JobInv
<1> QED
  BY <1>0, <1>2, <1>4, <1>5, PeripheralBounds

(* What follows a step.                                                    *)
LEMMA NextStep ==
  ASSUME JobInv, ProgramTypes, job # <<>>, job' = Tail(job), publishes' = publishes,
         printed' = IF Step = "print" THEN printed + 1 ELSE printed
  PROVE  /\ JobInv'
         /\ Step \in {"temperature", "print"} => Step' \in {"print", "done"}
         /\ Step = "wake" => Step' = "verify"
         /\ Step = "verify" => Step' = "send"
         /\ Step = "send" => Step' = "delay"
         /\ Step = "delay" => Step' = "receive"
         /\ Step = "receive" => Step' = "check"
         /\ Step = "check" => Step' = "idle"
         /\ Step = "idle" => Step' = "done"
<1>0. publishes \in Nat /\ printed \in Nat /\ Head(job) = Step
  BY Bounds DEF ProgramTypes, Step
<1>1. ASSUME NEW n \in 0 .. PrintLength, job' = Prints(n)
      PROVE  Step' \in {"print", "done"}
  <2>1. n \in Nat
    BY Bounds
  <2>2. n = 0 \/ n > 0
    BY <2>1
  <2>3. n = 0 => job' = <<>>
    BY <1>1, <2>1, PrintsFacts
  <2>4. n > 0 => job' # <<>> /\ Head(job') = "print"
    BY <1>1, <2>1, PrintsFacts
  <2> QED
    BY <2>2, <2>3, <2>4 DEF Step
<1>2. CASE job = PublishADC /\ publishes > 0 /\ printed = PrintLength * (publishes - 1)
  <2>1. Step = "temperature" /\ job' = Prints(PrintLength)
    BY <1>0, <1>2, PublishFacts
  <2>2. printed' = printed
    BY <2>1
  <2>3. PrintLength * (publishes - 1) + PrintLength = PrintLength * publishes
    BY <1>0, Bounds
  <2>4. printed' + PrintLength = PrintLength * publishes' /\ PrintLength \in 0 .. PrintLength
    BY <1>2, <2>2, <2>3, Bounds
  <2>5. JobInv'
    BY <2>1, <2>4 DEF JobInv, Prints
  <2> QED
    BY <1>1, <2>1, <2>4, <2>5
<1>3. ASSUME NEW n \in 0 .. PrintLength, job = Prints(n), printed + n = PrintLength * publishes
      PROVE  JobInv' /\ Step = "print" /\ Step' \in {"print", "done"}
  <2>1. n > 0 /\ n - 1 \in 0 .. PrintLength /\ n \in Nat
    BY <1>3, PrintsFacts, Bounds
  <2>2. Step = "print" /\ job' = Prints(n - 1)
    BY <1>0, <1>3, <2>1, PrintsFacts
  <2>3. printed' = printed + 1
    BY <2>2
  <2>4. printed' + (n - 1) = PrintLength * publishes'
    <3>1. printed' + (n - 1) = printed + n
      BY <1>0, <2>1, <2>3
    <3> QED
      BY <1>3, <3>1
  <2>5. JobInv'
    BY <2>1, <2>2, <2>4 DEF JobInv, Prints
  <2> QED
    BY <1>1, <2>1, <2>2, <2>5
<1>4. ASSUME NEW i \in 1 .. 7, job = From(i), printed = PrintLength * publishes
      PROVE  /\ JobInv' /\ Step = ExecuteCommand[i]
             /\ i < 7 => Step' = ExecuteCommand[i + 1]
             /\ i = 7 => Step' = "done"
  <2>1. Step = ExecuteCommand[i] /\ Step # "print"
    <3>1. Head(job) = ExecuteCommand[i]
      BY <1>4, FromFacts
    <3> QED
      BY <1>0, <3>1, NoPrint
  <2>2. printed' = PrintLength * publishes'
    BY <1>4, <2>1
  <2>3. CASE i < 7
    <3>1. i + 1 \in 1 .. 7 /\ job' = From(i + 1)
      <4>1. Tail(From(i)) = From(i + 1)
        BY <2>3, FromFacts
      <4> QED
        BY <1>4, <2>3, <4>1
    <3>2. Step' = ExecuteCommand[i + 1]
      BY <3>1, FromFacts DEF Step
    <3>3. JobInv'
      BY <2>2, <3>1 DEF JobInv, From, ExecuteCommand
    <3> QED
      BY <2>1, <2>3, <3>2, <3>3
  <2>4. CASE i = 7
    <3>1. job' = <<>> /\ job' = Prints(0)
      BY <1>4, <2>4, FromFacts, PrintsFacts
    <3>2. printed' + 0 = PrintLength * publishes' /\ 0 \in 0 .. PrintLength
      <4>1. printed' = printed
        BY <2>1
      <4> QED
        BY <1>0, <2>2, <4>1, Bounds
    <3>3. JobInv'
      BY <3>1, <3>2 DEF JobInv, Prints
    <3> QED
      BY <2>1, <2>4, <3>1, <3>3 DEF Step
  <2> QED
    BY <2>3, <2>4
<1>5. ASSUME NEW i \in 1 .. 7, job = From(i), printed = PrintLength * publishes
      PROVE  \/ i = 1 /\ Step = "wake" /\ Step' = "verify"
             \/ i = 2 /\ Step = "verify" /\ Step' = "send"
             \/ i = 3 /\ Step = "send" /\ Step' = "delay"
             \/ i = 4 /\ Step = "delay" /\ Step' = "receive"
             \/ i = 5 /\ Step = "receive" /\ Step' = "check"
             \/ i = 6 /\ Step = "check" /\ Step' = "idle"
             \/ i = 7 /\ Step = "idle" /\ Step' = "done"
  BY <1>4, <1>5, Steps
<1> QED
  BY <1>2, <1>3, <1>4, <1>5 DEF JobInv

-----------------------------------------------------------------------------
(* The inductive invariant of the program, its driver and its serial port. *)

Inv == IInv /\ DriverInv /\ JobInv /\ CallOwned /\ Commanded /\ ProgramTypes

LEMMA InitInv == Init => Inv
<1> SUFFICES ASSUME Init PROVE Inv
  OBVIOUS
<1>1. IInv
  BY InitIInv DEF Init
<1>2. I2cTypeOK
  <2> DEFINE zero == 0
  <2>1. zero \in 0 .. 2
    OBVIOUS
  <2>2. m = [inUse |-> FALSE, busy |-> FALSE, bufferFree |-> FALSE, nackCheck |-> FALSE,
             state |-> "IDLE", error |-> "NOERR", ptr |-> "out", left |-> zero,
             onData |-> "stop", onNack |-> "stop", ien |-> TRUE, flag |-> FALSE,
             rxack |-> FALSE, fault |-> "none", job |-> "none", sent |-> zero, got |-> zero,
             strange |-> FALSE, refused |-> FALSE]
    BY DEF Init, I2cInit
  <2>3. call \in {Calls[name] : name \in DOMAIN Calls}
    BY CallNames DEF Init, I2cInit
  <2> HIDE DEF zero
  <2>4. m \in Master
    BY <2>1, <2>2 DEF Master, States, Faults
  <2> QED
    BY <2>3, <2>4 DEF Init, I2cInit, I2cTypeOK
<1>3. Quiet /\ ~m.strange /\ ipc = "none"
  BY DEF Init, I2cInit, Quiet
<1>4. DriverInv
  BY <1>2, <1>3 DEF DriverInv, I2cInv, WritesOwnBytes, Moving
<1>5. JobInv
  <2>1. job = Prints(0)
    BY PrintsFacts DEF Init
  <2>2. 0 \in 0 .. PrintLength /\ PrintLength * 0 = 0 /\ 0 + 0 = 0
    BY Bounds
  <2> QED
    BY <2>1, <2>2 DEF Init, JobInv
<1>6. CallOwned
  BY <1>3 DEF CallOwned
<1>7. ProgramTypes
  <2>1. None \in Outputs /\ 0 \in 0 .. MaxPublish /\ 0 \in 0 .. MaxCommands
    BY Bounds DEF None, Outputs
  <2> QED
    BY <2>1 DEF Init, ProgramTypes
<1>8. Commanded
  BY DEF Init, Commanded, CommandSteps, Step
<1> QED
  BY <1>1, <1>4, <1>5, <1>6, <1>7, <1>8 DEF Inv

LEMMA DriverStays ==
  ASSUME DriverInv, UNCHANGED <<m, ipc, call, faults>>
  PROVE  DriverInv'
BY DEF DriverInv, I2cTypeOK, I2cInv, WritesOwnBytes, Quiet, Opened, Untouched, Active, Over,
   Dead, Completed, OnWire, Flagged, Writing, Reading, Misled, OnData, OnNack

LEMMA ReturnInv ==
  ASSUME DriverInv, ipc = "returned", ipc' = "none", UNCHANGED <<m, call>>
  PROVE  DriverInv'
BY DEF DriverInv, I2cTypeOK, I2cInv, WritesOwnBytes, Quiet, Moving

(* The driver and the bus keep their invariant, whatever the program does. *)
LEMMA DriverPart ==
  ASSUME Inv, [Next]_vars
  PROVE  DriverInv'
<1> USE DEF Inv
<1>0. faults \in Nat
  BY DEF ProgramTypes
<1>1. CASE Publish \/ Command \/ PrintChar \/ Delay \/ Check
  BY <1>1, DriverStays DEF Publish, Command, PrintChar, Delay, Check, i2cVars
<1>2. CASE BeginCall
  BY <1>2, CallInv DEF BeginCall
<1>3. CASE Return
  BY <1>3, ReturnInv DEF Return
<1>4. CASE WriteStep /\ UNCHANGED <<i2cVars, program, device, faults, refusals>>
  BY <1>4, DriverStays DEF i2cVars
<1>5. CASE CallStep /\ UNCHANGED <<serialVars, program, device, faults, refusals>>
  BY <1>0, <1>5, CallStepInv
<1>6. CASE Interrupts
  BY <1>0, <1>6, DriverStays, TwiIsrInv DEF Interrupts, i2cVars
<1>7. CASE Line \/ Execute
  BY <1>7, DriverStays DEF Line, Execute, i2cVars
<1>8. CASE Wire \/ Refuse
  BY <1>0, <1>8, CompleteInv DEF Wire, Refuse
<1>9. CASE BusFault
  BY <1>0, <1>9, FaultInv DEF BusFault
<1>10. CASE UNCHANGED vars
  BY <1>10, DriverStays DEF vars, i2cVars
<1> QED
  BY <1>1, <1>2, <1>3, <1>4, <1>5, <1>6, <1>7, <1>8, <1>9, <1>10 DEF Next, Superloop

(* A step of the program is a step of its serial port: what it prints is a *)
(* character the port knows.                                               *)
LEMMA SerialPart ==
  ASSUME Inv, [Next]_vars
  PROVE  [SerialNext]_serialVars
<1> USE DEF Inv
<1>1. CASE PrintChar
  <2>1. printed + 1 \in Chars
    BY <1>1, PrintedBound DEF PrintChar
  <2> QED
    BY <1>1, <2>1 DEF PrintChar, SerialNext
<1>2. CASE Publish \/ Command \/ Delay \/ Check \/ BeginCall \/ Return
  BY <1>2 DEF Publish, Command, Delay, Check, BeginCall, Return
<1>4. CASE WriteStep /\ UNCHANGED <<i2cVars, program, device, faults, refusals>>
  BY <1>4 DEF SerialNext
<1>5. CASE CallStep /\ UNCHANGED <<serialVars, program, device, faults, refusals>>
  BY <1>5
<1>6. CASE Interrupts
  BY <1>6 DEF Interrupts, SerialNext
<1>7. CASE Line
  BY <1>7 DEF Line, SerialNext
<1>8. CASE Wire \/ Refuse \/ BusFault \/ Execute
  BY <1>8 DEF Wire, Refuse, BusFault, Execute
<1>10. CASE UNCHANGED vars
  BY <1>10 DEF vars
<1> QED
  BY <1>1, <1>2, <1>4, <1>5, <1>6, <1>7, <1>8, <1>10 DEF Next, Superloop

LEMMA JobStays ==
  ASSUME JobInv, UNCHANGED <<job, printed, publishes>>
  PROVE  JobInv' /\ Step' = Step
BY DEF JobInv, Prints, From, PublishADC, PrintLine, ExecuteCommand, Step

(* While a call runs, the superloop is at the step that made it.           *)
LEMMA CallIsStep ==
  ASSUME Inv, ipc # "none"
  PROVE  job # <<>> /\ Step \in DOMAIN Calls /\ call = Calls[Step] /\ wpc = "idle"
BY DEF Inv, CallOwned, Step

(* What a call that returns leaves behind.                                 *)
LEMMA ReturnFacts ==
  ASSUME Inv, Return
  PROVE  /\ job # <<>> /\ Step \in DOMAIN Calls /\ ipc = "returned" /\ ipc' = "none"
         /\ UNCHANGED <<m, call, printed, cmd, verdict, publishes, device, faults, refusals,
                        serialVars>>
         /\ packet' = IF Step = "receive" THEN Received(packet) ELSE packet
         /\ init_data' \in Outputs /\ packet' \in Outputs \cup {Zero}
         /\ Step # "verify" => job' = Tail(job)
         /\ Step = "verify" => /\ init_data' = Received(init_data)
                               /\ \/ job' = Tail(job) /\ init_data' = WakeAnswer
                                  \/ job' = <<"idle">>
<1>1. /\ job # <<>> /\ Head(job) = Step /\ ipc = "returned" /\ ipc' = "none"
      /\ UNCHANGED <<m, call, printed, cmd, verdict, publishes, device, faults, refusals,
                     serialVars>>
  BY DEF Return, Ready, Step
<1>2. Step \in DOMAIN Calls
  BY <1>1, CallIsStep
<1>3. packet' = IF Step = "receive" THEN Received(packet) ELSE packet
  BY <1>1 DEF Return
<1>4. Received(packet) \in Outputs \cup {Zero} /\ Received(init_data) \in Outputs
  <2>1. None \in Outputs
    BY Bounds DEF None, Outputs
  <2> QED
    BY <2>1 DEF Received, Inv, ProgramTypes
<1>5. Step # "verify" => job' = Tail(job) /\ init_data' = init_data
  BY <1>1 DEF Return
<1>6. Step = "verify" => init_data' = Received(init_data) /\ job' \in Verified(init_data')
  BY <1>1 DEF Return
<1>7. Step = "verify" => (job' = Tail(job) /\ init_data' = WakeAnswer) \/ job' = <<"idle">>
  BY <1>6 DEF Verified
<1> QED
  BY <1>1, <1>2, <1>3, <1>4, <1>5, <1>6, <1>7 DEF Inv, ProgramTypes

(* The step after a call that returns.                                     *)
LEMMA ReturnStep ==
  ASSUME Inv, Return
  PROVE  /\ JobInv'
         /\ Step = "temperature" => Step' \in {"print", "done"}
         /\ Step = "wake" => Step' = "verify"
         /\ Step = "verify" => \/ Step' = "send" /\ init_data' = WakeAnswer
                               \/ Step' = "idle"
         /\ Step = "send" => Step' = "delay"
         /\ Step = "receive" => Step' = "check"
         /\ Step = "idle" => Step' = "done"
<1>1. /\ job # <<>> /\ Step \in DOMAIN Calls /\ UNCHANGED <<printed, publishes>>
      /\ Step # "verify" => job' = Tail(job)
      /\ Step = "verify" => \/ job' = Tail(job) /\ init_data' = WakeAnswer
                            \/ job' = <<"idle">>
  BY ReturnFacts
<1>2. Step # "print"
  BY <1>1, CallNames
<1>3. JobInv /\ ProgramTypes
  BY DEF Inv
<1>4. CASE job' = Tail(job)
  <2>1. publishes' = publishes /\ printed' = IF Step = "print" THEN printed + 1 ELSE printed
    BY <1>1, <1>2
  <2>2. /\ JobInv'
        /\ Step \in {"temperature", "print"} => Step' \in {"print", "done"}
        /\ Step = "wake" => Step' = "verify"
        /\ Step = "verify" => Step' = "send"
        /\ Step = "send" => Step' = "delay"
        /\ Step = "receive" => Step' = "check"
        /\ Step = "idle" => Step' = "done"
    BY <1>1, <1>3, <1>4, <2>1, NextStep
  <2>3. Step = "verify" => init_data' = WakeAnswer \/ Step' = "idle"
    <3>1. CASE Step = "verify" /\ job' = <<"idle">>
      BY <3>1 DEF Step
    <3> QED
      BY <1>1, <3>1
  <2> QED
    BY <2>2, <2>3
<1>5. CASE Step = "verify" /\ job' = <<"idle">>
  <2>1. job' = From(7) /\ Step' = "idle"
    BY <1>5, LastFrom, FromFacts, Steps DEF Step
  <2>2. printed' = PrintLength * publishes'
    <3>1. ASSUME NEW n \in 0 .. PrintLength, job = Prints(n)
          PROVE  FALSE
      <4>1. n \in Nat /\ (n = 0 \/ n > 0)
        BY Bounds
      <4>2. n > 0 => Head(job) = "print"
        BY <3>1, <4>1, PrintsFacts
      <4>3. n = 0 => job = <<>>
        BY <3>1, <4>1, PrintsFacts
      <4> QED
        BY <1>1, <1>5, <4>1, <4>2, <4>3 DEF Step
    <3>2. job # PublishADC
      BY <1>5, PublishFacts DEF Step
    <3> QED
      BY <1>1, <1>3, <3>1, <3>2 DEF JobInv
  <2>3. 7 \in 1 .. 7
    OBVIOUS
  <2>4. JobInv'
    BY <2>1, <2>2, <2>3 DEF JobInv, From, ExecuteCommand
  <2> QED
    BY <1>5, <2>1, <2>4
<1> QED
  BY <1>1, <1>4, <1>5

(* Steps that touch neither the program nor its counters.                  *)
LEMMA ProgramStays ==
  ASSUME Inv, UNCHANGED <<program, ipc, call>>, wpc = "idle" => wpc' = "idle"
  PROVE  JobInv' /\ CallOwned' /\ Step' = Step
<1>1. JobInv' /\ Step' = Step
  BY JobStays DEF Inv, program
<1>2. CallOwned'
  BY DEF Inv, CallOwned, program
<1> QED
  BY <1>1, <1>2

LEMMA JobPart ==
  ASSUME Inv, [Next]_vars
  PROVE  JobInv' /\ CallOwned'
<1>0. JobInv /\ ProgramTypes /\ CallOwned
  BY DEF Inv
<1>1. CASE Publish
  <2>1. job = <<>> /\ job' = PublishADC /\ publishes' = publishes + 1 /\ printed' = printed
        /\ UNCHANGED <<ipc, call>>
    BY <1>1 DEF Publish, i2cVars
  <2>2. printed = PrintLength * publishes
    <3>1. ASSUME NEW n \in 0 .. PrintLength, job = Prints(n), printed + n = PrintLength * publishes
          PROVE  printed = PrintLength * publishes
      <4>1. n = 0
        BY <2>1, <3>1, PrintsFacts, Bounds
      <4> QED
        BY <1>0, <3>1, <4>1 DEF ProgramTypes
    <3>2. ASSUME NEW i \in 1 .. 7, job = From(i) PROVE FALSE
      BY <2>1, <3>2, FromFacts
    <3> QED
      BY <1>0, <2>1, <3>1, <3>2, PublishFacts DEF JobInv
  <2>3. publishes' > 0 /\ publishes' - 1 = publishes
    BY <1>0, <2>1, Bounds DEF ProgramTypes
  <2>4. JobInv'
    BY <2>1, <2>2, <2>3 DEF JobInv, PublishADC, PrintLine
  <2>5. ipc = "none"
    BY <1>0, <2>1 DEF CallOwned
  <2> QED
    BY <2>1, <2>4, <2>5 DEF CallOwned
<1>2. CASE Command
  <2>1. job = <<>> /\ job' = ExecuteCommand /\ UNCHANGED <<printed, publishes, ipc, call>>
    BY <1>2 DEF Command, i2cVars
  <2>2. printed = PrintLength * publishes
    <3>1. ASSUME NEW n \in 0 .. PrintLength, job = Prints(n), printed + n = PrintLength * publishes
          PROVE  printed = PrintLength * publishes
      <4>1. n = 0
        BY <2>1, <3>1, PrintsFacts, Bounds
      <4> QED
        BY <1>0, <3>1, <4>1 DEF ProgramTypes
    <3>2. ASSUME NEW i \in 1 .. 7, job = From(i) PROVE FALSE
      BY <2>1, <3>2, FromFacts
    <3> QED
      BY <1>0, <2>1, <3>1, <3>2, PublishFacts DEF JobInv
  <2>3. job' = From(1) /\ 1 \in 1 .. 7
    BY <2>1, FirstFrom
  <2>4. JobInv'
    BY <2>1, <2>2, <2>3 DEF JobInv, From, ExecuteCommand
  <2>5. ipc = "none"
    BY <1>0, <2>1 DEF CallOwned
  <2> QED
    BY <2>1, <2>4, <2>5 DEF CallOwned
<1>3. CASE PrintChar
  <2>1. job # <<>> /\ Head(job) = "print" /\ Step = "print" /\ job' = Tail(job)
        /\ printed' = printed + 1 /\ UNCHANGED <<publishes, ipc, call>>
    BY <1>3 DEF PrintChar, Step, i2cVars
  <2>2. JobInv'
    BY <1>0, <2>1, NextStep
  <2>3. ipc = "none"
    BY <1>0, <2>1, CallNames DEF CallOwned
  <2> QED
    BY <2>1, <2>2, <2>3 DEF CallOwned
<1>4. CASE Delay \/ Check
  <2>1. job # <<>> /\ Head(job) \in {"delay", "check"} /\ Step \in {"delay", "check"}
        /\ job' = Tail(job) /\ UNCHANGED <<printed, publishes, ipc, call>>
    BY <1>4 DEF Delay, Check, Ready, Step, i2cVars
  <2>2. JobInv'
    BY <1>0, <2>1, NextStep
  <2>3. ipc = "none"
    BY <1>0, <2>1, CallNames DEF CallOwned
  <2> QED
    BY <2>1, <2>2, <2>3 DEF CallOwned
<1>5. CASE BeginCall
  <2>1. /\ job # <<>> /\ Head(job) \in DOMAIN Calls /\ call' = Calls[Head(job)]
        /\ wpc = "idle" /\ UNCHANGED <<wpc, job, printed, publishes>>
    BY <1>5 DEF BeginCall, Ready, Call, serialVars
  <2> QED
    BY <1>0, <2>1, JobStays DEF CallOwned
<1>6. CASE Return
  BY <1>6, ReturnStep, ReturnFacts DEF CallOwned
<1>7. CASE WriteStep /\ UNCHANGED <<i2cVars, program, device, faults, refusals>>
  <2>1. wpc # "idle"
    BY <1>7 DEF WriteStep, StoreChar, LoadElements, StoreElements, EnableDre
  <2> QED
    BY <1>7, <2>1, ProgramStays DEF i2cVars
<1>8. CASE CallStep /\ UNCHANGED <<serialVars, program, device, faults, refusals>>
  <2>1. ipc # "none" /\ UNCHANGED <<call, job, wpc, printed, publishes>>
    BY <1>8 DEF CallStep, Open, Setup, Start, CheckBus, Close, serialVars, program
  <2> QED
    BY <1>0, <2>1, JobStays DEF CallOwned
<1>9. CASE Interrupts
  BY <1>9, ProgramStays DEF Interrupts, DreIsr, TwiIsr, i2cVars, serialVars
<1>10. CASE Line
  BY <1>10, ProgramStays DEF Line, Shift, i2cVars
<1>11. CASE Wire \/ Refuse \/ BusFault \/ Execute
  BY <1>11, ProgramStays DEF Wire, Refuse, BusFault, Execute, Complete, Fault, i2cVars,
     serialVars
<1>12. CASE UNCHANGED vars
  BY <1>12, ProgramStays DEF vars, i2cVars, serialVars
<1> QED
  BY <1>1, <1>2, <1>3, <1>4, <1>5, <1>6, <1>7, <1>8, <1>9, <1>10, <1>11, <1>12
  DEF Next, Superloop

(* Only one call writes two bytes.                                         *)
LEMMA SendIsSend ==
  ASSUME NEW name \in DOMAIN Calls, Calls[name] = Calls["send"]
  PROVE  name = "send"
<1>1. name \in {"temperature", "wake", "verify", "send", "receive", "idle"}
  BY CallNames
<1>2. /\ Calls["temperature"].out = 1 /\ Calls["wake"].out = 1 /\ Calls["verify"].out = 0
      /\ Calls["send"].out = 2 /\ Calls["receive"].out = 0 /\ Calls["idle"].out = 1
  BY CallValues
<1> QED
  BY <1>1, <1>2

LEMMA CommandedPart ==
  ASSUME Inv, [Next]_vars
  PROVE  Commanded'
<1>0. Commanded /\ JobInv /\ ProgramTypes /\ CallOwned
  BY DEF Inv
<1>1. CASE Publish
  <2>1. Step = "done" /\ Step' = "temperature" /\ element' = element
    BY <1>1, PublishFacts DEF Publish, Step, device
  <2> QED
    BY <1>0, <2>1 DEF Commanded, CommandSteps
<1>2. CASE Command
  <2>1. Step = "done" /\ Step' = "wake" /\ element' = element /\ cmd' = cmd + 1
    <3>1. job' # <<>> /\ Head(job') = "wake"
      BY <1>2, FirstFrom, FromFacts, Steps DEF Command
    <3> QED
      BY <1>2, <3>1 DEF Command, Step, device
  <2>2. cmd' > 0
    BY <1>0, <2>1 DEF ProgramTypes
  <2> QED
    BY <1>0, <2>1, <2>2 DEF Commanded, CommandSteps
<1>3. CASE PrintChar \/ Delay \/ Check
  <2>1. /\ job # <<>> /\ Step \in {"print", "delay", "check"} /\ job' = Tail(job)
        /\ publishes' = publishes /\ printed' = IF Step = "print" THEN printed + 1 ELSE printed
        /\ element' = element /\ cmd' = cmd /\ (Step = "delay" => element # "busy")
    BY <1>3 DEF PrintChar, Delay, Check, Ready, Step, device
  <2>2. /\ Step = "print" => Step' \in {"print", "done"}
        /\ Step = "delay" => Step' = "receive"
        /\ Step = "check" => Step' = "idle"
    BY <1>0, <2>1, NextStep
  <2> QED
    BY <1>0, <2>1, <2>2 DEF Commanded, CommandSteps
<1>4. CASE BeginCall
  BY <1>0, <1>4, JobStays DEF BeginCall, device, Commanded
<1>5. CASE Return
  <2>1. Step \in {"temperature", "wake", "verify", "send", "receive", "idle"}
        /\ element' = element /\ cmd' = cmd
    BY <1>5, ReturnFacts, CallNames DEF device
  <2> QED
    BY <1>0, <1>5, <2>1, ReturnStep DEF Commanded, CommandSteps
<1>6. CASE Wire
  <2>1. Step' = Step /\ cmd' = cmd
    BY <1>0, <1>6, JobStays DEF Wire, program
  <2>2. element' = "busy" => element = "busy" \/ call = Calls["send"]
    BY <1>6 DEF Wire, DeviceTakes, device
  <2>3. ipc # "none"
    BY <1>6, LiveIsActive DEF Wire, Complete, Inv, DriverInv, Moving, Live
  <2>4. call = Calls["send"] => Step = "send"
    BY <2>3, CallIsStep, SendIsSend
  <2> QED
    BY <1>0, <2>1, <2>2, <2>4 DEF Commanded
<1>7. CASE Execute
  BY <1>0, <1>7, JobStays DEF Execute, program, Commanded
<1>8. CASE \/ WriteStep /\ UNCHANGED <<i2cVars, program, device, faults, refusals>>
           \/ CallStep /\ UNCHANGED <<serialVars, program, device, faults, refusals>>
           \/ Interrupts \/ Line \/ Refuse \/ BusFault \/ UNCHANGED vars
  <2>1. UNCHANGED <<program, device>>
    BY <1>8 DEF Interrupts, Line, Refuse, BusFault, vars
  <2> QED
    BY <1>0, <2>1, JobStays DEF program, device, Commanded
<1> QED
  BY <1>1, <1>2, <1>3, <1>4, <1>5, <1>6, <1>7, <1>8 DEF Next, Superloop

LEMMA TypesPart ==
  ASSUME Inv, [Next]_vars
  PROVE  ProgramTypes'
<1>0. ProgramTypes /\ None \in Outputs /\ WakeAnswer \in Outputs
  BY Bounds DEF Inv, None, WakeAnswer, Outputs
<1>1. CASE Publish
  BY <1>0, <1>1, Bounds DEF Publish, device, ProgramTypes
<1>2. CASE Command
  BY <1>0, <1>2, Bounds DEF Command, device, ProgramTypes
<1>3. CASE PrintChar
  BY <1>0, <1>3 DEF PrintChar, device, ProgramTypes
<1>4. CASE Delay
  BY <1>0, <1>4 DEF Delay, device, ProgramTypes
<1>5. CASE Check
  <2>1. verdict' \in {"accepted", "refused"}
    BY <1>5 DEF Check, Verdicts
  <2> QED
    BY <1>0, <1>5, <2>1 DEF Check, device, ProgramTypes
<1>6. CASE BeginCall
  BY <1>0, <1>6 DEF BeginCall, Memset, device, ProgramTypes
<1>7. CASE Return
  BY <1>0, <1>7, ReturnFacts DEF device, ProgramTypes
<1>8. CASE Wire
  <2>1. element' \in {"asleep", "awake", "busy"} /\ output' \in Outputs
    BY <1>0, <1>8 DEF Wire, DeviceTakes, device, ProgramTypes
  <2> QED
    BY <1>0, <1>8, <2>1 DEF Wire, program, ProgramTypes
<1>9. CASE Refuse
  BY <1>0, <1>9 DEF Refuse, program, device, ProgramTypes
<1>12. CASE BusFault
  BY <1>0, <1>12 DEF BusFault, program, device, ProgramTypes
<1>10. CASE Execute
  <2>1. cmd > 0
    BY <1>10 DEF Execute, Inv, Commanded, CommandSteps
  <2>2. cmd \in Outputs
    BY <1>0, <2>1, Bounds DEF Outputs, None, ProgramTypes
  <2> QED
    BY <1>0, <1>10, <2>2 DEF Execute, program, ProgramTypes
<1>11. CASE \/ WriteStep /\ UNCHANGED <<i2cVars, program, device, faults, refusals>>
            \/ CallStep /\ UNCHANGED <<serialVars, program, device, faults, refusals>>
            \/ Interrupts \/ Line \/ UNCHANGED vars
  BY <1>0, <1>11 DEF Interrupts, Line, vars, program, device, ProgramTypes
<1> QED
  BY <1>1, <1>2, <1>3, <1>4, <1>5, <1>6, <1>7, <1>8, <1>9, <1>10, <1>11, <1>12 DEF Next, Superloop

-----------------------------------------------------------------------------
(* The program, its driver and its port keep the invariant.                *)
THEOREM Invariance == Spec => []Inv
<1>1. Init => Inv
  BY InitInv
<1>2. Inv /\ [Next]_vars => Inv'
  <2> SUFFICES ASSUME Inv, [Next]_vars PROVE Inv'
    OBVIOUS
  <2>1. IInv'
    <3>1. IInv
      BY DEF Inv
    <3> QED
      BY <3>1, SerialPart, StepIInv
  <2> QED
    BY <2>1, DriverPart, JobPart, CommandedPart, TypesPart DEF Inv
<1> QED
  BY <1>1, <1>2, PTL DEF Spec

(* Every variable of the program, the driver, the devices and the port has *)
(* its type; the characters printed are those of the lines begun.          *)
THEOREM PeripheralTypes == Spec => []TypeOK
<1>1. Inv => TypeOK
  <2> SUFFICES ASSUME Inv PROVE TypeOK
    OBVIOUS
  <2>1. job \in Seq({"print", "delay", "check"} \cup DOMAIN Calls)
    <3>1. Names = {"print", "delay", "check"} \cup DOMAIN Calls
      BY CallNames DEF Names
    <3> QED
      BY <3>1, JobType DEF Inv
  <2>2. printed \in 0 .. PrintLength * MaxPublish
    BY PrintedBound DEF Inv
  <2> QED
    BY <2>1, <2>2 DEF TypeOK, Inv, IInv, DriverInv, ProgramTypes
<1> QED
  BY <1>1, Invariance, PTL

(* Outside its calls the I2C driver is closed and its interrupt cannot move *)
(* bytes of a caller's buffer.                                              *)
THEOREM DriverQuiet == Spec => []QuietOutsideCalls
<1>1. Inv => QuietOutsideCalls
  BY DEF Inv, DriverInv, I2cInv, Quiet, QuietOutsideCalls
<1> QED
  BY <1>1, Invariance, PTL

(* Bytes of a buffer to be read into go to a device only after it refused   *)
(* the repeated start of a register read.                                   *)
THEOREM OwnBytesWritten == Spec => []WritesOwnBytes
<1>1. Inv => WritesOwnBytes
  BY DEF Inv, DriverInv
<1> QED
  BY <1>1, Invariance, PTL

(* A transfer nothing disturbed has moved every byte when its caller goes   *)
(* on.                                                                      *)
THEOREM TransfersComplete == Spec => []TransferComplete
<1>1. Inv => TransferComplete
  BY DEF Inv, DriverInv, I2cInv, Completed, TransferComplete
<1> QED
  BY <1>1, Invariance, PTL

(* The whole program drives its serial port as SerialPort says, so what is  *)
(* proved of the port holds of the program.                                 *)
THEOREM ProgramDrivesPort == Spec => SerialSpec
<1>1. Init => SerialInit
  BY DEF Init
<1>2. Inv /\ [Next]_vars => [SerialNext]_serialVars
  BY SerialPart
<1> QED
  BY <1>1, <1>2, Invariance, PTL DEF Spec, SerialSpec

(* The count and the indices of the ring agree while the whole program runs. *)
THEOREM ProgramCountsAgree == Spec => []CountAgrees
BY ProgramDrivesPort, CountsAgree, PTL

(* No printed character is left waiting with its interrupt disabled.        *)
THEOREM ProgramStrandsNone == Spec => []NoneStranded
BY ProgramDrivesPort, NoCharacterStranded, PTL

(* What publishADC prints leaves on the line in order, once each.           *)
THEOREM ProgramPrintsFifo == Spec => ImplementsFifo
BY ProgramDrivesPort, RingIsFifo, PTL

-----------------------------------------------------------------------------
(* Whose answer is accepted.                                               *)

Disturbances == faults + refusals

(* The element holds the answer to a command, and to an older one.         *)
Answer == output \in 1 .. MaxCommands
Old == Answer /\ output # cmd

(* A call is not started, or goes on with nothing against it.              *)
Opening == {"none", "open", "setup", "start"}
Smooth ==
  \/ ipc \in Opening
  \/ /\ ipc \in Moving /\ m.busy /\ m.fault = "none" /\ ~m.refused
     /\ m.job \in Live \/ (m.flag /\ m.state \in {"TX", "RX"})

(* An answer that is still there when its command is over was left by an   *)
(* idle word that a disturbance stopped; the wake after it passes over an  *)
(* element that is awake only if its verification is disturbed; and the    *)
(* command that follows replaces the answer unless it is disturbed too.    *)
OldInv ==
  /\ Answer /\ Step \notin {"send", "delay", "receive", "check", "idle"} => Disturbances >= 1
  /\ Answer /\ Step = "verify" => Smooth \/ m.got > 0 \/ Disturbances >= 2
  /\ Old /\ Step = "send" => Disturbances >= 2 /\ (Smooth \/ Disturbances >= 3)
  /\ Old /\ Step \in {"delay", "receive"} => Disturbances >= 3
  /\ Answer /\ Step = "idle" => Smooth \/ Disturbances >= 1

PacketInv ==
  /\ Step = "receive" /\ ipc # "none" => packet = Zero
  /\ Step = "check" => packet \in {Zero, cmd, WakeAnswer, None} \/ Disturbances >= 3
  /\ verdict = "accepted" => packet \in {Zero, cmd} \/ Disturbances >= 3
  /\ Step \in {"wake", "verify", "send", "delay", "receive", "check"} => verdict = "none"

AnswerInv == (Answer => element = "awake") /\ OldInv /\ PacketInv

-----------------------------------------------------------------------------
(* What keeps a call smooth.                                               *)

LEMMA SmoothCompletes ==
  ASSUME DriverInv, Smooth, Complete(TRUE, FALSE), ~(m.job = "byteW" /\ m.state = "TX_EMPTY")
  PROVE  Smooth' /\ m'.got = m.got
<1>1. m \in Master /\ m.job \in Live /\ UNCHANGED <<ipc, call>>
  BY DEF Complete, DriverInv, I2cTypeOK, Live
<1>2. ipc \in Moving /\ OnWire
  BY <1>1, LiveIsActive DEF DriverInv
<1>3. m' = [m EXCEPT !.flag = TRUE, !.rxack = FALSE, !.job = "none", !.refused = @ \/ FALSE]
  BY DEF Complete
<1>4. m.state \in {"TX", "RX"}
  BY <1>2 DEF OnWire, Live
<1>5. m.busy /\ m.fault = "none" /\ ~m.refused
  BY <1>2 DEF Smooth, Moving, Opening
<1> QED
  BY <1>1, <1>2, <1>3, <1>4, <1>5 DEF Smooth, Master

LEMMA SmoothIsr ==
  ASSUME DriverInv, Smooth, TwiIsr
  PROVE  Smooth' \/ (m.state = "RX" /\ m'.got > 0)
<1>1. PICK seen \in BOOLEAN : m' = MasterIsr(m, seen)
  BY DEF TwiIsr
<1>2. m.flag /\ m \in Master /\ UNCHANGED <<ipc, call>>
  BY DEF TwiIsr, DriverInv, I2cTypeOK
<1>3. ipc \in Moving /\ Flagged
  BY <1>2, FlagIsActive DEF DriverInv
<1>4. m.busy /\ m.fault = "none" /\ ~m.refused /\ m.state \in {"TX", "RX"} /\ ~m.rxack
      /\ m.job = "none"
  BY <1>3 DEF Smooth, Moving, Opening, Flagged, Live
<1> DEFINE s == [m EXCEPT !.flag = FALSE, !.fault = "none"]
<1>5. m' = FsmStateTable(s, Override(m, "none"))
  BY <1>1, <1>4 DEF MasterIsr
<1>6. Override(m, "none") = m.state
  BY <1>4, OverrideIs
<1>7. s \in Master /\ s.busy = m.busy /\ s.fault = "none" /\ s.refused = m.refused
      /\ s.rxack = m.rxack /\ s.got = m.got /\ ~s.flag
  BY <1>2 DEF Master, Faults
<1> HIDE DEF s
<1>8. CASE m.state = "TX"
  <2>1. m' = Tx(s)
    BY <1>5, <1>6, <1>8, TableIs
  <2>2. m'.busy = m.busy /\ m'.fault = "none" /\ m'.refused = m.refused /\ m'.job = "byteW"
    BY <1>4, <1>7, <2>1 DEF Tx, Master
  <2> QED
    BY <1>2, <1>3, <1>4, <2>2 DEF Smooth, Live
<1>9. CASE m.state = "RX"
  <2>1. m' = Rx(s)
    BY <1>5, <1>6, <1>9, TableIs
  <2>2. m'.got = m.got + 1
    BY <1>7, <2>1 DEF Rx, Idle, Park, Master
  <2>3. m.got \in Nat
    BY <1>2 DEF Master
  <2> QED
    BY <1>9, <2>2, <2>3
<1> QED
  BY <1>4, <1>8, <1>9

(* The interrupt never forgets a byte it has stored.                       *)
LEMMA GotKept ==
  ASSUME DriverInv, TwiIsr, m.got > 0
  PROVE  m'.got > 0
<1>1. PICK seen \in BOOLEAN : m' = MasterIsr(m, seen)
  BY DEF TwiIsr
<1>2. m.flag /\ m \in Master
  BY DEF TwiIsr, DriverInv, I2cTypeOK
<1>3. m.state \in {"TX", "TX_EMPTY", "RX"} /\ m.fault \in Faults
  BY <1>2, FlagIsActive DEF DriverInv, Active, Writing, Reading, Misled, Master
<1> DEFINE fault == IF seen THEN m.fault ELSE "none"
           s == [m EXCEPT !.flag = FALSE, !.fault = "none"]
           a == FsmStateTable(s, Override(m, fault))
<1>4. m' = IF m.fault # fault /\ a.job # "none" THEN [a EXCEPT !.job = "dead"] ELSE a
  BY <1>1 DEF MasterIsr
<1>5. s \in Master /\ s.got = m.got
  BY <1>2 DEF Master, Faults
<1> HIDE DEF s
<1>6. Override(m, fault) \in {"TX", "TX_EMPTY", "RX", "ADDRESS_NACK", "BUS_COLLISION", "BUS_ERROR"}
  BY <1>3, OverrideIs DEF Faults
<1> DEFINE Keeps(r) == r.got > 0 /\ [r EXCEPT !.job = "dead"].got > 0
<1>7. m.got \in Nat
  BY <1>2 DEF Master
<1>8. Keeps(Tx(s))
  BY <1>5 DEF Tx, SendStop, Idle, Park, Master
<1>9. Keeps(Rx(s))
  <2>1. Rx(s).got = m.got + 1 /\ [Rx(s) EXCEPT !.job = "dead"].got = m.got + 1
    BY <1>5 DEF Rx, Idle, Park, Master
  <2> QED
    BY <1>7, <2>1
<1>10. Keeps(TxEmpty(s))
  BY <1>5 DEF TxEmpty, SetBuffer, SendAdrRead, SendStop, Idle, Park, Master
<1>11. Keeps(AddressNack(s))
  BY <1>5 DEF AddressNack, SendAdrWrite, SendStop, Idle, Park, Master
<1>12. Keeps(BusCollision(s)) /\ Keeps(BusError(s))
  BY <1>5 DEF BusCollision, BusError, Reset, Park, Master
<1>13. Keeps(a)
  <2> HIDE DEF Keeps
  <2> QED
    BY <1>6, <1>8, <1>9, <1>10, <1>11, <1>12, TableIs
<1> QED
  BY <1>4, <1>13

LEMMA SmoothCall ==
  ASSUME DriverInv, CallStep
  PROVE  (Smooth => Smooth') /\ m'.got = m.got
<1>1. m \in Master
  BY DEF DriverInv, I2cTypeOK
<1>2. CASE Open
  BY <1>1, <1>2 DEF Open, Smooth, Opening, Master
<1>3. CASE Setup
  BY <1>1, <1>3 DEF Setup, SetBuffer, Smooth, Opening, Master
<1>4. CASE Start
  <2>1. ipc = "start" /\ Opened /\ ipc' = "poll"
    BY <1>4 DEF Start, DriverInv, I2cInv
  <2>2. /\ m'.busy /\ m'.fault = m.fault /\ m'.refused = m.refused /\ m'.job \in Live
        /\ m'.got = m.got
    BY <1>1, <1>4 DEF Start, SendAdrWrite, SendAdrRead, Live, Master
  <2> QED
    BY <2>1, <2>2 DEF Opened, Untouched, Smooth, Moving
<1>5. CASE CheckBus
  <2>1. ipc = "poll" /\ ipc' = "close" /\ m'.got = m.got
    BY <1>1, <1>5 DEF CheckBus, Master
  <2>2. m.fault = "none" => m' = m
    BY <1>5 DEF CheckBus
  <2> QED
    BY <2>1, <2>2 DEF Smooth, Opening, Moving
<1>6. CASE Close
  <2>1. ipc = "close" /\ m'.got = m.got /\ (m.busy => ipc' = "poll" /\ m' = m)
    BY <1>1, <1>6 DEF Close, Master
  <2> QED
    BY <2>1 DEF Smooth, Opening, Moving
<1> QED
  BY <1>2, <1>3, <1>4, <1>5, <1>6 DEF CallStep

-----------------------------------------------------------------------------
(* A step that leaves the answer and the packet alone keeps the invariant  *)
(* if it keeps a smooth call smooth, or disturbs it.                       *)
LEMMA AnswerStays ==
  ASSUME Inv, AnswerInv, Step' = Step,
         UNCHANGED <<element, output, cmd, packet, verdict>>,
         Disturbances' \in Nat, Disturbances' >= Disturbances,
         Answer /\ Step \in {"verify", "send", "idle"} /\ Smooth =>
           \/ Smooth'
           \/ Disturbances' > Disturbances
           \/ Step = "verify" /\ m'.got > 0,
         m.got > 0 => m'.got > 0 \/ Disturbances' > Disturbances,
         ipc = "none" => ipc' = "none"
  PROVE  AnswerInv'
<1>1. Disturbances \in Nat
  BY DEF Inv, ProgramTypes, Disturbances
<1>2. Answer' = Answer /\ Old' = Old
  BY DEF Answer, Old
<1>3. PacketInv'
  BY <1>1 DEF AnswerInv, PacketInv, Zero, WakeAnswer, None
<1> DEFINE d == Disturbances
           e == Disturbances'
<1>4. d \in Nat /\ e \in Nat /\ e >= d
  BY <1>1
<1>5. OldInv
  BY DEF AnswerInv
<1> HIDE DEF d, e
<1>6. OldInv'
  <2>1. (Answer /\ Step \notin {"send", "delay", "receive", "check", "idle"} => d >= 1)
        /\ (Answer /\ Step = "verify" => Smooth \/ m.got > 0 \/ d >= 2)
        /\ (Old /\ Step = "send" => d >= 2 /\ (Smooth \/ d >= 3))
        /\ (Old /\ Step \in {"delay", "receive"} => d >= 3)
        /\ (Answer /\ Step = "idle" => Smooth \/ d >= 1)
    BY <1>5 DEF OldInv, d
  <2>2. /\ Answer /\ Step \in {"verify", "send", "idle"} /\ Smooth =>
             Smooth' \/ e > d \/ (Step = "verify" /\ m'.got > 0)
        /\ m.got > 0 => m'.got > 0 \/ e > d
    BY DEF d, e
  <2>3. Old => Answer
    BY DEF Old
  <2>4. Answer /\ Step \notin {"send", "delay", "receive", "check", "idle"} => e >= 1
    BY <1>4, <2>1
  <2>5. Answer /\ Step = "verify" => Smooth' \/ m'.got > 0 \/ e >= 2
    <3>1. Answer /\ Step = "verify" => d >= 1
      BY <2>1
    <3> QED
      BY <1>4, <2>1, <2>2, <3>1
  <2>6. Old /\ Step = "send" => e >= 2 /\ (Smooth' \/ e >= 3)
    BY <1>4, <2>1, <2>2, <2>3
  <2>7. Old /\ Step \in {"delay", "receive"} => e >= 3
    BY <1>4, <2>1
  <2>8. Answer /\ Step = "idle" => Smooth' \/ e >= 1
    BY <1>4, <2>1, <2>2
  <2> QED
    BY <1>2, <2>4, <2>5, <2>6, <2>7, <2>8 DEF OldInv, e
<1> QED
  BY <1>2, <1>3, <1>6 DEF AnswerInv

(* A read that stored a byte but no wake answer is not taken for one.      *)
LEMMA OldIsNotWake ==
  ASSUME ProgramTypes, Answer, m.got > 0, m.got \in Nat
  PROVE  Received(init_data) # WakeAnswer
<1>1. output # WakeAnswer /\ None # WakeAnswer
  BY Bounds DEF Answer, WakeAnswer, None
<1>2. m.got # 0
  OBVIOUS
<1> QED
  BY <1>1, <1>2 DEF Received

LEMMA ReturnAnswer ==
  ASSUME Inv, AnswerInv, Return
  PROVE  AnswerInv'
<1>1. /\ ipc = "returned" /\ Step \in {"temperature", "wake", "verify", "send", "receive", "idle"}
      /\ UNCHANGED <<m, cmd, verdict, element, output, faults, refusals>>
      /\ ipc' = "none"
      /\ packet' = IF Step = "receive" THEN Received(packet) ELSE packet
      /\ Step = "verify" => init_data' = Received(init_data)
  BY ReturnFacts, CallNames DEF device
<1>2. ~Smooth /\ Smooth'
  BY <1>1 DEF Smooth, Opening, Moving
<1>3. Answer' = Answer /\ Old' = Old /\ Disturbances' = Disturbances
  BY <1>1 DEF Answer, Old, Disturbances
<1>4. OldInv /\ PacketInv /\ (Old => Answer)
  BY DEF AnswerInv, Old
<1>5. None' = None /\ WakeAnswer' = WakeAnswer /\ Zero' = Zero
  BY DEF None, WakeAnswer, Zero
<1>6. Answer' => element' = "awake"
  BY <1>1, <1>3 DEF AnswerInv
<1>7. CASE Step # "receive"
  <2>1. packet' = packet
    BY <1>1, <1>7
  <2>2. Step' \in {"print", "done", "verify", "send", "idle", "delay"}
    BY <1>1, <1>7, ReturnStep
  <2>3. PacketInv'
    <3>1. Step' \in {"verify", "send", "delay"} => Step \in {"wake", "verify", "send"}
      BY <1>1, <1>7, ReturnStep
    <3> QED
      BY <1>1, <1>3, <1>4, <2>1, <2>2, <3>1 DEF PacketInv, None, WakeAnswer, Zero
  <2>4. OldInv'
    <3>1. CASE Step \in {"temperature", "wake"}
      BY <1>2, <1>3, <1>4, <3>1, ReturnStep DEF OldInv
    <3>2. CASE Step = "verify"
      <4>1. (Step' = "send" /\ init_data' = WakeAnswer) \/ Step' = "idle"
        BY <3>2, ReturnStep
      <4>2. ASSUME Answer, init_data' = WakeAnswer
            PROVE  Disturbances >= 2
        <5>1. m.got \in Nat
          BY DEF Inv, DriverInv, I2cTypeOK, Master
        <5>2. ~(m.got > 0)
          BY <1>1, <3>2, <4>2, <5>1, OldIsNotWake DEF Inv
        <5> QED
          BY <1>2, <1>4, <3>2, <4>2, <5>2 DEF OldInv
      <4> QED
        BY <1>2, <1>3, <1>4, <4>1, <4>2 DEF OldInv
    <3>3. CASE Step = "send"
      BY <1>2, <1>3, <1>4, <3>3, ReturnStep DEF OldInv
    <3>4. CASE Step = "idle"
      BY <1>2, <1>3, <1>4, <3>4, ReturnStep DEF OldInv
    <3> QED
      BY <1>1, <1>7, <3>1, <3>2, <3>3, <3>4
  <2> QED
    BY <1>6, <2>3, <2>4 DEF AnswerInv
<1>8. CASE Step = "receive"
  <2>1. Step' = "check"
    BY <1>8, ReturnStep
  <2>2. packet = Zero /\ verdict = "none"
    BY <1>1, <1>4, <1>8 DEF PacketInv
  <2>3. packet' \in {Zero, output, None}
    BY <1>1, <1>8, <2>2 DEF Received
  <2>4. output \in {cmd, WakeAnswer, None} \/ Old
    BY Bounds DEF Inv, ProgramTypes, Outputs, Old, Answer, WakeAnswer, None
  <2>5. Old => Disturbances >= 3
    BY <1>4, <1>8 DEF OldInv
  <2>6. PacketInv'
    <3>1. packet' \in {Zero, cmd, WakeAnswer, None} \/ Disturbances >= 3
      BY <2>3, <2>4, <2>5
    <3> QED
      BY <1>1, <1>3, <1>5, <2>1, <2>2, <3>1 DEF PacketInv
  <2>7. OldInv'
    BY <2>1 DEF OldInv
  <2> QED
    BY <1>6, <2>6, <2>7 DEF AnswerInv
<1> QED
  BY <1>7, <1>8

(* The steps of the superloop other than a return.                         *)
LEMMA StepAnswer ==
  ASSUME Inv, AnswerInv, Publish \/ Command \/ PrintChar \/ Delay \/ Check \/ BeginCall
  PROVE  AnswerInv'
<1>0. OldInv /\ PacketInv /\ (Old => Answer) /\ (Answer => element = "awake")
      /\ JobInv /\ ProgramTypes
  BY DEF AnswerInv, Old, Inv
<1>2. Answer' = Answer /\ Disturbances' = Disturbances /\ element' = element
  BY DEF Publish, Command, PrintChar, Delay, Check, BeginCall, device, Answer, Disturbances
<1>3. CASE Publish
  <2>1. Step = "done" /\ Step' = "temperature" /\ UNCHANGED <<packet, verdict, cmd>>
    BY <1>3, PublishFacts DEF Publish, Step
  <2> QED
    BY <1>0, <1>2, <2>1 DEF AnswerInv, OldInv, PacketInv, Zero, WakeAnswer, None
<1>4. CASE Command
  <2>1. Step = "done" /\ Step' = "wake" /\ verdict' = "none"
    <3>1. job' # <<>> /\ Head(job') = "wake"
      BY <1>4, FirstFrom, FromFacts, Steps DEF Command
    <3> QED
      BY <1>4, <3>1 DEF Command, Step
  <2> QED
    BY <1>0, <1>2, <2>1 DEF AnswerInv, OldInv, PacketInv
<1>5. CASE PrintChar
  <2>1. /\ job # <<>> /\ Step = "print" /\ job' = Tail(job) /\ publishes' = publishes
        /\ printed' = IF Step = "print" THEN printed + 1 ELSE printed
        /\ UNCHANGED <<packet, verdict, cmd>>
    BY <1>5 DEF PrintChar, Step
  <2>2. Step' \in {"print", "done"}
    BY <1>0, <2>1, NextStep
  <2> QED
    BY <1>0, <1>2, <2>1, <2>2 DEF AnswerInv, OldInv, PacketInv, Zero, WakeAnswer, None
<1>6. CASE Delay
  <2>1. /\ job # <<>> /\ Step = "delay" /\ job' = Tail(job) /\ publishes' = publishes
        /\ printed' = IF Step = "print" THEN printed + 1 ELSE printed
        /\ UNCHANGED <<packet, verdict, cmd, ipc, output>>
    BY <1>6 DEF Delay, Ready, Step, i2cVars, device
  <2>2. Step' = "receive"
    BY <1>0, <2>1, NextStep
  <2>3. ipc' = "none"
    BY <2>1, CallIsStep, CallNames
  <2>4. Old' = Old
    BY <2>1 DEF Old, Answer
  <2> QED
    BY <1>0, <1>2, <2>1, <2>2, <2>3, <2>4
    DEF AnswerInv, OldInv, PacketInv, Zero, WakeAnswer, None
<1>7. CASE Check
  <2>1. /\ job # <<>> /\ Step = "check" /\ job' = Tail(job) /\ publishes' = publishes
        /\ printed' = IF Step = "print" THEN printed + 1 ELSE printed
        /\ UNCHANGED <<packet, cmd, ipc>> /\ verdict' \in Verdicts
    BY <1>7 DEF Check, Ready, Step, i2cVars
  <2>2. Step' = "idle"
    BY <1>0, <2>1, NextStep
  <2>3. Smooth'
    BY <2>1, CallIsStep, CallNames DEF Smooth, Opening
  <2>4. verdict' = "accepted" => packet = Zero \/ packet \notin {None, WakeAnswer}
    BY <2>1 DEF Verdicts
  <2> QED
    BY <1>0, <1>2, <2>1, <2>2, <2>3, <2>4
    DEF AnswerInv, OldInv, PacketInv, Zero, WakeAnswer, None
<1>8. CASE BeginCall
  <2>1. /\ job # <<>> /\ Step \in DOMAIN Calls /\ UNCHANGED <<output, cmd, verdict>>
        /\ packet' = IF Step = "receive" THEN Zero ELSE packet
        /\ ipc' = "open"
    BY <1>8 DEF BeginCall, Ready, Call, Step, Memset, device
  <2>2. Step' = Step
    BY <1>0, <1>8, JobStays DEF BeginCall
  <2>3. Smooth' /\ Old' = Old
    BY <2>1 DEF Smooth, Opening, Old, Answer
  <2>4. OldInv'
    BY <1>0, <1>2, <2>2, <2>3 DEF OldInv
  <2>5. PacketInv'
    BY <1>0, <1>2, <2>1, <2>2, CallNames DEF PacketInv, Zero, WakeAnswer, None
  <2> QED
    BY <1>0, <1>2, <2>4, <2>5 DEF AnswerInv
<1> QED
  BY <1>3, <1>4, <1>5, <1>6, <1>7, <1>8

(* The calls to the element that an old answer may live through.           *)
LEMMA ElementCalls ==
  ASSUME Inv, ipc # "none", Step \in {"verify", "send", "idle"}
  PROVE  /\ call.dev = "element"
         /\ Step = "verify" => call.out = 0
         /\ Step # "verify" => call.in = 0 /\ call = Calls[Step]
<1>1. call = Calls[Step]
  BY CallIsStep
<1>2. CASE Step = "verify"
  BY <1>1, <1>2, CallValues
<1>3. CASE Step = "send"
  BY <1>1, <1>3, CallValues
<1>4. CASE Step = "idle"
  BY <1>1, <1>4, CallValues
<1> QED
  BY <1>2, <1>3, <1>4

(* The wire and the devices.                                               *)
LEMMA WireAnswer ==
  ASSUME Inv, AnswerInv, Wire
  PROVE  AnswerInv'
<1>0. OldInv /\ PacketInv /\ JobInv /\ ProgramTypes /\ DriverInv
  BY DEF AnswerInv, Inv
<1>1. /\ m.job \in Live /\ UNCHANGED <<cmd, packet, verdict, ipc, call, faults, refusals, job>>
      /\ Step' = Step
  BY <1>0, JobStays DEF Wire, Complete, Live, program
<1>2. ipc \in Moving /\ OnWire /\ Active /\ m \in Master
  BY <1>0, <1>1, LiveIsActive DEF DriverInv, I2cTypeOK
<1>3. CASE UNCHANGED device
  <2>1. m'.got = m.got
    BY <1>2 DEF Wire, Complete, Master
  <2>2. ASSUME Answer, Step \in {"verify", "send", "idle"}, Smooth
        PROVE  Smooth'
    <3>1. Acknowledges
      BY <1>2, <2>2, ElementCalls DEF AnswerInv, Acknowledges, Moving
    <3>2. Complete(TRUE, FALSE)
      BY <3>1 DEF Wire
    <3>3. ASSUME m.job = "byteW", m.state = "TX_EMPTY"
          PROVE  FALSE
      <4>1. CASE Step = "verify"
        <5>1. call.out = 0
          BY <1>2, <4>1, ElementCalls DEF Moving
        <5> QED
          BY <1>2, <3>3, <5>1 DEF Active, Writing, Reading, Misled
      <4>2. CASE Step \in {"send", "idle"}
        <5>1. call = Calls[Step] /\ call.dev = "element"
          BY <1>2, <4>2, ElementCalls DEF Moving
        <5>2. element' \in {"busy", "asleep"}
          <6>1. CASE Step = "send"
            BY <3>3, <5>1, <6>1 DEF Wire, DeviceTakes
          <6>2. CASE Step = "idle"
            <7>1. call # Calls["send"]
              BY <5>1, <6>2, SendIsSend, CallNames
            <7> QED
              BY <3>3, <5>1, <6>2, <7>1 DEF Wire, DeviceTakes
          <6> QED
            BY <4>2, <6>1, <6>2
        <5> QED
          BY <1>3, <2>2, <5>2 DEF device, AnswerInv
      <4> QED
        BY <2>2, <4>1, <4>2
    <3> QED
      BY <1>0, <2>2, <3>2, <3>3, SmoothCompletes
  <2>3. Disturbances' = Disturbances /\ Disturbances \in Nat
    BY <1>0, <1>1 DEF Disturbances, ProgramTypes
  <2>4. Disturbances' \in Nat /\ Disturbances' >= Disturbances
    BY <2>3
  <2>5. UNCHANGED <<element, output, cmd, packet, verdict>>
    BY <1>1, <1>3 DEF device
  <2> QED
    BY <1>1, <2>1, <2>2, <2>4, <2>5, AnswerStays
<1>4. CASE ~UNCHANGED device
  <2>1. output' \in {WakeAnswer, None}
    BY <1>4 DEF Wire, DeviceTakes
  <2>2. ~Answer'
    BY <2>1, Bounds DEF Answer, WakeAnswer, None
  <2>3. ~Old'
    BY <2>2 DEF Old
  <2>4. PacketInv'
    BY <1>0, <1>1 DEF PacketInv, Disturbances, Zero, WakeAnswer, None
  <2> QED
    BY <2>2, <2>3, <2>4 DEF AnswerInv, OldInv
<1> QED
  BY <1>3, <1>4

LEMMA ExecuteAnswer ==
  ASSUME Inv, AnswerInv, Execute
  PROVE  AnswerInv'
<1>1. /\ element = "busy" /\ element' = "awake" /\ output' = cmd
      /\ UNCHANGED <<cmd, packet, verdict, ipc, faults, refusals>>
      /\ Step' = Step /\ Step \in {"send", "delay"}
  BY JobStays DEF Execute, Inv, Commanded, program, i2cVars
<1>2. ~Old'
  BY <1>1 DEF Old
<1>3. OldInv'
  BY <1>1, <1>2 DEF OldInv
<1>4. PacketInv'
  BY <1>1 DEF AnswerInv, PacketInv, Disturbances, Zero, WakeAnswer, None
<1> QED
  BY <1>1, <1>3, <1>4 DEF AnswerInv

LEMMA DisturbAnswer ==
  ASSUME Inv, AnswerInv, Refuse \/ BusFault
  PROVE  AnswerInv'
<1>1. /\ UNCHANGED <<element, output, cmd, packet, verdict, ipc>> /\ Step' = Step
  BY JobStays DEF Refuse, BusFault, Complete, Fault, Inv, program, device
<1>2. Disturbances \in Nat /\ Disturbances' = Disturbances + 1
  <2>1. faults \in Nat /\ refusals \in Nat
    BY DEF Inv, ProgramTypes
  <2>2. CASE Refuse
    BY <2>1, <2>2 DEF Refuse, Disturbances
  <2>3. CASE BusFault
    BY <2>1, <2>3 DEF BusFault, Disturbances
  <2> QED
    BY <2>2, <2>3
<1>3. Disturbances' \in Nat /\ Disturbances' >= Disturbances /\ Disturbances' > Disturbances
  BY <1>2
<1> QED
  BY <1>1, <1>3, AnswerStays

LEMMA QuietAnswer ==
  ASSUME Inv, AnswerInv,
         \/ WriteStep /\ UNCHANGED <<i2cVars, program, device, faults, refusals>>
         \/ CallStep /\ UNCHANGED <<serialVars, program, device, faults, refusals>>
         \/ Interrupts \/ Line \/ UNCHANGED vars
  PROVE  AnswerInv'
<1>1. /\ UNCHANGED <<element, output, cmd, packet, verdict, faults, refusals>>
      /\ Step' = Step
  BY JobStays DEF Interrupts, Line, Inv, program, device, vars
<1>2. Disturbances' = Disturbances /\ Disturbances \in Nat
  BY <1>1 DEF Disturbances, Inv, ProgramTypes
<1>3. Disturbances' \in Nat /\ Disturbances' >= Disturbances
  BY <1>2
<1>4. DriverInv /\ m \in Master
  BY DEF Inv, DriverInv, I2cTypeOK
<1>5. CASE UNCHANGED <<m, ipc>>
  <2>1. Smooth' = Smooth
    BY <1>5 DEF Smooth
  <2>2. ipc' = ipc /\ m'.got = m.got
    BY <1>5
  <2> QED
    BY <1>1, <1>3, <2>1, <2>2, AnswerStays
<1>6. CASE CallStep
  <2>1. (Smooth => Smooth') /\ m'.got = m.got
    BY <1>4, <1>6, SmoothCall
  <2>2. ipc # "none"
    BY <1>6 DEF CallStep, Open, Setup, Start, CheckBus, Close
  <2> QED
    BY <1>1, <1>3, <2>1, <2>2, AnswerStays
<1>7. CASE TwiIsr
  <2>1. m.got > 0 => m'.got > 0
    BY <1>4, <1>7, GotKept
  <2>2. ipc' = ipc /\ ipc \in Moving /\ Active
    BY <1>4, <1>7, FlagIsActive DEF TwiIsr, DriverInv
  <2>3. ASSUME Answer, Step \in {"verify", "send", "idle"}, Smooth
        PROVE  Smooth' \/ (Step = "verify" /\ m'.got > 0)
    <3>1. Smooth' \/ (m.state = "RX" /\ m'.got > 0)
      BY <1>4, <1>7, <2>3, SmoothIsr
    <3>2. ASSUME m.state = "RX", Step # "verify"
          PROVE  FALSE
      <4>1. call.in = 0
        BY <2>2, <2>3, <3>2, ElementCalls DEF Moving
      <4>2. Reading /\ m.got \in 0 .. 2 /\ m.left \in 0 .. 2
        BY <1>4, <2>2, <3>2 DEF Active, Writing, Misled, Master
      <4> QED
        BY <4>1, <4>2 DEF Reading
    <3> QED
      BY <3>1, <3>2
  <2> QED
    BY <1>1, <1>3, <2>1, <2>2, <2>3, AnswerStays
<1> QED
  BY <1>5, <1>6, <1>7 DEF Interrupts, Line, vars, i2cVars

(* Two disturbances of the bus cannot pass the answer to an older command  *)
(* off for that to the command just given.                                 *)
THEOREM AcceptedAnswerIsOwn == Spec => []AcceptedIsOwn
<1>1. Init => AnswerInv
  BY Bounds DEF Init, AnswerInv, OldInv, PacketInv, Answer, Old, Step, None
<1>2. Inv /\ AnswerInv /\ [Next]_vars => AnswerInv'
  BY ReturnAnswer, StepAnswer, WireAnswer, ExecuteAnswer, DisturbAnswer, QuietAnswer
  DEF Next, Superloop
<1>3. Inv /\ AnswerInv => AcceptedIsOwn
  <2> SUFFICES ASSUME Inv, AnswerInv, verdict = "accepted", faults + refusals <= 2
               PROVE  packet \in {Zero, cmd}
    BY DEF AcceptedIsOwn
  <2>1. ~(Disturbances >= 3)
    BY DEF Disturbances, Inv, ProgramTypes
  <2> QED
    BY <2>1 DEF AnswerInv, PacketInv
<1> QED
  BY <1>1, <1>2, <1>3, Invariance, PTL DEF Spec
-----------------------------------------------------------------------------
(* A call ends                                                             *)

(* I2C_0_close is polled until the transfer is over: while the driver is   *)
(* busy, the wire or the interrupt has something to end, or a fault was    *)
(* cleared before the handler saw it.                                      *)
CloseIsWoken ==
  ipc \in Moving /\ m.busy =>
    \/ m.job \in Live \/ (m.flag /\ m.ien)
    \/ m.job = "dead" /\ faults > 0

(* I2C_0_close: the superloop never polls for an interrupt that cannot     *)
(* come, unless a fault of the bus was hidden from the handler.            *)
THEOREM CloseNeverStuck == Spec => []CloseIsWoken
<1>1. Inv => CloseIsWoken
  BY DEF Inv, DriverInv, I2cInv, CloseIsWoken, Active, OnWire, Flagged, Over, Dead
<1> QED
  BY <1>1, Invariance, PTL

(* The interrupts that a transfer has still to come, this one included:    *)
(* one for each byte and for the address of a repeated start,              *)
Restart == IF m.onData = "restart_read" THEN call.in ELSE 0
Turns ==
  CASE m.state = "TX"       -> m.left + 1 + Restart
    [] m.state = "TX_EMPTY" -> 1 + Restart
    [] OTHER                -> m.left

(* and what moves it: the end of each byte on the wire, and the interrupt. *)
Moves ==
  IF m.flag THEN 2 * Turns - 1 ELSE IF m.job \in Live THEN 2 * Turns ELSE 0

(* An address that was refused, and is sent again.                         *)
PollsAgain == m.flag /\ m.nackCheck /\ m.rxack /\ call.poll

(* While a transfer runs, each of its moves leaves fewer of them to come,  *)
(* but those that poll a device that refuses its address.                  *)
TransferAdvances ==
  ipc \in Moving /\ ipc' \in Moving /\ ~PollsAgain =>
    \/ UNCHANGED <<m.flag, m.job>>
    \/ Moves \in Nat /\ Moves' \in Nat /\ Moves' < Moves
TransfersEnd == [][TransferAdvances]_vars

LEMMA TurnsAre ==
  ASSUME DriverInv, Active
  PROVE  /\ Turns \in Nat /\ Turns > 0 /\ Restart \in Nat
         /\ m.state = "TX" => Turns = m.left + 1 + Restart
         /\ m.state = "TX_EMPTY" => Turns = 1 + Restart
         /\ m.state = "RX" => Turns = m.left
<1>1. m.left \in 0 .. 2 /\ call.in \in 0 .. 2 /\ m.state \in {"TX", "TX_EMPTY", "RX"}
  BY CallShapes DEF DriverInv, I2cTypeOK, Master, Active, Writing, Reading, Misled
<1>2. m.state = "RX" => m.left > 0
  BY DEF Active, Writing, Reading, Misled
<1>3. Restart \in Nat
  BY <1>1 DEF Restart
<1>4. CASE m.state = "TX"
  BY <1>1, <1>3, <1>4 DEF Turns
<1>5. CASE m.state = "TX_EMPTY"
  BY <1>1, <1>3, <1>5 DEF Turns
<1>6. CASE m.state = "RX"
  BY <1>1, <1>2, <1>3, <1>6 DEF Turns
<1> QED BY <1>1, <1>4, <1>5, <1>6

LEMMA MovesAre ==
  DriverInv => /\ Moves \in Nat
               /\ m.flag => Moves = 2 * Turns - 1 /\ Moves > 0
               /\ ~m.flag /\ m.job \in Live => Moves = 2 * Turns /\ Moves > 0
               /\ ~m.flag /\ m.job \notin Live => Moves = 0
<1> SUFFICES ASSUME DriverInv
             PROVE  /\ Moves \in Nat
                    /\ m.flag => Moves = 2 * Turns - 1 /\ Moves > 0
                    /\ ~m.flag /\ m.job \in Live => Moves = 2 * Turns /\ Moves > 0
                    /\ ~m.flag /\ m.job \notin Live => Moves = 0
  OBVIOUS
<1>1. m.flag \/ m.job \in Live => Turns \in Nat /\ Turns > 0
  BY TurnsAre, FlagIsActive, LiveIsActive DEF DriverInv
<1> QED BY <1>1 DEF Moves

LEMMA MovesNext ==
  (DriverInv => /\ Moves \in Nat
                /\ m.flag => Moves = 2 * Turns - 1 /\ Moves > 0
                /\ ~m.flag /\ m.job \in Live => Moves = 2 * Turns /\ Moves > 0
                /\ ~m.flag /\ m.job \notin Live => Moves = 0)'
  BY MovesAre, PTL

LEMMA LiveTurns == DriverInv /\ m.job \in Live => Turns \in Nat
  BY TurnsAre, LiveIsActive DEF DriverInv

LEMMA LiveTurnsNext == (DriverInv /\ m.job \in Live => Turns \in Nat)'
  BY LiveTurns, PTL

(* The end of a byte leaves its interrupt.                                 *)
LEMMA WireMoves ==
  ASSUME DriverInv, DriverInv', m.job \in Live, UNCHANGED call,
         NEW acked, NEW refused, NEW fault,
         m' = [m EXCEPT !.flag = TRUE, !.rxack = acked, !.job = "none", !.refused = refused,
                        !.fault = fault]
  PROVE  Moves' < Moves
<1>1. m \in Master /\ ~m.flag
  BY LiveIsActive DEF DriverInv, I2cTypeOK, OnWire
<1>2. m'.flag /\ m'.state = m.state /\ m'.left = m.left /\ m'.onData = m.onData
  BY <1>1 DEF Master
<1>3. Turns' = Turns
  BY <1>2 DEF Turns, Restart
<1>4. Turns \in Nat
  BY TurnsAre, LiveIsActive DEF DriverInv
<1>5. Moves = 2 * Turns /\ Moves' = 2 * Turns' - 1
  BY <1>1, <1>2, MovesAre, MovesNext
<1> QED BY <1>3, <1>4, <1>5

(* A transfer that is given up has nothing to come.                        *)
LEMMA Parks ==
  ASSUME NEW t \in Master, NEW st \in States, NEW e \in {"NOERR", "FAIL"}, ~t.flag,
         NEW hidden \in BOOLEAN, NEW a, a = Park(t, st, e),
         m' = IF hidden /\ a.job # "none" THEN [a EXCEPT !.job = "dead"] ELSE a
  PROVE  ~m'.flag /\ m'.job \notin Live
<1>1. a.job = "none" /\ ~a.flag
  BY DEF Park, Master
<1>2. m' = a
  BY <1>1
<1> QED BY <1>1, <1>2 DEF Live

(* The interrupt leaves a byte or an address less.                         *)
LEMMA IsrMoves ==
  ASSUME DriverInv, DriverInv', TwiIsr, ~PollsAgain
  PROVE  Moves' < Moves
<1>1. PICK seen \in BOOLEAN : m' = MasterIsr(m, seen)
  BY DEF TwiIsr
<1> DEFINE fault == IF seen THEN m.fault ELSE "none"
           s == [m EXCEPT !.flag = FALSE, !.fault = "none"]
           a == FsmStateTable(s, Override(m, fault))
           hidden == m.fault # fault
<1>2. m' = IF hidden /\ a.job # "none" THEN [a EXCEPT !.job = "dead"] ELSE a
  BY <1>1, SMT DEF MasterIsr
<1>3. m.flag /\ m \in Master /\ UNCHANGED <<ipc, call>> /\ m' \in Master
  BY DEF TwiIsr, DriverInv, I2cTypeOK
<1>4. Active /\ ~m.bufferFree /\ m.onNack = OnNack /\ m.left \in 0 .. 2
  BY <1>3, FlagIsActive DEF DriverInv, Active, Master
<1>5. s \in Master /\ ~s.flag /\ s.nackCheck = m.nackCheck /\ s.rxack = m.rxack
      /\ s.state = m.state /\ s.onNack = m.onNack /\ s.onData = m.onData /\ s.left = m.left
      /\ s.bufferFree = m.bufferFree
  BY <1>3 DEF Master, Faults
<1> HIDE DEF s
<1> DEFINE stops == m'.job \notin Live
           fewer == Turns' < Turns
<1>6. ~m'.flag /\ (stops \/ fewer)
  <2>1. CASE fault # "none"
    <3>1. PICK t \in Master, st \in States, e \in {"NOERR", "FAIL"} :
            a = Park(t, st, e) /\ ~t.flag
      <4>1. CASE fault = "BUSERR"
        <5>1. a = Park(s, "RESET", "FAIL")
          BY <4>1, OverrideIs, TableIs DEF BusError
        <5> QED BY <1>5, <5>1 DEF States
      <4>2. CASE fault = "ARBLOST"
        <5>1. a = Park([s EXCEPT !.error = "FAIL"], "RESET", "NOERR")
          BY <4>2, OverrideIs, TableIs DEF BusCollision, Reset
        <5>2. [s EXCEPT !.error = "FAIL"] \in Master /\ ~[s EXCEPT !.error = "FAIL"].flag
          BY <1>5 DEF Master
        <5> QED BY <5>1, <5>2 DEF States
      <4> QED BY <1>3, <2>1, <4>1, <4>2 DEF Master, Faults
    <3> QED BY <1>2, <3>1, Parks
  <2>2. CASE fault = "none" /\ m.nackCheck /\ m.rxack
    <3> DEFINE t == [s EXCEPT !.nackCheck = FALSE, !.error = "FAIL"]
    <3>1. t \in Master /\ ~t.flag
      BY <1>5 DEF Master
    <3>2. m.onNack # "restart_write"
      BY <1>3, <1>4, <2>2 DEF PollsAgain, OnNack
    <3>3. a = Park(t, "IDLE", "NOERR")
      BY <1>5, <2>2, <3>2, OverrideIs, TableIs DEF AddressNack, SendStop, Idle
    <3> HIDE DEF t
    <3> QED BY <1>2, <3>1, <3>3, Parks DEF States
  <2> DEFINE runs == fault = "none" /\ ~(m.nackCheck /\ m.rxack)
  <2>3. CASE runs /\ m.state = "TX"
    <3>1. a = Tx(s)
      BY <2>3, OverrideIs, TableIs
    <3>2. CASE m.rxack
      <4>1. a = Park(s, "IDLE", "NOERR")
        BY <1>5, <3>1, <3>2 DEF Tx, SendStop, Idle
      <4> QED BY <1>2, <1>5, <4>1, Parks DEF States
    <3>3. CASE ~m.rxack
      <4> DEFINE left == m.left - 1
                 state == IF m.left > 1 THEN "TX" ELSE "TX_EMPTY"
      <4>1. /\ ~a.flag /\ a.state = state /\ a.left = left /\ a.onData = m.onData
            /\ [a EXCEPT !.job = "dead"].job = "dead" /\ ~[a EXCEPT !.job = "dead"].flag
        <5>1. a = [s EXCEPT !.nackCheck = FALSE, !.job = "byteW", !.left = left,
                            !.state = state,
                            !.sent = IF s.ptr = "out" THEN s.sent + 1 ELSE s.sent,
                            !.strange = s.strange \/ s.ptr = "in"]
          BY <1>5, <3>1, <3>3 DEF Tx, Master
        <5> HIDE DEF left, state, a
        <5> QED BY <1>5, <5>1 DEF Master
      <4>2. CASE m' = a
        <5>1. m'.state = state /\ m'.left = left /\ m'.onData = m.onData /\ ~m'.flag
          BY <4>1, <4>2
        <5>2. Restart' = Restart
          BY <1>3, <5>1 DEF Restart
        <5>3. m.left > 0 /\ Turns = m.left + 1 + Restart /\ Restart \in Nat
          BY <1>4, <2>3, TurnsAre DEF Active, Writing, Reading, Misled
        <5>4. Turns' = m.left + Restart
          <6>1. CASE m.left > 1
            BY <1>4, <5>1, <5>2, <5>3, <6>1 DEF Turns
          <6>2. CASE ~(m.left > 1)
            BY <1>4, <5>1, <5>2, <5>3, <6>2 DEF Turns
          <6> QED BY <6>1, <6>2
        <5> QED BY <1>4, <5>1, <5>3, <5>4
      <4>3. CASE m' = [a EXCEPT !.job = "dead"]
        BY <4>1, <4>3 DEF Live
      <4> QED BY <1>2, <4>2, <4>3
    <3> QED BY <3>2, <3>3
  <2>4. CASE runs /\ m.state = "TX_EMPTY"
    <3>1. a = TxEmpty(s)
      BY <2>4, OverrideIs, TableIs
    <3>2. CASE m.rxack
      <4>1. a = Park(s, "IDLE", "NOERR")
        BY <1>5, <3>1, <3>2 DEF TxEmpty, SendStop, Idle
      <4> QED BY <1>2, <1>5, <4>1, Parks DEF States
    <3>3. CASE ~m.rxack /\ m.onData = "restart_read"
      <4>1. a = [s EXCEPT !.bufferFree = FALSE, !.ptr = "in", !.left = call.in,
                          !.onData = "stop", !.nackCheck = TRUE, !.job = "adrR", !.state = "RX"]
        BY <1>5, <3>1, <3>3, ZenonT(60) DEF TxEmpty, SetBuffer, SendAdrRead, Master
      <4>2. /\ ~a.flag /\ a.state = "RX" /\ a.left = call.in
            /\ [a EXCEPT !.job = "dead"].job = "dead" /\ ~[a EXCEPT !.job = "dead"].flag
        BY <1>5, <4>1 DEF Master
      <4>3. CASE m' = a
        <5>1. Turns' = call.in
          BY <1>3, <4>2, <4>3 DEF Turns
        <5>2. Turns = 1 + call.in /\ call.in \in 0 .. 2
          BY <1>4, <2>4, <3>3, TurnsAre, CallShapes DEF DriverInv, Restart
        <5> QED BY <4>2, <4>3, <5>1, <5>2
      <4>4. CASE m' = [a EXCEPT !.job = "dead"]
        BY <4>2, <4>4 DEF Live
      <4> QED BY <1>2, <4>3, <4>4
    <3>4. CASE ~m.rxack /\ m.onData # "restart_read"
      <4> DEFINE t == [s EXCEPT !.bufferFree = TRUE]
      <4>1. t \in Master /\ ~t.flag
        BY <1>5 DEF Master
      <4>2. a = Park(t, "IDLE", "NOERR")
        BY <1>5, <3>1, <3>4 DEF TxEmpty, SendStop, Idle
      <4> HIDE DEF t
      <4> QED BY <1>2, <4>1, <4>2, Parks DEF States
    <3> QED BY <3>2, <3>3, <3>4
  <2>5. CASE runs /\ m.state = "RX"
    <3> DEFINE left == m.left - 1
               got == m.got + 1
               n == [s EXCEPT !.nackCheck = FALSE, !.left = left, !.got = got]
    <3>1. a = Rx(s)
      BY <2>5, OverrideIs, TableIs
    <3>2. s.got = m.got /\ m.got \in 0 .. 2 /\ m.left > 0 /\ m.got + m.left = call.in
          /\ call.in \in 0 .. 2
      BY <1>3, <1>4, <1>5, <2>5, CallShapes DEF Active, Writing, Reading, Misled, Master, DriverInv, s
    <3>3. a = IF left > 0 THEN [n EXCEPT !.job = "byteR", !.state = "RX"]
                          ELSE Park([n EXCEPT !.bufferFree = TRUE], "IDLE", "NOERR")
      BY <1>5, <3>1, <3>2 DEF Rx, Idle, Master
    <3>4. left \in 0 .. 2 /\ got \in 0 .. 2
      BY <1>4, <3>2
    <3>5. left < m.left
      BY <1>4
    <3> HIDE DEF left, got
    <3>6. CASE left > 0
      <4>1. /\ ~a.flag /\ a.state = "RX" /\ a.left = left
            /\ [a EXCEPT !.job = "dead"].job = "dead" /\ ~[a EXCEPT !.job = "dead"].flag
        BY <1>5, <3>3, <3>6 DEF Master
      <4>2. CASE m' = a
        <5>1. Turns' = left
          BY <4>1, <4>2 DEF Turns
        <5>2. Turns = m.left
          BY <1>4, <2>5, TurnsAre
        <5> QED BY <3>5, <4>1, <4>2, <5>1, <5>2
      <4>3. CASE m' = [a EXCEPT !.job = "dead"]
        BY <4>1, <4>3 DEF Live
      <4> QED BY <1>2, <4>2, <4>3
    <3>7. CASE ~(left > 0)
      <4> DEFINE t == [n EXCEPT !.bufferFree = TRUE]
      <4>1. a = Park(t, "IDLE", "NOERR")
        BY <3>3, <3>7
      <4>2. t \in Master /\ ~t.flag
        BY <1>5, <3>4, ZenonT(60) DEF Master
      <4> HIDE DEF t
      <4> QED BY <1>2, <4>1, <4>2, Parks DEF States
    <3> QED BY <3>6, <3>7
  <2>6. m.state \in {"TX", "TX_EMPTY", "RX"}
    BY <1>4 DEF Active, Writing, Reading, Misled
  <2> QED BY <2>1, <2>2, <2>3, <2>4, <2>5, <2>6
<1>7. Turns \in Nat /\ Turns > 0 /\ Moves = 2 * Turns - 1
  BY <1>3, <1>4, TurnsAre, MovesAre
<1>8. CASE stops
  BY <1>6, <1>7, <1>8, MovesNext
<1>9. CASE ~stops /\ fewer
  <2>1. Moves' = 2 * Turns' /\ Turns' \in Nat
    BY <1>6, <1>9, MovesNext, LiveTurnsNext
  <2>2. Turns' < Turns
    BY <1>9
  <2>3. \A x, y \in Nat : y < x => 2 * y < 2 * x - 1
    OBVIOUS
  <2> QED BY <1>7, <2>1, <2>2, <2>3
<1> QED BY <1>6, <1>8, <1>9

(* I2C_0_master_isr: a transfer ends after finitely many bytes and         *)
(* interrupts, whatever the devices answer and whatever fails, unless a    *)
(* device that is polled goes on to refuse its address.                    *)
THEOREM TransferEnds == Spec => TransfersEnd
<1>1. Inv /\ Inv' /\ [Next]_vars => [TransferAdvances]_vars
  <2> SUFFICES ASSUME Inv, Inv', Next, ipc \in Moving, ipc' \in Moving, ~PollsAgain
               PROVE  \/ UNCHANGED <<m.flag, m.job>>
                      \/ Moves \in Nat /\ Moves' \in Nat /\ Moves' < Moves
    BY DEF TransferAdvances
  <2>0. DriverInv /\ DriverInv' /\ m \in Master
    BY DEF Inv, DriverInv, I2cTypeOK
  <2>1. Moves \in Nat /\ Moves' \in Nat
    BY <2>0, MovesAre, MovesNext
  <2>2. CASE Publish \/ Command \/ PrintChar \/ Delay \/ Check \/ BeginCall \/ Return
    BY <2>2 DEF Publish, Command, PrintChar, Delay, Check, BeginCall, Return, i2cVars, Call, Moving
  <2>3. CASE WriteStep /\ UNCHANGED <<i2cVars, program, device, faults, refusals>>
    BY <2>3 DEF i2cVars
  <2>4. CASE CallStep
    BY <2>0, <2>4 DEF CallStep, Open, Setup, Start, CheckBus, Close, Moving, Master
  <2>5. CASE Interrupts
    BY <2>0, <2>1, <2>5, IsrMoves DEF Interrupts, i2cVars
  <2>6. CASE Line \/ Execute
    BY <2>6 DEF Line, Execute, i2cVars
  <2>7. CASE Wire \/ Refuse
    <3>1. PICK refuse \in BOOLEAN :
            m' = [m EXCEPT !.flag = TRUE, !.rxack = refuse, !.job = "none",
                           !.refused = @ \/ refuse]
      BY <2>7 DEF Wire, Refuse, Complete
    <3>2. m.job \in Live /\ UNCHANGED call
      BY <2>7 DEF Wire, Refuse, Complete, Live
    <3>3. m' = [m EXCEPT !.flag = TRUE, !.rxack = refuse, !.job = "none",
                         !.refused = m.refused \/ refuse, !.fault = m.fault]
      BY <2>0, <3>1 DEF Master
    <3> QED BY <2>0, <2>1, <3>2, <3>3, WireMoves
  <2>8. CASE BusFault
    <3>1. PICK f \in Faults, refuse \in BOOLEAN :
            m' = [m EXCEPT !.flag = TRUE, !.rxack = refuse, !.job = "none", !.fault = f,
                           !.refused = @ \/ refuse]
      BY <2>8 DEF BusFault, Fault
    <3>2. m.job \in Live /\ UNCHANGED call
      BY <2>8 DEF BusFault, Fault, Live
    <3>3. m' = [m EXCEPT !.flag = TRUE, !.rxack = refuse, !.job = "none",
                         !.refused = m.refused \/ refuse, !.fault = f]
      BY <2>0, <3>1 DEF Master
    <3> QED BY <2>0, <2>1, <3>2, <3>3, WireMoves
  <2> QED
    BY <2>2, <2>3, <2>4, <2>5, <2>6, <2>7, <2>8 DEF Next, Superloop
<1> QED BY <1>1, Invariance, PTL DEF Spec, TransfersEnd

====
