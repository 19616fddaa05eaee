------------------------------ MODULE I2cMaster ------------------------------
(***************************************************************************)
(* The I2C driver (src/i2c_master.c) and the calls made with it            *)
(* (src/i2c_simple_master.c): the caller opens the bus, gives a buffer of  *)
(* its stack to the driver, starts the transfer and polls I2C_0_close; the *)
(* interrupt of the TWI moves a state machine byte by byte.                *)
(*                                                                         *)
(* Atomicity: the interrupt runs to its end; the caller's steps are split  *)
(* where the interrupt can come between.  What the devices answer is left  *)
(* to the module that connects them.                                       *)
(***************************************************************************)
EXTENDS Naturals

VARIABLES
  m,     \* I2C_0_status, the registers of TWI0 and what the wire carried
  ipc,   \* the next step of the call
  call   \* the call: its device, bytes to write and to read, NACK polling

i2cVars == <<m, ipc, call>>

States == {"IDLE", "TX", "RX", "TX_EMPTY", "RESET"}  \* those between two interrupts
Faults == {"none", "ARBLOST", "BUSERR"}

(* A call writes out bytes, then reads in bytes; one with both repeats the *)
(* start in between.  Lengths are shortened to the fewest that differ.     *)
Calls ==
  [temperature |-> [dev |-> "sensor",  out |-> 1, in |-> 2, poll |-> TRUE],
   wake        |-> [dev |-> "general", out |-> 1, in |-> 0, poll |-> FALSE],
   verify      |-> [dev |-> "element", out |-> 0, in |-> 2, poll |-> FALSE],
   send        |-> [dev |-> "element", out |-> 2, in |-> 0, poll |-> TRUE],
   receive     |-> [dev |-> "element", out |-> 0, in |-> 2, poll |-> FALSE],
   idle        |-> [dev |-> "element", out |-> 1, in |-> 0, poll |-> TRUE]]

Master ==
  [inUse : BOOLEAN, busy : BOOLEAN, bufferFree : BOOLEAN, nackCheck : BOOLEAN,
   state : States, error : {"NOERR", "FAIL"}, ptr : {"out", "in"}, left : 0 .. 2,
   onData : {"stop", "restart_read"}, onNack : {"stop", "restart_write"},
   ien : BOOLEAN,           \* RIEN and WIEN
   flag : BOOLEAN,          \* RIF or WIF
   rxack : BOOLEAN,         \* RXACK: the device refused
   fault : Faults,
   job : {"none", "adrW", "adrR", "byteW", "byteR", "dead"},  \* on the wire
   sent : 0 .. 2,           \* bytes of the out buffer put on the wire
   got : 0 .. 2,            \* bytes stored in the in buffer
   strange : BOOLEAN,       \* bytes of the in buffer were put on the wire
   refused : BOOLEAN]       \* RXACK was set after a start, a repeated start or a byte

I2cInit ==
  /\ m = [inUse |-> FALSE, busy |-> FALSE, bufferFree |-> FALSE, nackCheck |-> FALSE,
          state |-> "IDLE", error |-> "NOERR", ptr |-> "out", left |-> 0,
          onData |-> "stop", onNack |-> "stop", ien |-> TRUE, flag |-> FALSE,
          rxack |-> FALSE, fault |-> "none", job |-> "none", sent |-> 0, got |-> 0,
          strange |-> FALSE, refused |-> FALSE]
  /\ ipc = "none" /\ call = Calls["temperature"]

-----------------------------------------------------------------------------
(* The states of the driver: what each does to the status s.               *)

SetBuffer(s, buffer, length) ==
  IF s.bufferFree THEN [s EXCEPT !.ptr = buffer, !.left = length, !.bufferFree = FALSE]
                  ELSE s

SendAdrRead(s) == [s EXCEPT !.nackCheck = TRUE, !.job = "adrR", !.state = "RX"]
SendAdrWrite(s) == [s EXCEPT !.nackCheck = TRUE, !.job = "adrW", !.state = "TX"]

Park(s, state, error) ==
  [s EXCEPT !.busy = FALSE, !.error = error, !.job = "none", !.state = state]

(* Mutant of Reset: the bus stays busy.                                    *)
ResetKeepsBusy(s) == [s EXCEPT !.error = "NOERR", !.job = "none", !.state = "RESET"]

Idle(s) == Park(s, "IDLE", "NOERR")
Reset(s) == Park(s, "RESET", "NOERR")
SendStop(s) == Idle(s)
BusError(s) == Park(s, "RESET", "FAIL")
BusCollision(s) == Reset([s EXCEPT !.error = "FAIL"])

AddressNack(s) ==
  LET failed == [s EXCEPT !.nackCheck = FALSE, !.error = "FAIL"]
  IN  IF s.onNack = "restart_write" THEN SendAdrWrite(failed) ELSE SendStop(failed)

Tx(s) ==
  IF s.rxack
  THEN SendStop(s)
  ELSE [s EXCEPT !.nackCheck = FALSE, !.job = "byteW", !.left = @ - 1,
                 !.state = IF s.left > 1 THEN "TX" ELSE "TX_EMPTY",
                 !.sent = IF s.ptr = "out" THEN @ + 1 ELSE @,
                 !.strange = @ \/ s.ptr = "in"]

(* Mutant of TxEmpty: the result buffer is set while the old one is in use. *)
TxEmptyKeepsBuffer(s) ==
  IF s.rxack
  THEN SendStop(s)
  ELSE IF s.onData = "restart_read"
       THEN SendAdrRead([SetBuffer(s, "in", call.in) EXCEPT !.onData = "stop"])
       ELSE SendStop([s EXCEPT !.bufferFree = TRUE])

(* I2C_0_rd2RegCompleteHandler is the only callback set for the data.      *)
TxEmpty(s) ==
  LET free == [s EXCEPT !.bufferFree = TRUE]
  IN  IF s.rxack
      THEN SendStop(s)
      ELSE IF s.onData = "restart_read"
           THEN SendAdrRead([SetBuffer(free, "in", call.in) EXCEPT !.onData = "stop"])
           ELSE SendStop(free)

Rx(s) ==
  LET next == [s EXCEPT !.nackCheck = FALSE, !.left = @ - 1, !.got = @ + 1]
  IN  IF next.left > 0 THEN [next EXCEPT !.job = "byteR", !.state = "RX"]
                       ELSE Idle([next EXCEPT !.bufferFree = TRUE])

-----------------------------------------------------------------------------
(* I2C_0_master_isr.  Its first access writes back MSTATUS: an arbitration *)
(* loss or a bus error that is flagged by then is cleared before the       *)
(* handler looks at it, and the state machine goes on over a dead bus.     *)

Override(s, fault) ==
  CASE fault = "BUSERR"  -> "BUS_ERROR"
    [] fault = "ARBLOST" -> "BUS_COLLISION"
    [] OTHER -> IF s.nackCheck /\ s.rxack THEN "ADDRESS_NACK" ELSE s.state

FsmStateTable(s, state) ==
  CASE state = "IDLE"           -> Idle(s)
    [] state = "TX"             -> Tx(s)
    [] state = "RX"             -> Rx(s)
    [] state = "TX_EMPTY"       -> TxEmpty(s)
    [] state = "RESET"          -> Reset(s)
    [] state = "ADDRESS_NACK"   -> AddressNack(s)
    [] state = "BUS_COLLISION"  -> BusCollision(s)
    [] state = "BUS_ERROR"      -> BusError(s)

MasterIsr(s, seen) ==
  LET fault  == IF seen THEN s.fault ELSE "none"
      served == [s EXCEPT !.flag = FALSE, !.fault = "none"]
      after  == FsmStateTable(served, Override(s, fault))
  IN  IF s.fault # fault /\ after.job # "none" THEN [after EXCEPT !.job = "dead"] ELSE after

TwiIsr ==
  /\ m.flag /\ m.ien
  /\ \E seen \in BOOLEAN : m' = MasterIsr(m, seen)
  /\ UNCHANGED <<ipc, call>>

-----------------------------------------------------------------------------
(* The wire.  It ends what it carries; acks and nacks say what the device  *)
(* may answer.                                                             *)

Complete(ack, nack) ==
  /\ m.job \in {"adrW", "adrR", "byteW", "byteR"}
  /\ \E refuse \in {r \in BOOLEAN : IF r THEN nack ELSE ack} :
       m' = [m EXCEPT !.flag = TRUE, !.rxack = refuse, !.job = "none",
                      !.refused = @ \/ refuse]
  /\ UNCHANGED <<ipc, call>>

(* A fault ends it as well; RXACK may then say either.                     *)
Fault ==
  /\ m.job \in {"adrW", "adrR", "byteW", "byteR"}
  /\ \E f \in Faults \ {"none"}, refuse \in BOOLEAN :
       m' = [m EXCEPT !.flag = TRUE, !.rxack = refuse, !.job = "none", !.fault = f,
                      !.refused = @ \/ refuse]
  /\ UNCHANGED <<ipc, call>>

-----------------------------------------------------------------------------
(* The calls                                                               *)

Call(name) ==
  /\ ipc = "none"
  /\ ipc' = "open" /\ call' = Calls[name]
  /\ m' = [m EXCEPT !.sent = 0, !.got = 0, !.strange = FALSE, !.refused = FALSE]

(* while (!I2C_0_open(address)): I2C_NOERR is zero, so the bus is opened   *)
(* and the loop goes round once more, until I2C_0_open says I2C_BUSY.      *)
Open ==
  /\ ipc = "open"
  /\ IF m.inUse
     THEN ipc' = "setup" /\ UNCHANGED m
     ELSE /\ m' = [m EXCEPT !.busy = FALSE, !.inUse = TRUE, !.nackCheck = FALSE,
                            !.state = "RESET", !.bufferFree = TRUE, !.onData = "stop",
                            !.onNack = "stop", !.flag = FALSE, !.fault = "none",
                            !.job = "none", !.ien = TRUE]
          /\ UNCHANGED ipc
  /\ UNCHANGED call

(* Mutant of Setup: reads poll as well.                                    *)
SetupPolls ==
  /\ ipc = "setup"
  /\ ipc' = "start"
  /\ m' = [SetBuffer(m, IF call.out > 0 THEN "out" ELSE "in",
                        IF call.out > 0 THEN call.out ELSE call.in)
           EXCEPT !.onData = IF call.out > 0 /\ call.in > 0 THEN "restart_read" ELSE "stop",
                  !.onNack = "restart_write"]
  /\ UNCHANGED call

(* The callbacks and the buffer                                            *)
Setup ==
  /\ ipc = "setup"
  /\ ipc' = "start"
  /\ m' = [SetBuffer(m, IF call.out > 0 THEN "out" ELSE "in",
                        IF call.out > 0 THEN call.out ELSE call.in)
           EXCEPT !.onData = IF call.out > 0 /\ call.in > 0 THEN "restart_read" ELSE "stop",
                  !.onNack = IF call.poll THEN "restart_write" ELSE "stop"]
  /\ UNCHANGED call

(* I2C_0_master_operation runs the handler itself.  The next state is      *)
(* stored a few instructions after the address was written, long before    *)
(* the 90 microseconds of the address phase are over.                      *)
Start ==
  /\ ipc = "start"
  /\ LET s == [m EXCEPT !.busy = TRUE, !.flag = FALSE]
     IN  m' = IF call.out > 0 THEN SendAdrWrite(s) ELSE SendAdrRead(s)
  /\ ipc' = "poll"
  /\ UNCHANGED call

(* I2C_0_close: first the bus error, which the interrupt may clear before  *)
(* it is seen, then the busy flag.                                         *)
CheckBus ==
  /\ ipc = "poll"
  /\ m' = IF m.fault = "BUSERR" THEN [m EXCEPT !.busy = FALSE, !.error = "FAIL"] ELSE m
  /\ ipc' = "close"
  /\ UNCHANGED call

(* Mutants of Close: the interrupts stay enabled; the busy flag is ignored. *)
CloseEnabled ==
  /\ ipc = "close"
  /\ IF m.busy
     THEN ipc' = "poll" /\ UNCHANGED m
     ELSE /\ m' = [m EXCEPT !.inUse = FALSE, !.flag = FALSE, !.fault = "none"]
          /\ ipc' = "returned"
  /\ UNCHANGED call
CloseBusy ==
  /\ ipc = "close"
  /\ m' = [m EXCEPT !.inUse = FALSE, !.flag = FALSE, !.fault = "none", !.ien = FALSE]
  /\ ipc' = "returned"
  /\ UNCHANGED call

Close ==
  /\ ipc = "close"
  /\ IF m.busy
     THEN ipc' = "poll" /\ UNCHANGED m
     ELSE /\ m' = [m EXCEPT !.inUse = FALSE, !.flag = FALSE, !.fault = "none", !.ien = FALSE]
          /\ ipc' = "returned"
  /\ UNCHANGED call

CallStep == Open \/ Setup \/ Start \/ CheckBus \/ Close

-----------------------------------------------------------------------------
(* Properties                                                              *)

I2cTypeOK ==
  /\ m \in Master
  /\ ipc \in {"none", "open", "setup", "start", "poll", "close", "returned"}
  /\ call \in {Calls[name] : name \in DOMAIN Calls}

(* The interrupt stores bytes in a buffer of the caller's stack, or sends   *)
(* bytes from it, only while the call that owns the buffer runs.            *)
QuietOutsideCalls ==
  ipc \in {"none", "returned"} => ~m.inUse /\ (m.ien => m.state = "IDLE" /\ ~m.flag)

(* Bytes of a buffer that is to be read into are never written to a device, *)
(* unless it refused the repeated start of a register read.                 *)
WritesOwnBytes == m.strange => m.refused /\ call.in > 0 /\ call.out > 0
=============================================================================
