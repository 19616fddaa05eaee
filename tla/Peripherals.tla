----------------------------- MODULE Peripherals -----------------------------
(***************************************************************************)
(* What the superloop does with its peripherals: publishADC (main.c) reads *)
(* the temperature over I2C and prints a line on the serial port; a TLS    *)
(* request has the secure element (ATECC608) execute a command             *)
(* (atca_execute_command of CryptoAuthLib over hal_atmega4809_i2c.c).  All *)
(* calls block the superloop, while the interrupts of the I2C driver and   *)
(* of the serial port go on.                                               *)
(*                                                                         *)
(* The sensor answers, the element as its state has it: it sleeps until    *)
(* the wake token, refuses its address while it executes, and goes back to *)
(* sleep on the idle word.  A transfer may meet a fault of the bus, a      *)
(* device may refuse a byte, and the element may not wake.                 *)
(***************************************************************************)
EXTENDS SerialPort, I2cMaster

CONSTANTS
  PrintLength,   \* characters of the line publishADC prints
  MaxPublish,    \* calls of publishADC
  MaxCommands,   \* commands given to the element
  MaxFaults,     \* faults of the bus
  MaxRefusals    \* bytes refused for no reason, and wakes missed

ASSUME PeripheralBounds ==
  /\ {PrintLength, MaxPublish, MaxCommands, MaxFaults, MaxRefusals} \subseteq Nat
  /\ Chars = 1 .. PrintLength * MaxPublish
  /\ PrintLength > 0 /\ MaxPublish > 0

VARIABLES
  job,       \* what the superloop has left to do
  printed,   \* characters given to USART_0_write
  cmd,       \* the number of the command
  init_data, \* of hal_i2c_wake, or what the stack held there
  packet,    \* packet->data
  verdict,   \* what atca_execute_command made of it
  element,   \* the state of the element
  output,    \* its output buffer
  publishes, faults, refusals  \* counters

program == <<job, printed, cmd, init_data, packet, verdict, publishes>>
device == <<element, output>>
vars == <<serialVars, i2cVars, program, device, faults, refusals>>

(* What a buffer for an answer holds: zeros, the answer to a command (its  *)
(* number), the answer to the wake token, or none of these.                *)
Zero == 0
WakeAnswer == MaxCommands + 1
None == MaxCommands + 2
Outputs == 1 .. None

PrintLine == [i \in 1 .. PrintLength |-> "print"]
PublishADC == <<"temperature">> \o PrintLine
ExecuteCommand == <<"wake", "verify", "send", "delay", "receive", "check", "idle">>

Init ==
  /\ SerialInit /\ I2cInit
  /\ job = <<>> /\ printed = 0 /\ cmd = 0
  /\ init_data = None /\ packet = None /\ verdict = "none"
  /\ element = "asleep" /\ output = None
  /\ publishes = 0 /\ faults = 0 /\ refusals = 0

-----------------------------------------------------------------------------
(* The superloop                                                           *)

Publish ==
  /\ job = <<>> /\ publishes < MaxPublish
  /\ publishes' = publishes + 1
  /\ job' = PublishADC
  /\ UNCHANGED <<serialVars, i2cVars, printed, cmd, init_data, packet, verdict, device,
                 faults, refusals>>

Command ==
  /\ job = <<>> /\ cmd < MaxCommands
  /\ cmd' = cmd + 1 /\ verdict' = "none"
  /\ job' = ExecuteCommand
  /\ UNCHANGED <<serialVars, i2cVars, printed, init_data, packet, publishes, device,
                 faults, refusals>>

PrintChar ==
  /\ job # <<>> /\ Head(job) = "print"
  /\ Write(printed + 1)
  /\ printed' = printed + 1 /\ job' = Tail(job)
  /\ UNCHANGED <<i2cVars, cmd, init_data, packet, verdict, publishes, device, faults, refusals>>

(* printf and the calls after it begin when USART_0_write has returned.    *)
Ready == job # <<>> /\ wpc = "idle"

(* Mutant of Memset: the response buffer keeps what it held.               *)
MemsetNever == packet

(* packet->data is zeroed before the response is read.                     *)
Memset == Zero

BeginCall ==
  /\ Ready /\ Head(job) \in DOMAIN Calls
  /\ Call(Head(job))
  /\ packet' = IF Head(job) = "receive" THEN Memset ELSE packet
  /\ UNCHANGED <<serialVars, job, printed, cmd, init_data, verdict, publishes, device,
                 faults, refusals>>

(* hal_i2c_wake compares init_data, which a refused read leaves as it was  *)
(* on the stack, perhaps with the answer of an earlier wake.               *)
Verified(answer) ==
  IF answer = WakeAnswer THEN {Tail(job), <<"idle">>} \ (IF m.got > 0 THEN {<<"idle">>} ELSE {})
                         ELSE {<<"idle">>}

(* What a read leaves in its buffer: the whole answer, part of it, nothing. *)
Received(buffer) ==
  IF m.got = call.in THEN output ELSE IF m.got > 0 THEN None ELSE buffer

(* A call returns to its caller, which does not learn how it went.         *)
Return ==
  /\ Ready /\ ipc = "returned"
  /\ ipc' = "none" /\ UNCHANGED <<m, call>>
  /\ IF Head(job) = "verify"
     THEN /\ init_data' = Received(init_data)
          /\ job' \in Verified(init_data')
     ELSE job' = Tail(job) /\ UNCHANGED init_data
  /\ packet' = IF Head(job) = "receive" THEN Received(packet) ELSE packet
  /\ UNCHANGED <<serialVars, printed, cmd, verdict, publishes, device, faults, refusals>>

(* The longest execution time of the command (ATCA_NO_POLL): by its end    *)
(* the element has executed what it was sent.                              *)
Delay ==
  /\ Ready /\ Head(job) = "delay" /\ element # "busy"
  /\ job' = Tail(job)
  /\ UNCHANGED <<serialVars, i2cVars, printed, cmd, init_data, packet, verdict, publishes,
                 device, faults, refusals>>

(* atCheckCrc and isATCAError: the answer to a command may be an error.    *)
(* With a zeroed packet the CRC is taken over 254 bytes, past the end of   *)
(* the packet, and may agree.                                              *)
Verdicts ==
  IF packet \in {None, WakeAnswer} THEN {"refused"} ELSE {"accepted", "refused"}

Check ==
  /\ Ready /\ Head(job) = "check"
  /\ verdict' \in Verdicts
  /\ job' = Tail(job)
  /\ UNCHANGED <<serialVars, i2cVars, printed, cmd, init_data, packet, publishes, device,
                 faults, refusals>>

Superloop ==
  \/ Publish \/ Command \/ PrintChar \/ BeginCall \/ Return \/ Delay \/ Check
  \/ WriteStep /\ UNCHANGED <<i2cVars, program, device, faults, refusals>>
  \/ CallStep /\ UNCHANGED <<serialVars, program, device, faults, refusals>>

-----------------------------------------------------------------------------
(* The interrupts, the wire and the devices                                *)

Interrupts ==
  \/ DreIsr /\ UNCHANGED <<i2cVars, program, device, faults, refusals>>
  \/ TwiIsr /\ UNCHANGED <<serialVars, program, device, faults, refusals>>

Line == Shift /\ UNCHANGED <<i2cVars, program, device, faults, refusals>>

(* The address phase of the wake token wakes the element; what ends a      *)
(* write is a command or the idle word.                                    *)
DeviceTakes ==
  CASE call.dev = "general" /\ m.job = "adrW" /\ element = "asleep" ->
         element' = "awake" /\ output' = WakeAnswer
    [] call = Calls["send"] /\ m.job = "byteW" /\ m.state = "TX_EMPTY" ->
         element' = "busy" /\ output' = None
    [] call = Calls["idle"] /\ m.job = "byteW" /\ m.state = "TX_EMPTY" ->
         element' = "asleep" /\ output' = None
    [] OTHER -> UNCHANGED device

(* The sensor acknowledges, an element that is awake too; the address zero *)
(* of the wake token is nobody's.                                          *)
Acknowledges == call.dev = "sensor" \/ (call.dev = "element" /\ element = "awake")

Wire ==
  /\ IF Acknowledges \/ m.job = "byteR"
     THEN Complete(TRUE, FALSE) ELSE Complete(FALSE, TRUE)
  /\ DeviceTakes
  /\ UNCHANGED <<serialVars, program, faults, refusals>>

(* A byte or an address refused, a wake token not heard.                   *)
Refuse ==
  /\ refusals < MaxRefusals /\ refusals' = refusals + 1
  /\ m.job # "byteR" /\ Complete(FALSE, TRUE)
  /\ UNCHANGED <<serialVars, program, device, faults>>

BusFault ==
  /\ faults < MaxFaults /\ faults' = faults + 1
  /\ Fault
  /\ UNCHANGED <<serialVars, program, device, refusals>>

Execute ==
  /\ element = "busy"
  /\ element' = "awake" /\ output' = cmd
  /\ UNCHANGED <<serialVars, i2cVars, program, faults, refusals>>

Next == Superloop \/ Interrupts \/ Line \/ Wire \/ Refuse \/ BusFault \/ Execute

Fairness ==
  /\ WF_vars(Superloop) /\ WF_vars(DreIsr /\ Interrupts) /\ WF_vars(TwiIsr /\ Interrupts)
  /\ WF_vars(Line) /\ WF_vars(Wire) /\ WF_vars(Execute)

Spec == Init /\ [][Next]_vars /\ Fairness

-----------------------------------------------------------------------------
(* Properties                                                              *)

TypeOK ==
  /\ RingTypeOK /\ I2cTypeOK
  /\ job \in Seq({"print", "delay", "check"} \cup DOMAIN Calls)
  /\ printed \in 0 .. PrintLength * MaxPublish /\ cmd \in 0 .. MaxCommands
  /\ init_data \in Outputs /\ packet \in Outputs \cup {Zero}
  /\ verdict \in {"none", "accepted", "refused"}
  /\ element \in {"asleep", "awake", "busy"} /\ output \in Outputs

(* A transfer that met no fault and no refusal wrote every byte and read    *)
(* every byte by the time its caller goes on.                               *)
TransferComplete ==
  (ipc = "returned" /\ faults = 0 /\ ~m.refused) => m.sent = call.out /\ m.got = call.in

(* An accepted response is the answer to the command just given, or none    *)
(* was read: two disturbances of the bus cannot pass an older answer off    *)
(* (three can, see the README).                                             *)
AcceptedIsOwn ==
  (verdict = "accepted" /\ faults + refusals <= 2) => packet \in {Zero, cmd}

(* The wire is dead, or a call is polling an element that sleeps and has    *)
(* taken nothing from it: nothing but another fault ends such a call.       *)
Unanswered ==
  \/ m.job = "dead"
  \/ /\ ipc = "poll" /\ m.busy /\ m.sent = 0
     /\ call.dev = "element" /\ call.poll /\ element = "asleep"

(* The superloop gets through each of its jobs.                             *)
JobsEnd == (job # <<>>) ~> (job = <<>> \/ Unanswered)
=============================================================================
