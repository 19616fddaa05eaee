---------------------------- MODULE HostInterface ----------------------------
(***************************************************************************)
(* The host interface of the WINC driver (winc/driver/source/m2m_hif.c):   *)
(* the chip posts one message at a time in its receive buffer and pulls    *)
(* the interrupt line; the interrupt only counts; the superloop fetches    *)
(* the message, lets the callback of its group read it block by block with *)
(* hif_receive, and gives the buffer back ("RX done"), after which the     *)
(* chip may post the next one.  A message whose last byte is read is given *)
(* back at once, while its callback still runs.                            *)
(*                                                                         *)
(* The callbacks are those of the socket layer (socket.c) and of the TLS   *)
(* requests (m2m_ssl.c, crypto_client.c, ecc_functions_tls.c).  hif_send   *)
(* goes the other way: the host asks for a DMA buffer, waits for it, fills *)
(* it and submits it.                                                      *)
(*                                                                         *)
(* Atomicity: one action per access to the chip, because the chip and the  *)
(* interrupt act between two accesses.  The accesses go through nmspi.c,   *)
(* which tries a read or a block ten times before it reports a failure,    *)
(* and which never notices that the write of a register was lost.          *)
(***************************************************************************)
EXTENDS Naturals, Sequences

CONSTANTS
  MaxMessages,  \* messages the chip posts
  MaxSends,     \* packets the superloop sends outside callbacks
  MaxBusErrors, \* accesses that fail, or are lost
  MaxTimeouts   \* waits for a DMA buffer that the host gives up

ASSUME BoundsAssumption ==
  /\ MaxMessages \in Nat \ {0}
  /\ {MaxSends, MaxBusErrors, MaxTimeouts} \subseteq Nat

VARIABLES
  slot,        \* the message in the chip's receive buffer
  held,        \* the chip waits for RX done
  irq,         \* bit 0 of WIFI_HOST_RCV_CTRL_0: the line is low
  want,        \* bit 1 of WIFI_HOST_RCV_CTRL_2: the host asks for a DMA buffer
  owned,       \* DMA buffers granted to the host and not submitted
  ctrl4,       \* the address in WIFI_HOST_RCV_CTRL_4: none, granted or used
  sense,       \* the pin interrupt is enabled (nm_bsp_interrupt_ctrl)
  edge,        \* the pin interrupt is flagged and not served
  u8Interrupt, u8HifRXDone, u8ChipSleep,  \* of gstrHifCxt
  pc,          \* the next register access of the superloop
  todo,        \* what the running callback has left to do
  left,        \* blocks of the message the callback has not read
  reg,         \* the value read by a read-modify-write
  delivered,   \* history: the messages given to callbacks
  doubled,     \* history: RX done given for a message given back already
  busErrors, lost,  \* counters: accesses that failed, writes that were lost
  failedSends, sends, timeouts

chip  == <<slot, held, irq>>
dma   == <<want, owned, ctrl4>>
pin   == <<sense, edge>>
ctx   == <<u8Interrupt, u8HifRXDone>>
work  == <<todo, left, reg>>
trace == <<delivered, doubled>>
bus   == <<busErrors, lost>>
count == <<bus, failedSends, sends, timeouts>>
vars  == <<chip, dma, pin, ctx, u8ChipSleep, pc, work, trace, count>>

-----------------------------------------------------------------------------
(* The messages and the plan of the callback each is given to.             *)

Plan ==
  [unregistered |-> <<"end">>,                           \* no callback of that group
   reply        |-> <<"read", "end">>,                   \* Wi-Fi, DNS, connect, send, ping
   data         |-> <<"recvReply", "chunk", "chunk", "end">>,  \* received data, two chunks
   verify       |-> <<"read", "cert", "check", "cert", "check", "respond", "end">>,
   sign         |-> <<"read", "cert", "respond", "end">>,      \* the hash to sign
   ecdh         |-> <<"read", "respond", "end">>]

Reads == {"read", "recvReply", "chunk", "cert"}

(* The blocks the callback reads.                                          *)
Blocks == [unregistered |-> 0, reply |-> 1, data |-> 3, verify |-> 3, sign |-> 2, ecdh |-> 1]

(* A padded message ends after the last block its callback reads: its size *)
(* may exceed its length by up to four bytes.                              *)
Messages == [id : 1 .. MaxMessages, kind : DOMAIN Plan, padded : BOOLEAN]
NoMessage == [id |-> 0, kind |-> "unregistered", padded |-> FALSE]

Init ==
  /\ slot = NoMessage /\ held = FALSE /\ irq = FALSE
  /\ want = FALSE /\ owned = 0 /\ ctrl4 = "none"
  /\ sense = TRUE /\ edge = FALSE
  /\ u8Interrupt = 0 /\ u8HifRXDone = FALSE /\ u8ChipSleep = 0
  /\ pc = "idle" /\ todo = <<>> /\ left = 0 /\ reg = 0
  /\ delivered = <<>> /\ doubled = FALSE
  /\ busErrors = 0 /\ lost = 0 /\ failedSends = 0 /\ sends = 0 /\ timeouts = 0

-----------------------------------------------------------------------------
(* The chip.                                                               *)

Post ==
  /\ ~held /\ slot.id < MaxMessages
  /\ \E m \in Messages : m.id = slot.id + 1 /\ slot' = m
  /\ held' = TRUE /\ irq' = TRUE
  /\ edge' = (edge \/ (sense /\ ~irq))
  /\ UNCHANGED <<dma, sense, ctx, u8ChipSleep, pc, work, trace, count>>

Grant ==
  /\ want
  /\ want' = FALSE /\ owned' = owned + 1 /\ ctrl4' = "granted"
  /\ UNCHANGED <<chip, pin, ctx, u8ChipSleep, pc, work, trace, count>>

(* The interrupt counts only while the line is low.                        *)
Isr ==
  /\ edge
  /\ edge' = FALSE
  /\ u8Interrupt' = IF irq THEN u8Interrupt + 1 ELSE u8Interrupt
  /\ UNCHANGED <<chip, dma, sense, u8HifRXDone, u8ChipSleep, pc, work, trace, count>>

-----------------------------------------------------------------------------
(* The bus.                                                                *)

Fault == busErrors + lost < MaxBusErrors

(* Ten attempts without an answer are reported.                            *)
RegisterRead(read, failed) ==
  /\ UNCHANGED lost
  /\ \/ read /\ UNCHANGED busErrors
     \/ Fault /\ failed /\ busErrors' = busErrors + 1

BlockRead(read, failed) == RegisterRead(read, failed)
BlockWrite(written, failed) == RegisterRead(written, failed)

(* The answer to a write is waited for and not looked at: a write that is  *)
(* lost ends like one that is done.                                        *)
RegisterWrite(written, kept) ==
  /\ UNCHANGED busErrors
  /\ \/ written /\ UNCHANGED lost
     \/ Fault /\ kept /\ lost' = lost + 1

-----------------------------------------------------------------------------
(* The superloop: interrupts.                                              *)

(* hif_handle_isr: the decrement is a load and a store.                    *)
LoadCount ==
  /\ pc = "idle" /\ u8Interrupt > 0
  /\ reg' = u8Interrupt
  /\ pc' = "decrement"
  /\ UNCHANGED <<chip, dma, pin, ctx, u8ChipSleep, todo, left, trace, count>>

StoreCount ==
  /\ pc = "decrement"
  /\ u8Interrupt' = reg - 1
  /\ pc' = "ctrl0"
  /\ UNCHANGED <<chip, dma, pin, u8HifRXDone, u8ChipSleep, work, trace, count>>

(* hif_isr.  Every error comes back here: the loop tries again for ever.   *)
ReadInterrupt ==
  /\ pc = "ctrl0"
  /\ RegisterRead(IF irq THEN sense' = FALSE /\ pc' = "clear"
                         ELSE UNCHANGED <<sense, pc>>,   \* "False interrupt"
                  UNCHANGED <<sense, pc>>)
  /\ UNCHANGED <<chip, dma, edge, ctx, u8ChipSleep, work, trace, failedSends, sends, timeouts>>

ClearInterrupt ==
  /\ pc = "clear"
  /\ RegisterWrite(irq' = FALSE, UNCHANGED irq)
  /\ u8HifRXDone' = TRUE /\ pc' = "fetch"
  /\ UNCHANGED <<slot, held, dma, pin, u8Interrupt, u8ChipSleep, work, trace>>
  /\ UNCHANGED <<failedSends, sends, timeouts>>

(* The length, the address and the header of the message are read.         *)
Fetch ==
  /\ pc = "fetch"
  /\ BlockRead(/\ delivered' = Append(delivered, slot.id)
               /\ todo' = Plan[slot.kind]
               /\ left' = Blocks[slot.kind] + (IF slot.padded THEN 1 ELSE 0)
               /\ pc' = "callback" /\ UNCHANGED sense,
               /\ sense' = TRUE /\ pc' = "ctrl0"
               /\ UNCHANGED <<delivered, todo, left>>)
  /\ UNCHANGED <<chip, dma, edge, ctx, u8ChipSleep, reg, doubled, failedSends, sends, timeouts>>

-----------------------------------------------------------------------------
(* The superloop: callbacks.                                               *)

(* What a callback does after the step at the head of todo, which reached  *)
(* the bus or not: a failed TLS read gives the message up and answers, and *)
(* the application may close the socket between two chunks.                *)
Continues(ok) ==
  LET step == Head(todo)
      rest == Tail(todo)
  IN  IF ok
      THEN {rest} \cup (IF step \in {"recvReply", "chunk"} /\ Head(rest) = "chunk"
                        THEN {<<"stop", "end">>} ELSE {})
      ELSE CASE step = "cert" -> {<<"stop", "respond", "end">>}
             [] step = "stop" -> {rest}
             [] OTHER         -> {<<"end">>}

(* Mutant of GivesBack: every chunk is read with isDone.                   *)
GivesBackEveryChunk == left = 1 \/ Head(todo) = "chunk"

(* hif_receive gives the message back with its last byte, and with isDone. *)
GivesBack == left = 1 \/ (Head(todo) = "chunk" /\ todo[2] # "chunk")

ReadBlock ==
  /\ pc = "callback" /\ Head(todo) \in Reads
  /\ BlockRead(/\ left' = left - 1
               /\ IF GivesBack THEN pc' = "ack" /\ UNCHANGED todo
                               ELSE todo' \in Continues(TRUE) /\ UNCHANGED pc,
               todo' \in Continues(FALSE) /\ UNCHANGED <<left, pc>>)
  /\ UNCHANGED <<chip, dma, pin, ctx, u8ChipSleep, reg, trace, failedSends, sends, timeouts>>

(* ecdsa_process_sign_verify_request: a signature that fails ends it.      *)
Check ==
  /\ pc = "callback" /\ Head(todo) = "check"
  /\ todo' \in {Tail(todo), <<"stop", "respond", "end">>}
  /\ UNCHANGED <<chip, dma, pin, ctx, u8ChipSleep, pc, left, reg, trace, count>>

(* hif_receive(0, NULL, 0, 1)                                              *)
Stop ==
  /\ pc = "callback" /\ Head(todo) = "stop"
  /\ pc' = "ack"
  /\ UNCHANGED <<chip, dma, pin, ctx, u8ChipSleep, work, trace, count>>

(* Mutants of CallbackReturns: RX done whatever the callback did, or never. *)
CallbackReturnsAcks ==
  /\ pc = "callback" /\ Head(todo) = "end"
  /\ todo' = <<>> /\ pc' = "ack"
  /\ UNCHANGED <<chip, dma, pin, ctx, u8ChipSleep, left, reg, trace, count>>
CallbackReturnsKeeps ==
  /\ pc = "callback" /\ Head(todo) = "end"
  /\ todo' = <<>> /\ pc' = "idle"
  /\ UNCHANGED <<chip, dma, pin, ctx, u8ChipSleep, left, reg, trace, count>>

(* The end of hif_isr: a message its callback kept is given back.          *)
CallbackReturns ==
  /\ pc = "callback" /\ Head(todo) = "end"
  /\ todo' = <<>>
  /\ pc' = IF u8HifRXDone THEN "ack" ELSE "idle"
  /\ UNCHANGED <<chip, dma, pin, ctx, u8ChipSleep, left, reg, trace, count>>

(* After hif_set_rx_done: in a callback it goes on, at the end of hif_isr  *)
(* an error has the interrupt handled again.                               *)
AckEnds(ok) ==
  IF todo = <<>>
  THEN pc' = (IF ok THEN "idle" ELSE "ctrl0") /\ UNCHANGED todo
  ELSE pc' = "callback" /\ todo' \in Continues(ok)

(* Mutant of AckRead: the interrupt stays masked.                          *)
AckReadMasked ==
  /\ pc = "ack"
  /\ u8HifRXDone' = FALSE
  /\ doubled' = (doubled \/ (~u8HifRXDone /\ todo # <<>> /\ Head(todo) = "stop"))
  /\ reg' = (IF irq THEN 1 ELSE 0) /\ pc' = "ackWrite"
  /\ UNCHANGED <<chip, dma, pin, u8Interrupt, u8ChipSleep, todo, left, delivered, count>>

(* hif_set_rx_done enables the interrupt before it gives the message back. *)
AckRead ==
  /\ pc = "ack"
  /\ u8HifRXDone' = FALSE
  /\ sense' = TRUE
  /\ doubled' = (doubled \/ (~u8HifRXDone /\ todo # <<>> /\ Head(todo) = "stop"))
  /\ RegisterRead(reg' = (IF irq THEN 1 ELSE 0) /\ pc' = "ackWrite" /\ UNCHANGED todo,
                  AckEnds(FALSE) /\ UNCHANGED reg)
  /\ UNCHANGED <<chip, dma, edge, u8Interrupt, u8ChipSleep, left, delivered>>
  /\ UNCHANGED <<failedSends, sends, timeouts>>

AckWrite ==
  /\ pc = "ackWrite"
  /\ RegisterWrite(held' = FALSE /\ irq' = (reg = 1), UNCHANGED <<held, irq>>)
  /\ AckEnds(TRUE)
  /\ UNCHANGED <<slot, dma, sense, ctx, u8ChipSleep, left, reg, trace>>
  /\ UNCHANGED <<failedSends, sends, timeouts>>
  /\ edge' = (edge \/ (sense /\ ~irq /\ irq'))

-----------------------------------------------------------------------------
(* hif_send, in M2M_NO_PS mode: the chip is not put to sleep, the count of *)
(* those who keep it awake is kept all the same.                           *)

(* Mutant of HifChipSleep: the count is not taken back.                    *)
HifChipSleepKeeps(awake) == awake

(* hif_chip_sleep and hif_chip_sleep_sc                                    *)
HifChipSleep(awake) == IF awake >= 1 THEN awake - 1 ELSE awake

(* hif_chip_wake: a message that is held keeps the chip awake already.     *)
HifChipWake(awake) == IF u8HifRXDone THEN awake ELSE awake + 1

SendEnds(awake) ==
  /\ u8ChipSleep' = HifChipSleep(awake)
  /\ pc' = IF todo = <<>> THEN "idle" ELSE "callback"
  /\ todo' = IF todo = <<>> THEN <<>> ELSE Tail(todo)

SendFails(awake) == SendEnds(awake) /\ failedSends' = failedSends + 1

(* The header goes to NMI_STATE_REG, the request to RCV_CTRL_2.            *)
SendRequest ==
  /\ \/ pc = "idle" /\ sends < MaxSends /\ sends' = sends + 1
     \/ pc = "callback" /\ Head(todo) = "respond" /\ UNCHANGED sends
  /\ RegisterWrite(want' = TRUE, want' \in {want, TRUE})
  /\ pc' = "poll" /\ u8ChipSleep' = HifChipWake(u8ChipSleep)
  /\ UNCHANGED <<chip, owned, ctrl4, pin, ctx, work, trace, failedSends, timeouts>>

(* The request is cleared by the chip when it has put the address of the   *)
(* buffer in RCV_CTRL_4; no address, or no answer, ends the send.          *)
Poll ==
  /\ pc = "poll"
  /\ \/ RegisterRead(/\ ~want /\ ctrl4 # "none" /\ pc' = "fill"
                     /\ UNCHANGED <<todo, u8ChipSleep, failedSends>>,
                     SendFails(u8ChipSleep))
        /\ UNCHANGED timeouts
     \/ ~want /\ ctrl4 = "none" /\ SendFails(u8ChipSleep) /\ UNCHANGED <<bus, timeouts>>
     \/ /\ want /\ timeouts < MaxTimeouts /\ timeouts' = timeouts + 1
        /\ SendFails(u8ChipSleep) /\ UNCHANGED bus
  /\ UNCHANGED <<chip, dma, pin, ctx, left, reg, trace, sends>>

(* The packet is written block by block.                                   *)
Fill ==
  /\ pc = "fill"
  /\ BlockWrite(pc' = "submit" /\ UNCHANGED <<todo, u8ChipSleep, failedSends>>,
                SendFails(u8ChipSleep))
  /\ UNCHANGED <<chip, dma, pin, ctx, left, reg, trace, sends, timeouts>>

(* Mutant of Submit: the packet is not submitted.                          *)
SubmitNot ==
  /\ pc = "submit"
  /\ SendEnds(u8ChipSleep)
  /\ UNCHANGED <<chip, dma, pin, ctx, left, reg, trace, count>>

(* The chip takes the packet, and may leave its address in RCV_CTRL_4.     *)
Submit ==
  /\ pc = "submit"
  /\ RegisterWrite(/\ owned' = IF ctrl4 = "granted" THEN owned - 1 ELSE owned
                   /\ ctrl4' \in {"none", "used"},
                   UNCHANGED <<owned, ctrl4>>)
  /\ SendEnds(u8ChipSleep)
  /\ UNCHANGED <<chip, want, pin, ctx, left, reg, trace, failedSends, sends, timeouts>>

-----------------------------------------------------------------------------
HandleIsr == LoadCount \/ StoreCount \/ ReadInterrupt \/ ClearInterrupt \/ Fetch
HandleMessage == ReadBlock \/ Check \/ Stop \/ CallbackReturns \/ AckRead \/ AckWrite
HifSend == SendRequest \/ Poll \/ Fill \/ Submit
Superloop == HandleIsr \/ HandleMessage \/ HifSend

Next == Post \/ Grant \/ Isr \/ Superloop

Spec == Init /\ [][Next]_vars

(* The superloop runs for ever, the interrupt is served, the chip answers  *)
(* the requests the host does not give up.  It need not send messages.     *)
FairSpec == Spec /\ WF_vars(Superloop) /\ WF_vars(Isr) /\ WF_vars(Grant)

-----------------------------------------------------------------------------
(* Properties.                                                             *)

(* An access failed or was lost, or RX done was given twice for a message: *)
(* what is lost then is told in the README.                                *)
Disturbed == busErrors > 0 \/ lost > 0 \/ doubled

(* Every variable has its type; the chip is kept awake by one send at most. *)
TypeOK ==
  /\ slot \in Messages \cup {NoMessage}
  /\ {held, irq, want, sense, edge, u8HifRXDone, doubled} \subseteq BOOLEAN
  /\ {owned, u8Interrupt, left, reg, busErrors, lost, failedSends, sends, timeouts} \subseteq Nat
  /\ u8ChipSleep \in {0, 1}
  /\ ctrl4 \in {"none", "granted", "used"}
  /\ pc \in {"idle", "decrement", "ctrl0", "clear", "fetch", "callback", "ack", "ackWrite",
             "poll", "fill", "submit"}
  /\ todo \in Seq(Reads \cup {"check", "stop", "respond", "end"})
  /\ delivered \in Seq(0 .. MaxMessages)

(* The messages reach their callbacks in the order the chip posts them,    *)
(* none twice and none left out but the one the chip still holds.          *)
InOrder ==
  Disturbed \/ /\ \A i \in DOMAIN delivered : delivered[i] = i
               /\ slot.id <= Len(delivered) + (IF held THEN 1 ELSE 0)

(* A posted message that is not being handled is flagged, counted, or the  *)
(* loop is on its way to it: no interrupt is lost while the pin is masked, *)
(* nor by the decrement that an interrupt can cut in two.                  *)
NoWakeupLost ==
  irq /\ ~Disturbed => edge \/ u8Interrupt > 0 \/ pc \in {"ctrl0", "clear"}

(* A callback reads only from a message it has not given back.             *)
ReadsHeld ==
  (pc = "callback" /\ Head(todo) \in Reads /\ left > 0 /\ ~Disturbed)
    => held /\ slot.id = delivered[Len(delivered)]

(* A DMA buffer is asked for, or granted and not submitted, only for the   *)
(* packet being sent, for the sends that failed and for lost writes; and   *)
(* the host writes a packet only into a buffer that was granted to it,     *)
(* unless its request was lost: it then takes the address it finds.        *)
BuffersAccounted ==
  /\ owned + (IF want THEN 1 ELSE 0)
       <= failedSends + lost + (IF pc \in {"poll", "fill", "submit"} THEN 1 ELSE 0)
  /\ pc \in {"fill", "submit"} /\ lost = 0 => ctrl4 = "granted" /\ owned > 0

(* The chip gets back every message it posts.                              *)
EveryMessageReleased == held ~> (~held \/ Disturbed)
=============================================================================
