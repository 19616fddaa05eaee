------------------------ MODULE HostInterfaceProofs ------------------------
(***************************************************************************)
(* Proofs that the safety invariants of HostInterface hold for any number  *)
(* of messages, sends, faults of the bus and abandoned waits.              *)
(*                                                                         *)
(* DmaInv is inductive by itself and gives BuffersAccounted.  WorkInv says *)
(* how far the running callback can still read; with it, HandInv follows a *)
(* message from its interrupt to RX done as long as nothing disturbs the   *)
(* bus, and gives InOrder, NoWakeupLost and ReadsHeld.  Rank counts what   *)
(* is left to do for a message: every step lowers it, and there is always  *)
(* one to take, which is what EveryMessageReleased needs besides fairness. *)
(***************************************************************************)
EXTENDS HostInterface, SequenceTheorems, TLAPS

Sending == {"poll", "fill", "submit"}
Acking  == {"ack", "ackWrite"}
Apart   == {"idle", "decrement", "ctrl0", "clear", "fetch"}

-----------------------------------------------------------------------------
(* DMA buffers                                                             *)

DmaTypeOK ==
  /\ pc \in Apart \cup {"callback"} \cup Acking \cup Sending
  /\ ctrl4 \in {"none", "granted", "used"}
  /\ {owned, busErrors, lost, failedSends} \subseteq Nat

GrantedIsOwned == ctrl4 = "granted" => owned > 0

AskedWhilePolled == pc \in {"fill", "submit"} => ~want

(* Only a lost request leaves the host with an address it was not granted, *)
(* and a packet sent with it uses no buffer up.                            *)
AnsweredUnlessLost == pc \in Sending /\ ~want /\ lost = 0 => ctrl4 = "granted"
OtherAddressCosts ==
  pc \in Sending /\ ~want /\ ctrl4 # "granted" => owned <= failedSends + lost

Accounted ==
  owned + (IF want THEN 1 ELSE 0)
    <= failedSends + lost + (IF pc \in Sending THEN 1 ELSE 0)

DmaInv ==
  /\ DmaTypeOK
  /\ GrantedIsOwned
  /\ AskedWhilePolled
  /\ AnsweredUnlessLost
  /\ OtherAddressCosts
  /\ Accounted

USE DEF Sending, Acking, Apart

LEMMA DmaInit == Init => DmaInv
  BY SMT DEF Init, DmaInv, DmaTypeOK, GrantedIsOwned, AskedWhilePolled, AnsweredUnlessLost,
         OtherAddressCosts, Accounted

(* A step that neither begins nor ends a send.                             *)
LEMMA DmaApart ==
  ASSUME DmaInv,
         UNCHANGED <<want, owned, ctrl4, failedSends>>,
         pc \notin Sending,
         pc' \in Apart \cup {"callback"} \cup Acking,
         busErrors' \in {busErrors, busErrors + 1},
         lost' \in {lost, lost + 1}
  PROVE  DmaInv'
  BY SMT DEF DmaInv, DmaTypeOK, GrantedIsOwned, AskedWhilePolled, AnsweredUnlessLost,
         OtherAddressCosts, Accounted

LEMMA DmaChip == DmaInv /\ (Post \/ Grant \/ Isr) => DmaInv'
<1> SUFFICES ASSUME DmaInv, Post \/ Grant \/ Isr PROVE DmaInv'
  OBVIOUS
<1> USE DEF DmaInv, DmaTypeOK, GrantedIsOwned, AskedWhilePolled, AnsweredUnlessLost,
         OtherAddressCosts, Accounted
<1>1. CASE Post BY <1>1, SMT DEF Post, dma, count, bus
<1>2. CASE Grant BY <1>2, SMT DEF Grant, count, bus
<1>3. CASE Isr BY <1>3, SMT DEF Isr, dma, count, bus
<1> QED BY <1>1, <1>2, <1>3

LEMMA DmaHandle == DmaInv /\ (HandleIsr \/ HandleMessage) => DmaInv'
<1> SUFFICES ASSUME DmaInv, HandleIsr \/ HandleMessage PROVE DmaInv'
  OBVIOUS
<1>1. UNCHANGED <<want, owned, ctrl4, failedSends>>
  BY DEF HandleIsr, HandleMessage, LoadCount, StoreCount, ReadInterrupt, ClearInterrupt, Fetch,
         ReadBlock, Check, Stop, CallbackReturns, AckRead, AckWrite, dma, count
<1>2. /\ pc \notin Sending
      /\ pc' \in Apart \cup {"callback"} \cup Acking
      /\ busErrors' \in {busErrors, busErrors + 1} /\ lost' \in {lost, lost + 1}
  <2>1. CASE LoadCount BY <2>1 DEF LoadCount, bus, count
  <2>2. CASE StoreCount BY <2>2 DEF StoreCount, bus, count
  <2>3. CASE ReadInterrupt BY <2>3 DEF ReadInterrupt, RegisterRead
  <2>4. CASE ClearInterrupt BY <2>4 DEF ClearInterrupt, RegisterWrite
  <2>5. CASE Fetch BY <2>5 DEF Fetch, BlockRead, RegisterRead
  <2>6. CASE ReadBlock BY <2>6 DEF ReadBlock, BlockRead, RegisterRead
  <2>7. CASE Check BY <2>7 DEF Check, bus, count
  <2>8. CASE Stop BY <2>8 DEF Stop, bus, count
  <2>9. CASE CallbackReturns BY <2>9 DEF CallbackReturns, bus, count
  <2>10. CASE AckRead BY <2>10 DEF AckRead, RegisterRead, AckEnds
  <2>11. CASE AckWrite BY <2>11 DEF AckWrite, RegisterWrite, AckEnds
  <2> QED
    BY <2>1, <2>2, <2>3, <2>4, <2>5, <2>6, <2>7, <2>8, <2>9, <2>10, <2>11 DEF HandleIsr, HandleMessage
<1> QED BY <1>1, <1>2, DmaApart

LEMMA DmaSend == DmaInv /\ HifSend => DmaInv'
<1> SUFFICES ASSUME DmaInv, HifSend PROVE DmaInv'
  OBVIOUS
<1> USE DEF DmaInv, DmaTypeOK, GrantedIsOwned, AskedWhilePolled, AnsweredUnlessLost,
         OtherAddressCosts, Accounted
<1>1. CASE SendRequest
  <2>1. pc \in {"idle", "callback"} /\ pc' = "poll"
    BY <1>1 DEF SendRequest
  <2>2. UNCHANGED <<owned, ctrl4, failedSends, busErrors>>
    BY <1>1 DEF SendRequest, RegisterWrite
  <2>3. \/ want' = TRUE /\ UNCHANGED lost
        \/ (want' = want \/ want' = TRUE) /\ lost' = lost + 1
    BY <1>1 DEF SendRequest, RegisterWrite
  <2> QED BY <2>1, <2>2, <2>3, SMT
<1>2. CASE Poll
  BY <1>2, SMTT(60) DEF Poll, RegisterRead, SendFails, SendEnds, dma, bus
<1>3. CASE Fill
  BY <1>3, SMT DEF Fill, BlockWrite, RegisterRead, SendFails, SendEnds, dma
<1>4. CASE Submit
  <2>1. pc = "submit" /\ pc' \in {"callback", "idle"}
    BY <1>4 DEF Submit, SendEnds
  <2>2. UNCHANGED <<want, failedSends, busErrors>>
    BY <1>4 DEF Submit, RegisterWrite
  <2>3. \/ /\ owned' = IF ctrl4 = "granted" THEN owned - 1 ELSE owned
           /\ ctrl4' \in {"none", "used"}
           /\ UNCHANGED lost
        \/ UNCHANGED <<owned, ctrl4>> /\ lost' = lost + 1
    BY <1>4 DEF Submit, RegisterWrite
  <2> QED BY <2>1, <2>2, <2>3, SMT
<1> QED BY <1>1, <1>2, <1>3, <1>4 DEF HifSend

LEMMA DmaNext == DmaInv /\ [Next]_vars => DmaInv'
<1>1. ASSUME DmaInv, UNCHANGED vars PROVE DmaInv'
  BY <1>1, SMT DEF vars, dma, count, bus, DmaInv, DmaTypeOK, GrantedIsOwned, AskedWhilePolled, AnsweredUnlessLost,
         OtherAddressCosts, Accounted
<1> QED BY <1>1, DmaChip, DmaHandle, DmaSend DEF Next, Superloop

(* hif_send: a DMA buffer of the chip that is asked for, or granted and    *)
(* not submitted, belongs to the packet being sent, to a send that failed  *)
(* or to a lost write.                                                     *)
THEOREM BuffersAreAccounted == Spec => []BuffersAccounted
<1>1. DmaInv => BuffersAccounted
  BY SMT DEF BuffersAccounted, DmaInv, DmaTypeOK, GrantedIsOwned, AskedWhilePolled, AnsweredUnlessLost,
         OtherAddressCosts, Accounted
<1> QED BY <1>1, DmaInit, DmaNext, PTL DEF Spec

-----------------------------------------------------------------------------
(* What a callback has left to do                                          *)

(* The values of todo, by the reads in them.                               *)
NoRead ==
  {<<"end">>,
   <<"respond", "end">>,
   <<"stop", "end">>,
   <<"stop", "respond", "end">>,
   <<"check", "respond", "end">>}

OneRead ==
  {<<"read", "end">>,
   <<"chunk", "end">>,
   <<"cert", "check", "respond", "end">>,
   <<"cert", "respond", "end">>,
   <<"read", "respond", "end">>,
   <<"check", "cert", "check", "respond", "end">>}

TwoReads ==
  {<<"chunk", "chunk", "end">>,
   <<"cert", "check", "cert", "check", "respond", "end">>,
   <<"read", "cert", "respond", "end">>}

ThreeReads ==
  {<<"recvReply", "chunk", "chunk", "end">>,
   <<"read", "cert", "check", "cert", "check", "respond", "end">>}

LEMMA NoReadSteps ==
  ASSUME NEW t \in NoRead
  PROVE  /\ t # <<>> /\ Head(t) \in {"end", "respond", "stop", "check"}
         /\ Head(t) # "end" => Tail(t) \in NoRead
<1>1. CASE t = <<"end">> BY <1>1, SMT DEF Reads, NoRead, OneRead, TwoReads
<1>2. CASE t = <<"respond", "end">> BY <1>2, SMT DEF Reads, NoRead, OneRead, TwoReads
<1>3. CASE t = <<"stop", "end">> BY <1>3, SMT DEF Reads, NoRead, OneRead, TwoReads
<1>4. CASE t = <<"stop", "respond", "end">> BY <1>4, SMT DEF Reads, NoRead, OneRead, TwoReads
<1>5. CASE t = <<"check", "respond", "end">> BY <1>5, SMT DEF Reads, NoRead, OneRead, TwoReads
<1> QED BY <1>1, <1>2, <1>3, <1>4, <1>5 DEF NoRead

LEMMA OneReadSteps ==
  ASSUME NEW t \in OneRead
  PROVE  /\ t # <<>>
         /\ \/ Head(t) = "check" /\ Tail(t) \in OneRead
            \/ Head(t) \in Reads /\ Tail(t) \in NoRead /\ Head(Tail(t)) # "chunk"
<1>1. CASE t = <<"read", "end">> BY <1>1, SMT DEF Reads, NoRead, OneRead, TwoReads
<1>2. CASE t = <<"chunk", "end">> BY <1>2, SMT DEF Reads, NoRead, OneRead, TwoReads
<1>3. CASE t = <<"cert", "check", "respond", "end">> BY <1>3, SMT DEF Reads, NoRead, OneRead, TwoReads
<1>4. CASE t = <<"cert", "respond", "end">> BY <1>4, SMT DEF Reads, NoRead, OneRead, TwoReads
<1>5. CASE t = <<"read", "respond", "end">> BY <1>5, SMT DEF Reads, NoRead, OneRead, TwoReads
<1>6. CASE t = <<"check", "cert", "check", "respond", "end">> BY <1>6, SMT DEF Reads, NoRead, OneRead, TwoReads
<1> QED BY <1>1, <1>2, <1>3, <1>4, <1>5, <1>6 DEF OneRead

LEMMA TwoReadsSteps ==
  ASSUME NEW t \in TwoReads
  PROVE  /\ t # <<>> /\ Head(t) \in Reads /\ Tail(t) \in OneRead
         /\ Head(t) = "chunk" => t[2] = "chunk"
<1>1. CASE t = <<"chunk", "chunk", "end">> BY <1>1, SMT DEF Reads, NoRead, OneRead, TwoReads
<1>2. CASE t = <<"cert", "check", "cert", "check", "respond", "end">> BY <1>2, SMT DEF Reads, NoRead, OneRead, TwoReads
<1>3. CASE t = <<"read", "cert", "respond", "end">> BY <1>3, SMT DEF Reads, NoRead, OneRead, TwoReads
<1> QED BY <1>1, <1>2, <1>3 DEF TwoReads

LEMMA ThreeReadsSteps ==
  ASSUME NEW t \in ThreeReads
  PROVE  /\ t # <<>> /\ Head(t) \in Reads \ {"chunk"} /\ Tail(t) \in TwoReads
<1>1. CASE t = <<"recvReply", "chunk", "chunk", "end">> BY <1>1, SMT DEF Reads, NoRead, OneRead, TwoReads
<1>2. CASE t = <<"read", "cert", "check", "cert", "check", "respond", "end">> BY <1>2, SMT DEF Reads, NoRead, OneRead, TwoReads
<1> QED BY <1>1, <1>2 DEF ThreeReads

(* The reads left, if the message is not given back, are in the blocks left. *)
Readable ==
  /\ u8HifRXDone
  /\ \/ todo \in OneRead /\ left >= 1
     \/ todo \in TwoReads /\ left >= 2
     \/ todo \in ThreeReads /\ left >= 3

WorkInv ==
  /\ pc \in Apart \cup {"callback"} \cup Acking \cup Sending
  /\ slot.kind \in DOMAIN Plan
  /\ left \in Nat
  /\ pc \in Apart => todo = <<>>
  /\ pc = "fetch" => u8HifRXDone
  /\ pc = "callback" => todo \in NoRead \/ Readable
  /\ pc \in Sending => todo = <<>> \/ (todo \in NoRead /\ Head(todo) = "respond")
  /\ pc \in Acking => \/ todo = <<>>
                      \/ todo \in NoRead /\ Head(todo) = "stop"
                      \/ todo \in OneRead /\ Head(todo) \in Reads

LEMMA PlanReads ==
  ASSUME NEW k \in DOMAIN Plan
  PROVE  /\ Blocks[k] \in Nat
         /\ \/ Plan[k] \in NoRead
            \/ Plan[k] \in OneRead /\ Blocks[k] = 1
            \/ Plan[k] \in TwoReads /\ Blocks[k] = 2
            \/ Plan[k] \in ThreeReads /\ Blocks[k] = 3
<1>1. k \in {"unregistered", "reply", "data", "verify", "sign", "ecdh"}
  BY SMT DEF Plan
<1>2. CASE k = "unregistered" BY <1>2, SMT DEF Plan, Blocks, NoRead
<1>3. CASE k = "reply" BY <1>3, SMT DEF Plan, Blocks, OneRead
<1>4. CASE k = "data" BY <1>4, SMT DEF Plan, Blocks, ThreeReads
<1>5. CASE k = "verify" BY <1>5, SMT DEF Plan, Blocks, ThreeReads
<1>6. CASE k = "sign" BY <1>6, SMT DEF Plan, Blocks, TwoReads
<1>7. CASE k = "ecdh" BY <1>7, SMT DEF Plan, Blocks, OneRead
<1> QED BY <1>1, <1>2, <1>3, <1>4, <1>5, <1>6, <1>7

LEMMA WorkInit == Init => WorkInv
  BY SMT DEF Init, WorkInv, NoMessage, Plan

(* What the callback does after its step at the head of todo.              *)
LEMMA Gives ==
  ASSUME NEW ok \in BOOLEAN, todo' \in Continues(ok), todo # <<>>
  PROVE  /\ todo \in NoRead /\ Head(todo) = "stop" => todo' \in NoRead
         /\ todo \in OneRead /\ Head(todo) \in Reads => todo' \in NoRead
         /\ todo \in TwoReads => todo' \in NoRead \cup OneRead
         /\ todo \in ThreeReads => todo' \in NoRead \cup TwoReads
<1>1. \/ todo' = Tail(todo)
      \/ todo' \in {<<"stop", "end">>, <<"end">>, <<"stop", "respond", "end">>}
  BY SMT DEF Continues
<1>2. {<<"stop", "end">>, <<"end">>, <<"stop", "respond", "end">>} \subseteq NoRead
  BY DEF NoRead
<1>3. todo \in NoRead /\ Head(todo) = "stop" => Tail(todo) \in NoRead
  BY NoReadSteps
<1>4. todo \in OneRead /\ Head(todo) \in Reads => Tail(todo) \in NoRead
  BY OneReadSteps DEF Reads
<1>5. todo \in TwoReads => Tail(todo) \in OneRead
  BY TwoReadsSteps
<1>6. todo \in ThreeReads => Tail(todo) \in TwoReads
  BY ThreeReadsSteps
<1> QED BY <1>1, <1>2, <1>3, <1>4, <1>5, <1>6

LEMMA WorkChip == WorkInv /\ (Post \/ Grant \/ Isr) => WorkInv'
<1> SUFFICES ASSUME WorkInv, Post \/ Grant \/ Isr PROVE WorkInv'
  OBVIOUS
<1>1. UNCHANGED <<pc, todo, left, u8HifRXDone>>
  BY DEF Post, Grant, Isr, work, ctx
<1>2. slot'.kind \in DOMAIN Plan
  BY DEF Post, Grant, Isr, chip, Messages, WorkInv
<1> QED BY <1>1, <1>2 DEF WorkInv, Readable

LEMMA WorkIsr == WorkInv /\ HandleIsr => WorkInv'
<1> SUFFICES ASSUME WorkInv, HandleIsr PROVE WorkInv'
  OBVIOUS
<1>1. CASE LoadCount
  BY <1>1, SMT DEF LoadCount, WorkInv, Readable, chip, ctx
<1>2. CASE StoreCount
  BY <1>2, SMT DEF StoreCount, WorkInv, Readable, chip, work
<1>3. CASE ReadInterrupt
  <2>1. pc = "ctrl0" /\ pc' \in {"ctrl0", "clear"} /\ UNCHANGED <<slot, todo, left>>
    BY <1>3 DEF ReadInterrupt, RegisterRead, chip, work
  <2> QED BY <2>1, SMT DEF WorkInv
<1>4. CASE ClearInterrupt
  BY <1>4, SMT DEF ClearInterrupt, WorkInv, work
<1>5. CASE Fetch
  <2>1. pc = "fetch" /\ UNCHANGED <<slot, u8HifRXDone>> /\ u8HifRXDone
    BY <1>5 DEF Fetch, chip, ctx, WorkInv
  <2>2. CASE UNCHANGED <<todo, left>> /\ pc' = "ctrl0"
    BY <2>1, <2>2, SMT DEF WorkInv
  <2>3. CASE /\ pc' = "callback" /\ todo' = Plan[slot.kind]
             /\ left' = Blocks[slot.kind] + (IF slot.padded THEN 1 ELSE 0)
    <3>1. slot.kind \in DOMAIN Plan /\ slot'.kind \in DOMAIN Plan
      BY <2>1 DEF WorkInv
    <3>2. left' \in Nat /\ left' >= Blocks[slot.kind]
      BY <2>3, <3>1, PlanReads, SMT
    <3>3. todo' \in NoRead \/ Readable'
      BY <2>1, <2>3, <3>1, <3>2, PlanReads, SMT DEF Readable
    <3> QED BY <2>3, <3>1, <3>2, <3>3, SMT DEF WorkInv
  <2> QED BY <1>5, <2>2, <2>3 DEF Fetch, BlockRead, RegisterRead
<1> QED BY <1>1, <1>2, <1>3, <1>4, <1>5 DEF HandleIsr

LEMMA WorkRead == WorkInv /\ ReadBlock => WorkInv'
<1> SUFFICES ASSUME WorkInv, ReadBlock PROVE WorkInv'
  OBVIOUS
<1>1. /\ pc = "callback" /\ Head(todo) \in Reads
      /\ slot'.kind \in DOMAIN Plan /\ UNCHANGED u8HifRXDone /\ left \in Nat
  BY DEF ReadBlock, WorkInv, chip, ctx
<1>2. todo \notin NoRead
  BY <1>1, NoReadSteps, SMT DEF Reads
<1>3. Readable
  BY <1>1, <1>2 DEF WorkInv
<1>4. todo # <<>>
  BY <1>3, OneReadSteps, TwoReadsSteps, ThreeReadsSteps DEF Readable
<1>5. CASE todo' \in Continues(FALSE) /\ UNCHANGED <<left, pc>>
  <2>1. todo' \in {<<"end">>, <<"stop", "respond", "end">>}
    BY <1>1, <1>5, SMT DEF Continues, Reads
  <2>2. todo' \in NoRead
    BY <2>1 DEF NoRead
  <2> QED BY <1>1, <1>5, <2>2, SMT DEF WorkInv
<1>6. CASE left' = left - 1 /\ GivesBack /\ pc' = "ack" /\ UNCHANGED todo
  <2>1. todo \in OneRead /\ left >= 1
    BY <1>3, <1>6, <1>1, TwoReadsSteps, ThreeReadsSteps, SMT DEF GivesBack, Readable
  <2> QED BY <1>1, <1>6, <2>1, SMT DEF WorkInv
<1>7. CASE left' = left - 1 /\ todo' \in Continues(TRUE) /\ UNCHANGED pc
  <2>1. todo' \in NoRead \/ Readable'
    <3>1. /\ todo \in OneRead => todo' \in NoRead
          /\ todo \in TwoReads => todo' \in NoRead \cup OneRead
          /\ todo \in ThreeReads => todo' \in NoRead \cup TwoReads
      BY <1>1, <1>4, <1>7, Gives
    <3> QED BY <1>1, <1>3, <1>7, <3>1, SMT DEF Readable
  <2>2. left' \in Nat
    BY <1>1, <1>3, <1>7, SMT DEF Readable
  <2> QED BY <1>1, <1>7, <2>1, <2>2, SMT DEF WorkInv
<1> QED BY <1>5, <1>6, <1>7 DEF ReadBlock, BlockRead, RegisterRead

LEMMA WorkMessage == WorkInv /\ (Check \/ Stop \/ CallbackReturns) => WorkInv'
<1> SUFFICES ASSUME WorkInv, Check \/ Stop \/ CallbackReturns PROVE WorkInv'
  OBVIOUS
<1>1. /\ pc = "callback" /\ UNCHANGED <<slot, u8HifRXDone, left>>
  BY DEF Check, Stop, CallbackReturns, chip, ctx, work
<1>2. CASE Check
  <2>1. Head(todo) = "check" /\ UNCHANGED pc
    BY <1>2 DEF Check
  <2>2. todo \in NoRead \/ todo \in OneRead
    BY <1>1, <2>1, TwoReadsSteps, ThreeReadsSteps, SMT DEF WorkInv, Readable, Reads
  <2>3. CASE todo' = <<"stop", "respond", "end">>
    <3>1. todo' \in NoRead BY <2>3 DEF NoRead
    <3> QED BY <1>1, <2>1, <3>1, SMT DEF WorkInv
  <2>4. CASE todo' = Tail(todo)
    <3>1. todo \in NoRead => todo' \in NoRead
      BY <2>1, <2>4, NoReadSteps
    <3>2. todo \in OneRead => todo' \in OneRead
      BY <2>1, <2>4, OneReadSteps, SMT DEF Reads
    <3>3. todo \in NoRead \/ (todo \in OneRead /\ u8HifRXDone /\ left >= 1)
      BY <1>1, <2>1, TwoReadsSteps, ThreeReadsSteps, SMT DEF WorkInv, Readable, Reads
    <3>4. todo' \in NoRead \/ Readable'
      BY <1>1, <3>1, <3>2, <3>3 DEF Readable
    <3> QED BY <1>1, <2>1, <3>4, SMT DEF WorkInv
  <2> QED BY <1>2, <2>3, <2>4 DEF Check
<1>3. CASE Stop
  <2>1. Head(todo) = "stop" /\ pc' = "ack" /\ UNCHANGED todo
    BY <1>3 DEF Stop, work
  <2>2. todo \in NoRead
    BY <1>1, <2>1, OneReadSteps, TwoReadsSteps, ThreeReadsSteps, SMT
       DEF WorkInv, Readable, Reads
  <2> QED BY <1>1, <2>1, <2>2, SMT DEF WorkInv
<1>4. CASE CallbackReturns
  <2>1. todo' = <<>> /\ pc' \in {"ack", "idle"}
    BY <1>4 DEF CallbackReturns
  <2> QED BY <1>1, <2>1, SMT DEF WorkInv
<1> QED BY <1>2, <1>3, <1>4

LEMMA WorkAck == WorkInv /\ (AckRead \/ AckWrite) => WorkInv'
<1> SUFFICES ASSUME WorkInv, AckRead \/ AckWrite PROVE WorkInv'
  OBVIOUS
<1>1. pc \in Acking /\ UNCHANGED <<slot, left>>
  BY DEF AckRead, AckWrite, chip, work
<1>2. CASE pc' = "ackWrite" /\ UNCHANGED todo
  BY <1>1, <1>2, SMT DEF WorkInv
<1>3. ASSUME NEW ok \in BOOLEAN, AckEnds(ok) PROVE WorkInv'
  <2>1. CASE todo = <<>>
    BY <1>1, <1>3, <2>1, SMT DEF WorkInv, AckEnds
  <2>2. CASE todo # <<>>
    <3>1. pc' = "callback" /\ todo' \in Continues(ok)
      BY <1>3, <2>2 DEF AckEnds
    <3>2. todo' \in NoRead
      BY <1>1, <2>2, <3>1, Gives DEF WorkInv
    <3> QED BY <1>1, <3>1, <3>2, SMT DEF WorkInv
  <2> QED BY <2>1, <2>2
<1> QED BY <1>2, <1>3 DEF AckRead, AckWrite, RegisterRead

LEMMA WorkSend == WorkInv /\ HifSend => WorkInv'
<1> SUFFICES ASSUME WorkInv, HifSend PROVE WorkInv'
  OBVIOUS
<1>1. UNCHANGED <<slot, left, u8HifRXDone>>
  BY DEF HifSend, SendRequest, Poll, Fill, Submit, chip, ctx, work
<1>2. CASE SendRequest
  <2>1. pc' = "poll" /\ UNCHANGED todo
    BY <1>2 DEF SendRequest, work
  <2>2. todo = <<>> \/ (todo \in NoRead /\ Head(todo) = "respond")
    <3>1. CASE pc = "idle" BY <3>1 DEF WorkInv
    <3>2. CASE pc = "callback" /\ Head(todo) = "respond"
      BY <3>2, OneReadSteps, TwoReadsSteps, ThreeReadsSteps, SMT DEF WorkInv, Readable, Reads
    <3> QED BY <1>2, <3>1, <3>2 DEF SendRequest
  <2> QED BY <1>1, <2>1, <2>2, SMT DEF WorkInv
<1>3. CASE Poll \/ Fill \/ Submit
  <2>1. pc \in Sending
    BY <1>3 DEF Poll, Fill, Submit
  <2>2. \/ pc' \in Sending /\ UNCHANGED todo
        \/ \E awake : SendEnds(awake)
    BY <1>3 DEF Poll, Fill, Submit, RegisterRead, BlockWrite, SendFails
  <2>3. \/ pc' \in Sending /\ UNCHANGED todo
        \/ todo = <<>> /\ pc' = "idle" /\ todo' = <<>>
        \/ todo # <<>> /\ pc' = "callback" /\ todo' = Tail(todo)
    BY <2>2 DEF SendEnds
  <2>4. todo # <<>> => Tail(todo) \in NoRead
    BY <2>1, NoReadSteps, SMT DEF WorkInv
  <2>5. CASE pc' \in Sending /\ UNCHANGED todo
    BY <1>1, <2>1, <2>5, SMT DEF WorkInv
  <2>6. CASE todo = <<>> /\ pc' = "idle" /\ todo' = <<>>
    BY <1>1, <2>6, SMT DEF WorkInv
  <2>7. CASE todo # <<>> /\ pc' = "callback" /\ todo' = Tail(todo)
    BY <1>1, <2>4, <2>7, SMT DEF WorkInv
  <2> QED BY <2>3, <2>5, <2>6, <2>7
<1> QED BY <1>2, <1>3 DEF HifSend

LEMMA WorkNext == WorkInv /\ [Next]_vars => WorkInv'
<1>1. ASSUME WorkInv, UNCHANGED vars PROVE WorkInv'
  BY <1>1, SMT DEF vars, chip, ctx, work, WorkInv, Readable
<1> QED BY <1>1, WorkChip, WorkIsr, WorkRead, WorkMessage, WorkAck, WorkSend
     DEF Next, Superloop, HandleMessage

-----------------------------------------------------------------------------
(* A message from its interrupt to RX done                                 *)

HandTypeOK ==
  /\ {u8Interrupt, reg, busErrors, lost, slot.id} \subseteq Nat
  /\ pc = "decrement" => reg > 0
  /\ delivered \in Seq(Nat)

(* The flag of hif_isr: while it is set, the message is held, its interrupt *)
(* is cleared, and it is being fetched, handled or given back.             *)
Holding ==
  /\ irq => held
  /\ held => slot.id >= 1
  /\ u8HifRXDone => /\ held /\ ~irq
                    /\ \/ pc \in {"fetch", "callback", "ack"}
                       \/ pc \in Sending /\ todo # <<>>

(* The interrupt is masked only on the way to a message and in its hands.  *)
Masking ==
  /\ pc = "clear" => irq
  /\ ~sense => u8HifRXDone \/ pc = "clear"

GivingBack ==
  /\ pc = "ack" => u8HifRXDone \/ (todo # <<>> /\ Head(todo) = "stop")
  /\ pc = "ackWrite" => held /\ ~irq /\ reg = 0

Numbered ==
  /\ Len(delivered) + (IF irq \/ pc = "fetch" THEN 1 ELSE 0) = slot.id
  /\ \A i \in DOMAIN delivered : delivered[i] = i

Woken == irq => edge \/ u8Interrupt > 0 \/ pc \in {"ctrl0", "clear"}

Undisturbed == busErrors = 0 /\ lost = 0 /\ ~doubled

HandInv ==
  /\ HandTypeOK
  /\ Undisturbed => Holding /\ Masking /\ GivingBack /\ Numbered /\ Woken

LEMMA HandInit == Init => HandInv
<1>1. Init => HandTypeOK
  BY SMT DEF Init, HandTypeOK, NoMessage
<1>2. Init => Holding /\ Masking /\ GivingBack /\ Numbered /\ Woken
  BY SMT DEF Init, Holding, Masking, GivingBack, Numbered, Woken, NoMessage
<1> QED BY <1>1, <1>2 DEF HandInv

LEMMA HandPost == HandInv /\ WorkInv /\ Post => HandInv'
<1> SUFFICES ASSUME HandInv, WorkInv, Post PROVE HandInv'
  OBVIOUS
<1>1. /\ ~held /\ held' /\ irq' /\ edge' = (edge \/ (sense /\ ~irq))
      /\ slot' \in Messages /\ slot'.id = slot.id + 1
      /\ UNCHANGED <<sense, u8Interrupt, u8HifRXDone, pc, todo, reg, delivered, doubled,
                     busErrors, lost>>
  BY DEF Post, ctx, work, trace, count, bus
<1>2. HandTypeOK'
  BY <1>1, SMT DEF HandInv, HandTypeOK
<1>3. ASSUME Undisturbed PROVE (Holding /\ Masking /\ GivingBack /\ Numbered /\ Woken)'
  <2>1. Holding /\ Masking /\ GivingBack /\ Numbered /\ Woken
    BY <1>3 DEF HandInv
  <2>2. ~irq /\ ~u8HifRXDone /\ pc # "clear" /\ pc # "fetch" /\ sense
    BY <1>1, <2>1 DEF Holding, Masking, WorkInv
  <2>3. Holding' /\ Masking' /\ GivingBack'
    <3>1. slot'.id >= 1
      BY <1>1, SMT DEF HandInv, HandTypeOK
    <3> QED BY <1>1, <2>1, <2>2, <3>1 DEF Holding, Masking, GivingBack
  <2>4. Numbered'
    BY <1>1, <2>1, <2>2, SMT DEF Numbered, HandInv, HandTypeOK
  <2>5. Woken'
    BY <1>1, <2>2 DEF Woken
  <2> QED BY <2>3, <2>4, <2>5
<1> QED BY <1>1, <1>2, <1>3 DEF HandInv, Undisturbed

LEMMA HandChip == HandInv /\ (Grant \/ Isr) => HandInv'
<1> SUFFICES ASSUME HandInv, Grant \/ Isr PROVE HandInv'
  OBVIOUS
<1>1. /\ UNCHANGED <<slot, held, irq, sense, u8HifRXDone, pc, todo, reg, delivered, doubled,
                     busErrors, lost>>
      /\ \/ UNCHANGED <<edge, u8Interrupt>>
         \/ u8Interrupt' = IF irq THEN u8Interrupt + 1 ELSE u8Interrupt
  BY DEF Grant, Isr, chip, pin, ctx, work, trace, count, bus
<1> QED BY <1>1, SMT
     DEF HandInv, HandTypeOK, Holding, Masking, GivingBack, Numbered, Woken, Undisturbed

(* A step of the superloop that leaves the message alone.                  *)
LEMMA HandApart ==
  ASSUME HandInv,
         UNCHANGED <<slot, held, irq, sense, edge, u8Interrupt, u8HifRXDone, delivered, doubled>>,
         Undisturbed' => Undisturbed,
         {reg, busErrors, lost}' \subseteq Nat, pc' = "decrement" => reg' > 0,
         pc \notin {"ctrl0", "clear", "fetch"},
         pc' \notin {"clear", "fetch", "ackWrite"},
         Undisturbed' /\ u8HifRXDone => \/ pc' \in {"callback", "ack"}
                                        \/ pc' \in Sending /\ todo' # <<>>,
         pc' = "ack" => u8HifRXDone \/ (todo' # <<>> /\ Head(todo') = "stop")
  PROVE  HandInv'
  BY SMT DEF HandInv, HandTypeOK, Holding, Masking, GivingBack, Numbered, Woken

LEMMA HandIsr == HandInv /\ WorkInv /\ DmaInv /\ HandleIsr => HandInv'
<1> SUFFICES ASSUME HandInv, WorkInv, DmaInv, HandleIsr PROVE HandInv'
  OBVIOUS
<1> USE DEF HandInv, HandTypeOK, Holding, Masking, GivingBack, Numbered, Woken, Undisturbed
<1>1. CASE LoadCount
  BY <1>1, SMT DEF LoadCount, chip, pin, ctx, trace, count, bus
<1>2. CASE StoreCount
  BY <1>2, SMT DEF StoreCount, chip, pin, work, trace, count, bus
<1>3. CASE ReadInterrupt
  <2>1. /\ pc = "ctrl0"
        /\ UNCHANGED <<slot, held, irq, edge, u8Interrupt, u8HifRXDone, todo, reg, delivered,
                       doubled, lost>>
        /\ \/ UNCHANGED <<sense, pc>> /\ busErrors' \in {busErrors, busErrors + 1}
           \/ irq /\ ~sense' /\ pc' = "clear" /\ UNCHANGED busErrors
    BY <1>3 DEF ReadInterrupt, RegisterRead, chip, ctx, work, trace
  <2> QED BY <2>1, SMT
<1>4. CASE ClearInterrupt
  <2>1. /\ pc = "clear" /\ pc' = "fetch" /\ u8HifRXDone'
        /\ UNCHANGED <<slot, held, sense, edge, u8Interrupt, todo, reg, delivered, doubled,
                       busErrors>>
        /\ \/ ~irq' /\ UNCHANGED lost
           \/ lost' = lost + 1
    BY <1>4 DEF ClearInterrupt, RegisterWrite, pin, work, trace
  <2> QED BY <2>1, SMT
<1>5. CASE Fetch
  <2>1. /\ pc = "fetch" /\ u8HifRXDone
        /\ UNCHANGED <<slot, held, irq, edge, u8Interrupt, u8HifRXDone, reg, doubled, lost>>
        /\ \/ /\ delivered' = Append(delivered, slot.id)
              /\ pc' = "callback" /\ UNCHANGED <<sense, busErrors>>
           \/ /\ UNCHANGED delivered
              /\ pc' = "ctrl0" /\ busErrors' = busErrors + 1
    BY <1>5 DEF Fetch, BlockRead, RegisterRead, chip, ctx, WorkInv
  <2>2. HandTypeOK'
    <3>1. delivered \in Seq(Nat) /\ slot.id \in Nat
      OBVIOUS
    <3>2. Append(delivered, slot.id) \in Seq(Nat)
      BY <3>1, AppendProperties
    <3>3. delivered' \in Seq(Nat)
      BY <2>1, <3>1, <3>2, Zenon
    <3> QED BY <2>1, <3>3, SMT
  <2>3. ASSUME Undisturbed' PROVE (Holding /\ Masking /\ GivingBack /\ Numbered /\ Woken)'
    <3>1. /\ Undisturbed /\ delivered' = Append(delivered, slot.id) /\ pc' = "callback"
          /\ UNCHANGED sense
      BY <2>1, <2>3, SMT
    <3>2. slot.id = Len(delivered) + 1
      BY <2>1, <3>1, SMT
    <3>3. Numbered'
      BY <2>1, <3>1, <3>2, SMT
    <3>4. (Holding /\ Masking /\ GivingBack /\ Woken)'
      BY <2>1, <3>1, SMT
    <3> QED BY <3>3, <3>4
  <2> QED BY <2>2, <2>3
<1> QED BY <1>1, <1>2, <1>3, <1>4, <1>5 DEF HandleIsr

LEMMA HandCallback ==
  HandInv /\ WorkInv /\ (ReadBlock \/ Check \/ Stop \/ CallbackReturns) => HandInv'
<1> SUFFICES ASSUME HandInv, WorkInv, ReadBlock \/ Check \/ Stop \/ CallbackReturns
             PROVE HandInv'
  OBVIOUS
<1>1. /\ pc = "callback"
      /\ UNCHANGED <<slot, held, irq, sense, edge, u8Interrupt, u8HifRXDone, reg, delivered,
                     doubled, lost>>
      /\ busErrors' \in {busErrors, busErrors + 1}
  BY DEF ReadBlock, BlockRead, RegisterRead, Check, Stop, CallbackReturns,
         chip, pin, ctx, work, trace, count, bus
<1>2. {reg, busErrors, lost}' \subseteq Nat /\ (Undisturbed' => Undisturbed)
  BY <1>1, SMT DEF HandInv, HandTypeOK, Undisturbed
<1>3. /\ pc' \in {"callback", "ack", "idle"}
      /\ pc' = "idle" => ~u8HifRXDone
      /\ pc' = "ack" => u8HifRXDone \/ (todo' # <<>> /\ Head(todo') = "stop")
  <2>1. CASE ReadBlock
    <3>1. Head(todo) \in Reads /\ pc' \in {"callback", "ack"}
      BY <1>1, <2>1 DEF ReadBlock, BlockRead, RegisterRead
    <3>2. todo \notin NoRead
      BY <3>1, NoReadSteps, SMT DEF Reads
    <3> QED BY <1>1, <3>1, <3>2 DEF WorkInv, Readable
  <2>2. CASE Check BY <1>1, <2>2 DEF Check
  <2>3. CASE Stop
    <3>1. todo # <<>>
      BY <1>1, NoReadSteps, OneReadSteps, TwoReadsSteps, ThreeReadsSteps
         DEF WorkInv, Readable
    <3> QED BY <2>3, <3>1 DEF Stop, work
  <2>4. CASE CallbackReturns BY <2>4 DEF CallbackReturns
  <2> QED BY <2>1, <2>2, <2>3, <2>4
<1> QED BY <1>1, <1>2, <1>3, HandApart

LEMMA HandAck == HandInv /\ (AckRead \/ AckWrite) => HandInv'
<1> SUFFICES ASSUME HandInv, AckRead \/ AckWrite PROVE HandInv'
  OBVIOUS
<1> USE DEF HandInv, HandTypeOK, Holding, Masking, GivingBack, Numbered, Woken, Undisturbed
<1>1. CASE AckRead
  <2>1. /\ pc = "ack" /\ ~u8HifRXDone' /\ sense'
        /\ doubled' = (doubled \/ (~u8HifRXDone /\ todo # <<>> /\ Head(todo) = "stop"))
        /\ UNCHANGED <<slot, held, irq, edge, u8Interrupt, delivered, lost>>
    BY <1>1 DEF AckRead, RegisterRead, chip
  <2>2. CASE reg' = (IF irq THEN 1 ELSE 0) /\ pc' = "ackWrite" /\ UNCHANGED busErrors
    <3>1. HandTypeOK'
      BY <2>1, <2>2, SMT
    <3>2. ASSUME Undisturbed' PROVE Undisturbed /\ u8HifRXDone
      BY <2>1, <2>2, <3>2
    <3>3. ASSUME Undisturbed' PROVE held /\ ~irq /\ reg' = 0
      BY <2>1, <2>2, <3>2, <3>3
    <3> QED BY <2>1, <2>2, <3>1, <3>2, <3>3, SMT
  <2>3. CASE UNCHANGED reg /\ busErrors' = busErrors + 1 /\ AckEnds(FALSE)
    <3>1. pc' \in {"ctrl0", "callback"}
      BY <2>3 DEF AckEnds
    <3> QED BY <2>1, <2>3, <3>1, SMT
  <2> QED BY <1>1, <2>2, <2>3 DEF AckRead, RegisterRead
<1>2. CASE AckWrite
  <2>1. /\ pc = "ackWrite"
        /\ UNCHANGED <<slot, sense, u8Interrupt, u8HifRXDone, reg, delivered, doubled, busErrors>>
        /\ \/ ~held' /\ irq' = (reg = 1) /\ UNCHANGED lost
           \/ lost' = lost + 1
    BY <1>2 DEF AckWrite, RegisterWrite, ctx, trace
  <2>2. pc' \in {"idle", "callback"}
    BY <1>2 DEF AckWrite, AckEnds
  <2>3. HandTypeOK'
    BY <2>1, <2>2, SMT
  <2>4. ASSUME Undisturbed' PROVE Undisturbed /\ ~held' /\ irq' = (reg = 1)
    BY <2>1, <2>4, SMT
  <2>5. ASSUME Undisturbed' PROVE ~irq /\ reg = 0 /\ ~u8HifRXDone
    BY <2>1, <2>4, <2>5, SMT
  <2>6. ASSUME Undisturbed' PROVE ~irq'
    <3>1. reg # 1 BY <2>5, <2>6, SMT
    <3> QED BY <2>4, <2>6, <3>1, Zenon
  <2> QED BY <2>1, <2>2, <2>3, <2>4, <2>5, <2>6, SMT
<1> QED BY <1>1, <1>2

LEMMA HandSend == HandInv /\ WorkInv /\ DmaInv /\ HifSend => HandInv'
<1> SUFFICES ASSUME HandInv, WorkInv, DmaInv, HifSend PROVE HandInv'
  OBVIOUS
<1>1. /\ UNCHANGED <<slot, held, irq, sense, edge, u8Interrupt, u8HifRXDone, reg, delivered,
                     doubled>>
      /\ busErrors' \in {busErrors, busErrors + 1} /\ lost' \in {lost, lost + 1}
  BY DEF HifSend, SendRequest, Poll, Fill, Submit, RegisterWrite, RegisterRead, BlockWrite,
         SendFails, SendEnds, chip, pin, ctx, work, trace, bus
<1>2. {reg, busErrors, lost}' \subseteq Nat /\ (Undisturbed' => Undisturbed)
  BY <1>1, SMT DEF HandInv, HandTypeOK, Undisturbed
<1>3. CASE SendRequest
  <2>1. pc \in {"idle", "callback"} /\ pc' = "poll" /\ UNCHANGED todo
    BY <1>3 DEF SendRequest, work
  <2>2. pc = "callback" => todo # <<>>
    BY NoReadSteps, OneReadSteps, TwoReadsSteps, ThreeReadsSteps DEF WorkInv, Readable
  <2>3. Undisturbed' /\ u8HifRXDone => pc = "callback"
    BY <1>2, <2>1 DEF HandInv, Holding
  <2> QED BY <1>1, <1>2, <2>1, <2>2, <2>3, HandApart
<1>4. CASE Poll \/ Fill \/ Submit
  <2>1. pc \in Sending
    BY <1>4 DEF Poll, Fill, Submit
  <2>2. \/ pc' \in Sending /\ UNCHANGED todo
        \/ todo = <<>> /\ pc' = "idle"
        \/ pc' = "callback"
    BY <1>4 DEF Poll, Fill, Submit, RegisterRead, BlockWrite, SendFails, SendEnds
  <2>3. Undisturbed' /\ u8HifRXDone => todo # <<>>
    BY <1>2, <2>1 DEF HandInv, Holding
  <2> QED BY <1>1, <1>2, <2>1, <2>2, <2>3, HandApart
<1> QED BY <1>3, <1>4 DEF HifSend

LEMMA HandNext == HandInv /\ WorkInv /\ DmaInv /\ [Next]_vars => HandInv'
<1>1. ASSUME HandInv, UNCHANGED vars PROVE HandInv'
  BY <1>1, SMT DEF vars, chip, pin, ctx, work, trace, count, bus,
       HandInv, HandTypeOK, Holding, Masking, GivingBack, Numbered, Woken, Undisturbed
<1> QED BY <1>1, HandPost, HandChip, HandIsr, HandCallback, HandAck, HandSend
     DEF Next, Superloop, HandleMessage

-----------------------------------------------------------------------------
(* The theorems                                                            *)

IInv == DmaInv /\ WorkInv /\ HandInv

(* The inductive invariant of the host interface.                          *)
THEOREM HifInvariance == Spec => []IInv
<1>1. Init => IInv
  BY DmaInit, WorkInit, HandInit DEF IInv
<1>2. IInv /\ [Next]_vars => IInv'
  BY DmaNext, WorkNext, HandNext DEF IInv
<1> QED BY <1>1, <1>2, PTL DEF Spec

LEMMA NotDisturbed == HandInv /\ ~Disturbed => Undisturbed
  BY SMT DEF HandInv, HandTypeOK, Disturbed, Undisturbed

(* hif_isr: the messages reach their callbacks in the order the chip posts *)
(* them, none twice and none left out, while no access to the bus fails.   *)
THEOREM DeliveredInOrder == Spec => []InOrder
<1>1. IInv => InOrder
  <2> SUFFICES ASSUME IInv, ~Disturbed PROVE InOrder
    BY DEF InOrder
  <2>1. HandTypeOK /\ Holding /\ Numbered
    BY NotDisturbed DEF IInv, HandInv
  <2>2. pc = "fetch" => held
    BY <2>1 DEF IInv, WorkInv, Holding
  <2> QED BY <2>1, <2>2, SMT DEF InOrder, HandTypeOK, Holding, Numbered
<1> QED BY <1>1, HifInvariance, PTL

(* The pin interrupt, hif_handle_isr and hif_isr: a posted message is      *)
(* flagged, counted, or about to be fetched.                               *)
THEOREM NoInterruptLost == Spec => []NoWakeupLost
<1>1. IInv => NoWakeupLost
  BY NotDisturbed DEF IInv, HandInv, Woken, NoWakeupLost
<1> QED BY <1>1, HifInvariance, PTL

(* hif_receive: a callback reads only from the message it was called for,  *)
(* and only until it has given it back.                                    *)
THEOREM ReadsOnlyHeld == Spec => []ReadsHeld
<1>1. IInv => ReadsHeld
  <2> SUFFICES ASSUME IInv, pc = "callback", Head(todo) \in Reads, ~Disturbed
               PROVE  held /\ slot.id = delivered[Len(delivered)]
    BY DEF ReadsHeld
  <2>1. HandTypeOK /\ Holding /\ Numbered
    BY NotDisturbed DEF IInv, HandInv
  <2>2. todo \notin NoRead
    BY NoReadSteps, SMT DEF Reads
  <2>3. held /\ ~irq
    BY <2>1, <2>2 DEF IInv, WorkInv, Readable, Holding
  <2> QED BY <2>1, <2>3, SMT DEF HandTypeOK, Holding, Numbered
<1> QED BY <1>1, HifInvariance, PTL

-----------------------------------------------------------------------------
(* Types                                                                   *)

Booleans ==
  /\ held \in BOOLEAN /\ irq \in BOOLEAN /\ want \in BOOLEAN /\ sense \in BOOLEAN
  /\ edge \in BOOLEAN /\ u8HifRXDone \in BOOLEAN /\ doubled \in BOOLEAN

Posted ==
  /\ slot \in Messages \cup {NoMessage}
  /\ delivered \in Seq(0 .. MaxMessages)

(* Sends are not nested: each wakes the chip and lets it sleep again.      *)
Awake ==
  /\ u8ChipSleep \in {0, 1}
  /\ pc \notin Sending => u8ChipSleep = 0

Counters == {failedSends, sends, timeouts} \subseteq Nat

TypeInv == Booleans /\ Posted /\ Awake /\ Counters

LEMMA TypeInit == Init => TypeInv
<1>1. Init => Booleans
  BY Zenon DEF Init, Booleans
<1>2. Init => Posted /\ Awake /\ Counters
  BY SMT DEF Init, Posted, Awake, Counters
<1> QED BY <1>1, <1>2 DEF TypeInv

LEMMA BooleansNext == Booleans /\ [Next]_vars => Booleans'
<1> SUFFICES ASSUME Booleans, [Next]_vars PROVE Booleans'
  OBVIOUS
<1> USE DEF Booleans
<1>1. CASE Post BY <1>1, Zenon DEF Post, dma, ctx, trace
<1>2. CASE Grant BY <1>2, Zenon DEF Grant, chip, pin, ctx, trace
<1>3. CASE Isr BY <1>3, Zenon DEF Isr, chip, dma, trace
<1>4. CASE HandleIsr
  <2>1. UNCHANGED <<want, edge, doubled, held>>
    BY <1>4 DEF HandleIsr, LoadCount, StoreCount, ReadInterrupt, ClearInterrupt, Fetch,
                chip, dma, pin, trace
  <2>2. /\ irq' \in {irq, FALSE} /\ sense' \in {sense, TRUE, FALSE}
        /\ u8HifRXDone' \in {u8HifRXDone, TRUE}
    BY <1>4 DEF HandleIsr, LoadCount, StoreCount, ReadInterrupt, ClearInterrupt, Fetch,
                RegisterRead, RegisterWrite, BlockRead, chip, pin, ctx
  <2> QED BY <2>1, <2>2, Zenon
<1>5. CASE ReadBlock \/ Check \/ Stop \/ CallbackReturns
  BY <1>5, Zenon DEF ReadBlock, Check, Stop, CallbackReturns, chip, dma, pin, ctx, trace
<1>6. CASE AckRead
  BY <1>6, Zenon DEF AckRead, chip, dma
<1>7. CASE AckWrite
  <2>1. UNCHANGED <<want, sense, u8HifRXDone, doubled>> /\ edge' = (edge \/ (sense /\ ~irq /\ irq'))
    BY <1>7 DEF AckWrite, dma, ctx, trace
  <2>2. held' \in {held, FALSE} /\ (irq' = irq \/ irq' = (reg = 1))
    BY <1>7 DEF AckWrite, RegisterWrite
  <2> QED BY <2>1, <2>2, Zenon
<1>8. CASE HifSend
  <2>1. UNCHANGED <<held, irq, sense, edge, u8HifRXDone, doubled>>
    BY <1>8 DEF HifSend, SendRequest, Poll, Fill, Submit, chip, pin, ctx, trace
  <2>2. want' \in {want, TRUE}
    BY <1>8 DEF HifSend, SendRequest, Poll, Fill, Submit, RegisterWrite, dma
  <2> QED BY <2>1, <2>2, Zenon
<1>9. CASE UNCHANGED vars
  BY <1>9, Zenon DEF vars, chip, dma, pin, ctx, trace
<1> QED BY <1>1, <1>2, <1>3, <1>4, <1>5, <1>6, <1>7, <1>8, <1>9
     DEF Next, Superloop, HandleMessage

LEMMA PostedNext == Posted /\ [Next]_vars => Posted'
<1> SUFFICES ASSUME Posted, [Next]_vars PROVE Posted'
  OBVIOUS
<1>1. \/ slot' \in Messages
      \/ UNCHANGED slot
  BY DEF Next, Post, Grant, Isr, Superloop, HandleIsr, LoadCount, StoreCount, ReadInterrupt,
         ClearInterrupt, Fetch, HandleMessage, ReadBlock, Check, Stop, CallbackReturns, AckRead,
         AckWrite, HifSend, SendRequest, Poll, Fill, Submit, chip, vars
<1>2. delivered' \in {delivered, Append(delivered, slot.id)}
  BY DEF Next, Post, Grant, Isr, Superloop, HandleIsr, LoadCount, StoreCount, ReadInterrupt,
         ClearInterrupt, Fetch, HandleMessage, ReadBlock, Check, Stop, CallbackReturns, AckRead,
         AckWrite, HifSend, SendRequest, Poll, Fill, Submit, BlockRead, RegisterRead, trace, vars
<1>3. slot.id \in 0 .. MaxMessages
  BY BoundsAssumption, SMT DEF Posted, Messages, NoMessage
<1>4. Append(delivered, slot.id) \in Seq(0 .. MaxMessages)
  BY <1>3, AppendProperties DEF Posted
<1> QED BY <1>1, <1>2, <1>4, Zenon DEF Posted

LEMMA AwakeNext == Awake /\ DmaInv /\ [Next]_vars => Awake'
<1> SUFFICES ASSUME Awake, DmaInv, [Next]_vars PROVE Awake'
  OBVIOUS
<1>1. CASE Post \/ Grant \/ Isr \/ UNCHANGED vars
  BY <1>1 DEF Post, Grant, Isr, vars, Awake
<1>2. CASE HandleIsr \/ HandleMessage
  <2>1. UNCHANGED u8ChipSleep
    BY <1>2 DEF HandleIsr, LoadCount, StoreCount, ReadInterrupt, ClearInterrupt, Fetch,
         HandleMessage, ReadBlock, Check, Stop, CallbackReturns, AckRead, AckWrite
  <2>2. \/ pc = "idle" \/ pc = "decrement" \/ pc = "ctrl0" \/ pc = "clear" \/ pc = "fetch"
        \/ pc = "callback" \/ pc = "ack" \/ pc = "ackWrite"
    BY <1>2, Zenon DEF HandleIsr, LoadCount, StoreCount, ReadInterrupt, ClearInterrupt, Fetch,
         HandleMessage, ReadBlock, Check, Stop, CallbackReturns, AckRead, AckWrite
  <2> QED BY <2>1, <2>2, SMT DEF Awake
<1>3. CASE SendRequest
  BY <1>3, SMT DEF SendRequest, HifChipWake, Awake
<1>4. CASE Poll \/ Fill \/ Submit
  <2>1. pc \in Sending
    BY <1>4 DEF Poll, Fill, Submit
  <2>2. \/ pc' \in Sending /\ UNCHANGED u8ChipSleep
        \/ u8ChipSleep' = HifChipSleep(u8ChipSleep)
    BY <1>4 DEF Poll, Fill, Submit, RegisterRead, BlockWrite, SendFails, SendEnds
  <2> QED BY <2>1, <2>2, SMT DEF Awake, HifChipSleep
<1> QED BY <1>1, <1>2, <1>3, <1>4 DEF Next, Superloop, HifSend

LEMMA CountersNext == Counters /\ [Next]_vars => Counters'
<1> SUFFICES ASSUME Counters, [Next]_vars PROVE Counters'
  OBVIOUS
<1>1. /\ failedSends' \in {failedSends, failedSends + 1} /\ sends' \in {sends, sends + 1}
      /\ timeouts' \in {timeouts, timeouts + 1}
  BY DEF Next, Post, Grant, Isr, Superloop, HandleIsr, LoadCount, StoreCount, ReadInterrupt,
         ClearInterrupt, Fetch, HandleMessage, ReadBlock, Check, Stop, CallbackReturns, AckRead,
         AckWrite, HifSend, SendRequest, Poll, Fill, Submit, RegisterRead, BlockWrite, SendFails,
         count, vars
<1> QED BY <1>1, SMT DEF Counters

(* A callback's remaining steps are a sequence of steps.                   *)
Outlines == {<<>>} \cup NoRead \cup OneRead \cup TwoReads \cup ThreeReads

LEMMA OutlineIsSeq ==
  ASSUME NEW t \in Outlines
  PROVE  t \in Seq(Reads \cup {"check", "stop", "respond", "end"})
<1>1. CASE t = <<>> BY <1>1, SMT DEF Reads
<1>2. CASE t = <<"end">> BY <1>2, SMT DEF Reads
<1>3. CASE t = <<"respond", "end">> BY <1>3, SMT DEF Reads
<1>4. CASE t = <<"stop", "end">> BY <1>4, SMT DEF Reads
<1>5. CASE t = <<"stop", "respond", "end">> BY <1>5, SMT DEF Reads
<1>6. CASE t = <<"check", "respond", "end">> BY <1>6, SMT DEF Reads
<1>7. CASE t = <<"read", "end">> BY <1>7, SMT DEF Reads
<1>8. CASE t = <<"chunk", "end">> BY <1>8, SMT DEF Reads
<1>9. CASE t = <<"cert", "check", "respond", "end">> BY <1>9, SMT DEF Reads
<1>10. CASE t = <<"cert", "respond", "end">> BY <1>10, SMT DEF Reads
<1>11. CASE t = <<"read", "respond", "end">> BY <1>11, SMT DEF Reads
<1>12. CASE t = <<"check", "cert", "check", "respond", "end">> BY <1>12, SMT DEF Reads
<1>13. CASE t = <<"chunk", "chunk", "end">> BY <1>13, SMT DEF Reads
<1>14. CASE t = <<"cert", "check", "cert", "check", "respond", "end">> BY <1>14, SMT DEF Reads
<1>15. CASE t = <<"read", "cert", "respond", "end">> BY <1>15, SMT DEF Reads
<1>16. CASE t = <<"recvReply", "chunk", "chunk", "end">> BY <1>16, SMT DEF Reads
<1>17. CASE t = <<"read", "cert", "check", "cert", "check", "respond", "end">> BY <1>17, SMT DEF Reads
<1> QED BY <1>1, <1>2, <1>3, <1>4, <1>5, <1>6, <1>7, <1>8, <1>9, <1>10, <1>11, <1>12, <1>13, <1>14, <1>15, <1>16, <1>17
     DEF Outlines, NoRead, OneRead, TwoReads, ThreeReads

LEMMA TodoIsOutline == WorkInv => todo \in Outlines
  BY DEF WorkInv, Readable, Outlines

(* The types, among them that hif_chip_wake and hif_chip_sleep are balanced. *)
THEOREM TypeCorrect == Spec => []TypeOK
<1>1. Init => TypeInv /\ IInv
  BY TypeInit, DmaInit, WorkInit, HandInit DEF IInv
<1>2. TypeInv /\ IInv /\ [Next]_vars => (TypeInv /\ IInv)'
  BY BooleansNext, PostedNext, AwakeNext, CountersNext, DmaNext, WorkNext, HandNext
     DEF TypeInv, IInv
<1>3. TypeInv /\ IInv => TypeOK
  <2> SUFFICES ASSUME TypeInv, IInv PROVE TypeOK
    OBVIOUS
  <2>1. {held, irq, want, sense, edge, u8HifRXDone, doubled} \subseteq BOOLEAN
    BY Zenon DEF TypeInv, Booleans
  <2>2. {owned, u8Interrupt, left, reg, busErrors, lost, failedSends, sends, timeouts} \subseteq Nat
    BY SMT DEF TypeInv, Counters, IInv, DmaInv, DmaTypeOK, WorkInv, HandInv, HandTypeOK
  <2>3. pc \in {"idle", "decrement", "ctrl0", "clear", "fetch", "callback", "ack", "ackWrite",
               "poll", "fill", "submit"}
    BY DEF IInv, WorkInv
  <2>4. todo \in Seq(Reads \cup {"check", "stop", "respond", "end"})
    BY TodoIsOutline, OutlineIsSeq DEF IInv
  <2> QED BY <2>1, <2>2, <2>3, <2>4
          DEF TypeOK, TypeInv, Posted, Awake, IInv, DmaInv, DmaTypeOK
<1> QED BY <1>1, <1>2, <1>3, PTL DEF Spec

-----------------------------------------------------------------------------
(* Handling a message ends                                                 *)

(* What is left to do: steps of the callback, where a check may add one,   *)
Effort(t) == IF t = <<>> THEN 0 ELSE 50 * Len(t) + (IF Head(t) = "check" THEN 25 ELSE 0)

(* accesses to the bus until the next step,                                *)
Stage ==
  [callback |-> 36, ack |-> 35, ackWrite |-> 34, poll |-> 34, fill |-> 33, submit |-> 32,
   idle |-> 30, decrement |-> 29, ctrl0 |-> 28, clear |-> 27, fetch |-> 26]

(* a whole callback for a message that was not fetched,                    *)
Coming == IF irq \/ pc = "fetch" THEN 600 ELSE 0

(* and a buffer to grant and an interrupt to serve.                        *)
Waits == (IF want THEN 1 ELSE 0) + (IF edge THEN 1 ELSE 0)

Rank == 50 * (MaxSends - sends) + Coming + Effort(todo) + Stage[pc] + Waits

(* Each step with the same message in the chip's buffer leaves less to do. *)
Lower == held /\ held' /\ ~Disturbed' => Rank \in Nat /\ Rank' \in Nat /\ Rank' < Rank
HandlingEnds == [][Lower]_vars

(* The chip or the host always has a step to take: an interrupt is flagged *)
(* or counted, or the superloop is on its way.  In poll it is the chip's   *)
(* grant if the request stands, and the host's next access if not.         *)
HandlerReady ==
  held /\ ~Disturbed =>
    \/ edge
    \/ pc = "idle" /\ u8Interrupt > 0
    \/ pc = "ctrl0" /\ irq
    \/ pc \in {"decrement", "clear", "fetch"} \cup Acking \cup Sending
    \/ pc = "callback" /\ Head(todo) \in Reads \cup {"check", "stop", "respond", "end"}

LEMMA Lengths ==
  ASSUME NEW t \in Outlines
  PROVE  /\ Len(t) <= 7
         /\ t \in TwoReads \cup ThreeReads => Len(t) >= 3
         /\ t # <<>> /\ Head(t) = "check" => Len(t) >= 3
<1>1. CASE t = <<>>
  <2>1. t \notin TwoReads \cup ThreeReads
    BY <1>1, TwoReadsSteps, ThreeReadsSteps
  <2> QED BY <1>1, <2>1, SMT
<1>2. CASE t \in NoRead
  <2>1. t \notin TwoReads \cup ThreeReads
    BY <1>2, NoReadSteps, TwoReadsSteps, ThreeReadsSteps, SMT DEF Reads
  <2>2. Len(t) <= 7 /\ (Head(t) = "check" => Len(t) >= 3)
    <3>1. CASE t = <<"end">> BY <3>1, SMT
    <3>2. CASE t = <<"respond", "end">> BY <3>2, SMT
    <3>3. CASE t = <<"stop", "end">> BY <3>3, SMT
    <3>4. CASE t = <<"stop", "respond", "end">> BY <3>4, SMT
    <3>5. CASE t = <<"check", "respond", "end">> BY <3>5, SMT
    <3> QED BY <1>2, <3>1, <3>2, <3>3, <3>4, <3>5 DEF NoRead
  <2> QED BY <2>1, <2>2
<1>3. CASE t \in OneRead
  <2>1. t \notin TwoReads \cup ThreeReads
    BY <1>3, SMTT(60) DEF OneRead, TwoReads, ThreeReads
  <2>2. Len(t) <= 7 /\ (Head(t) = "check" => Len(t) >= 3)
    <3>1. CASE t = <<"read", "end">> BY <3>1, SMT
    <3>2. CASE t = <<"chunk", "end">> BY <3>2, SMT
    <3>3. CASE t = <<"cert", "check", "respond", "end">> BY <3>3, SMT
    <3>4. CASE t = <<"cert", "respond", "end">> BY <3>4, SMT
    <3>5. CASE t = <<"read", "respond", "end">> BY <3>5, SMT
    <3>6. CASE t = <<"check", "cert", "check", "respond", "end">> BY <3>6, SMT
    <3> QED BY <1>3, <3>1, <3>2, <3>3, <3>4, <3>5, <3>6 DEF OneRead
  <2> QED BY <2>1, <2>2
<1>4. CASE t \in TwoReads \cup ThreeReads
  <2>1. Len(t) <= 7 /\ Len(t) >= 3
    <3>1. CASE t = <<"chunk", "chunk", "end">> BY <3>1, SMT
    <3>2. CASE t = <<"cert", "check", "cert", "check", "respond", "end">> BY <3>2, SMT
    <3>3. CASE t = <<"read", "cert", "respond", "end">> BY <3>3, SMT
    <3>4. CASE t = <<"recvReply", "chunk", "chunk", "end">> BY <3>4, SMT
    <3>5. CASE t = <<"read", "cert", "check", "cert", "check", "respond", "end">> BY <3>5, SMT
    <3> QED BY <1>4, <3>1, <3>2, <3>3, <3>4, <3>5 DEF TwoReads, ThreeReads
  <2> QED BY <2>1, Zenon
<1> QED BY <1>1, <1>2, <1>3, <1>4 DEF Outlines

LEMMA EffortFalls ==
  ASSUME NEW S, NEW t \in Seq(S)
  PROVE  /\ Effort(t) \in Nat /\ Effort(t) <= 50 * Len(t) + 25
         /\ t # <<>> => Effort(Tail(t)) + 25 <= Effort(t) /\ Effort(t) >= 50
         /\ t # <<>> => 50 * Len(t) <= Effort(t)
<1>1. Len(t) \in Nat /\ (t # <<>> => Len(t) >= 1 /\ Len(Tail(t)) = Len(t) - 1)
  BY LenProperties, EmptySeq, HeadTailProperties
<1>2. CASE t = <<>>
  <2>1. Effort(t) = 0 /\ Len(t) = 0
    BY <1>2 DEF Effort
  <2> QED BY <1>2, <2>1
<1>3. CASE t # <<>>
  <2>1. Effort(t) \in {50 * Len(t), 50 * Len(t) + 25}
    BY <1>1, <1>3, SMT DEF Effort
  <2>2. Effort(Tail(t)) \in {0, 50 * Len(Tail(t)), 50 * Len(Tail(t)) + 25}
    BY <1>1, <1>3, SMT DEF Effort
  <2> QED BY <1>1, <1>3, <2>1, <2>2, SMT
<1> QED BY <1>2, <1>3

LEMMA StageOf ==
  /\ Stage["callback"] = 36 /\ Stage["ack"] = 35 /\ Stage["ackWrite"] = 34
  /\ Stage["poll"] = 34 /\ Stage["fill"] = 33 /\ Stage["submit"] = 32
  /\ Stage["idle"] = 30 /\ Stage["decrement"] = 29 /\ Stage["ctrl0"] = 28
  /\ Stage["clear"] = 27 /\ Stage["fetch"] = 26
  BY DEF Stage

SendsBounded == sends \in 0 .. MaxSends

LEMMA SendsNext == SendsBounded /\ [Next]_vars => SendsBounded'
<1> SUFFICES ASSUME SendsBounded, [Next]_vars PROVE SendsBounded'
  OBVIOUS
<1>1. UNCHANGED sends \/ (sends < MaxSends /\ sends' = sends + 1)
  BY DEF Next, Post, Grant, Isr, Superloop, HandleIsr, LoadCount, StoreCount, ReadInterrupt,
         ClearInterrupt, Fetch, HandleMessage, ReadBlock, Check, Stop, CallbackReturns, AckRead,
         AckWrite, HifSend, SendRequest, Poll, Fill, Submit, count, vars
<1> QED BY <1>1, BoundsAssumption, SMT DEF SendsBounded

RankTyped ==
  /\ Effort(todo) \in Nat /\ Stage[pc] \in Nat /\ Coming \in {0, 600} /\ Waits \in 0 .. 2
  /\ 50 * (MaxSends - sends) \in Nat /\ Rank \in Nat

LEMMA RankIsNat == IInv /\ SendsBounded => RankTyped
<1> SUFFICES ASSUME IInv, SendsBounded PROVE RankTyped
  OBVIOUS
<1>1. todo \in Seq(Reads \cup {"check", "stop", "respond", "end"})
  BY TodoIsOutline, OutlineIsSeq DEF IInv
<1>2. Effort(todo) \in Nat
  BY <1>1, EffortFalls
<1>3. Stage[pc] \in Nat
  BY StageOf, SMT DEF IInv, WorkInv
<1>4. Coming \in {0, 600} /\ Waits \in 0 .. 2
  BY SMT DEF Coming, Waits
<1>5. 50 * (MaxSends - sends) \in Nat
  BY BoundsAssumption, SMT DEF SendsBounded
<1> QED BY <1>2, <1>3, <1>4, <1>5, SMT DEF Rank, RankTyped

(* A step that leaves the sends as they are and what comes no more.        *)
LEMMA RankFalls ==
  ASSUME RankTyped, RankTyped', UNCHANGED sends, Coming' <= Coming,
         Effort(todo') + Stage[pc'] + Waits' < Effort(todo) + Stage[pc] + Waits
  PROVE  Rank' < Rank
  BY SMT DEF Rank, RankTyped

(* The chip and the interrupt.                                             *)
LEMMA RankChip ==
  ASSUME RankTyped, RankTyped', held, Post \/ Grant \/ Isr
  PROVE  Rank' < Rank
<1>1. CASE Post BY <1>1 DEF Post
<1>2. CASE Grant
  <2>1. Waits' = Waits - 1 /\ UNCHANGED <<sends, irq, pc, todo>>
    BY <1>2, SMT DEF Grant, Waits, chip, pin, work, count
  <2> QED BY <2>1, RankFalls, SMT DEF RankTyped, Coming
<1>3. CASE Isr
  <2>1. Waits' = Waits - 1 /\ UNCHANGED <<sends, irq, pc, todo>>
    BY <1>3, SMT DEF Isr, Waits, chip, dma, work, count
  <2> QED BY <2>1, RankFalls, SMT DEF RankTyped, Coming
<1> QED BY <1>1, <1>2, <1>3

(* The way to a message.                                                   *)
LEMMA RankIsr ==
  ASSUME IInv, RankTyped, RankTyped', held, Undisturbed, Undisturbed', HandleIsr
  PROVE  Rank' < Rank \/ UNCHANGED vars
<1>1. Waits' = Waits /\ UNCHANGED sends
  <2>1. UNCHANGED <<want, edge, sends>>
    BY DEF HandleIsr, LoadCount, StoreCount, ReadInterrupt, ClearInterrupt, Fetch, dma, pin, count
  <2> QED BY <2>1 DEF Waits
<1>2. CASE LoadCount \/ StoreCount
  <2>1. /\ UNCHANGED <<irq, todo>> /\ pc # "fetch" /\ pc' # "fetch"
        /\ \/ pc = "idle" /\ pc' = "decrement"
           \/ pc = "decrement" /\ pc' = "ctrl0"
    BY <1>2 DEF LoadCount, StoreCount, chip, work
  <2>2. Stage[pc'] < Stage[pc]
    BY <2>1, StageOf, SMT
  <2> QED BY <1>1, <2>1, <2>2, RankFalls, SMT DEF RankTyped, Coming
<1>3. CASE ReadInterrupt
  <2>1. UNCHANGED vars \/ (pc = "ctrl0" /\ pc' = "clear" /\ UNCHANGED <<irq, todo>>)
    BY <1>3 DEF ReadInterrupt, RegisterRead, Undisturbed, vars, chip, dma, pin, ctx, work, trace,
       count, bus
  <2>2. CASE pc = "ctrl0" /\ pc' = "clear" /\ UNCHANGED <<irq, todo>>
    <3>1. Stage[pc'] < Stage[pc]
      BY <2>2, StageOf, SMT
    <3> QED BY <1>1, <2>2, <3>1, RankFalls, SMT DEF RankTyped, Coming
  <2> QED BY <2>1, <2>2
<1>4. CASE ClearInterrupt
  <2>1. pc = "clear" /\ pc' = "fetch" /\ irq /\ UNCHANGED todo
    BY <1>4 DEF ClearInterrupt, work, IInv, HandInv, Masking
  <2>2. Stage[pc'] < Stage[pc] /\ Coming' = Coming
    BY <2>1, StageOf, SMT DEF Coming
  <2> QED BY <1>1, <2>1, <2>2, RankFalls, SMT DEF RankTyped
<1>5. CASE Fetch
  <2>1. /\ pc = "fetch" /\ pc' = "callback" /\ ~irq /\ UNCHANGED irq
        /\ todo = <<>> /\ todo' = Plan[slot.kind]
    <3>1. u8HifRXDone /\ todo = <<>>
      BY <1>5 DEF Fetch, IInv, WorkInv
    <3>2. ~irq
      BY <3>1 DEF IInv, HandInv, Holding
    <3> QED BY <1>5, <3>1, <3>2 DEF Fetch, BlockRead, RegisterRead, Undisturbed, chip
  <2>2. Effort(todo) = 0 /\ Effort(todo') <= 375
    <3>1. todo' \in Outlines
      BY <2>1, PlanReads DEF IInv, WorkInv, Outlines
    <3>2. todo' \in Seq(Reads \cup {"check", "stop", "respond", "end"})
      BY <3>1, OutlineIsSeq
    <3>3. Effort(todo') <= 50 * Len(todo') + 25 /\ Len(todo') \in Nat
      BY <3>2, EffortFalls, LenProperties
    <3>4. Len(todo') <= 7
      BY <3>1, Lengths
    <3>5. Effort(todo) = 0
      BY <2>1 DEF Effort
    <3>6. Effort(todo') <= 375
      BY <3>3, <3>4, SMT DEF RankTyped
    <3> QED BY <3>5, <3>6
  <2>3. Coming = 600 /\ Coming' = 0 /\ Stage[pc] = 26 /\ Stage[pc'] = 36
    BY <2>1, StageOf, SMT DEF Coming
  <2> QED BY <1>1, <2>2, <2>3, SMT DEF RankTyped, Rank
<1> QED BY <1>2, <1>3, <1>4, <1>5 DEF HandleIsr

LEMMA StopEfforts ==
  Effort(<<"stop", "end">>) = 100 /\ Effort(<<"stop", "respond", "end">>) = 150
<1>1. /\ <<"stop", "end">> # <<>> /\ Len(<<"stop", "end">>) = 2
      /\ Head(<<"stop", "end">>) # "check"
  BY SMT
<1>2. /\ <<"stop", "respond", "end">> # <<>> /\ Len(<<"stop", "respond", "end">>) = 3
      /\ Head(<<"stop", "respond", "end">>) # "check"
  BY SMT
<1> QED BY <1>1, <1>2, SMT DEF Effort

(* A callback's step leaves it less to do, also when it stops early.       *)
LEMMA CallbackEfforts ==
  ASSUME WorkInv, todo # <<>>
  PROVE  /\ Effort(todo) \in Nat /\ Effort(todo) >= 50 /\ Effort(Tail(todo)) + 25 <= Effort(todo)
         /\ Head(todo) = "check" => Effort(<<"stop", "respond", "end">>) + 25 <= Effort(todo)
         /\ Head(todo) \in Reads => \A t \in Continues(TRUE) : Effort(t) + 25 <= Effort(todo)
<1>1. todo \in Outlines /\ todo \in Seq(Reads \cup {"check", "stop", "respond", "end"})
  BY TodoIsOutline, OutlineIsSeq
<1>2. /\ Effort(todo) \in Nat /\ Effort(todo) >= 50 /\ Effort(Tail(todo)) + 25 <= Effort(todo)
      /\ 50 * Len(todo) <= Effort(todo) /\ Len(todo) \in Nat
  BY <1>1, EffortFalls, LenProperties
<1>3. ASSUME Head(todo) = "check" PROVE Effort(<<"stop", "respond", "end">>) + 25 <= Effort(todo)
  <2>1. Len(todo) >= 3
    BY <1>1, <1>3, Lengths
  <2>2. Effort(todo) = 50 * Len(todo) + 25
    BY <1>3 DEF Effort
  <2> QED BY <1>2, <2>1, <2>2, StopEfforts, SMT
<1>4. ASSUME Head(todo) \in Reads, NEW t \in Continues(TRUE) PROVE Effort(t) + 25 <= Effort(todo)
  <2>1. CASE t = Tail(todo) BY <1>2, <2>1
  <2>2. CASE /\ t = <<"stop", "end">> /\ Head(Tail(todo)) = "chunk"
    <3>1. todo \notin NoRead /\ todo \notin OneRead
      <4>1. todo \notin NoRead
        BY <1>4, NoReadSteps, SMT DEF Reads
      <4>2. Head(todo) # "check"
        BY <1>4 DEF Reads
      <4> QED BY <2>2, <4>1, <4>2, OneReadSteps
    <3>2. todo \in TwoReads \cup ThreeReads
      BY <1>1, <3>1 DEF Outlines
    <3>3. Len(todo) >= 3
      BY <1>1, <3>2, Lengths
    <3> QED BY <1>2, <2>2, <3>3, StopEfforts, SMT
  <2> QED BY <1>4, <2>1, <2>2 DEF Continues
<1> QED BY <1>2, <1>3, <1>4

(* The callback, and giving the message back.                              *)
LEMMA RankMessage ==
  ASSUME IInv, RankTyped, RankTyped', held, held', Undisturbed, Undisturbed', HandleMessage
  PROVE  Rank' < Rank
<1> busErrors' # busErrors + 1 /\ lost' # lost + 1
  BY SMT DEF Undisturbed
<1>1. ~AckWrite
  BY DEF AckWrite, RegisterWrite
<1>2. Waits' = Waits /\ Coming' = Coming /\ UNCHANGED sends
  <2>1. UNCHANGED <<want, edge, sends, irq>> /\ pc # "fetch" /\ pc' # "fetch"
    BY <1>1 DEF HandleMessage, ReadBlock, BlockRead, RegisterRead, Check, Stop, CallbackReturns,
       AckRead, AckEnds, dma, pin, chip, count
  <2> QED BY <2>1 DEF Waits, Coming
<1>3. pc = "callback" => todo # <<>>
  BY NoReadSteps, OneReadSteps, TwoReadsSteps, ThreeReadsSteps DEF IInv, WorkInv, Readable
<1>4. ASSUME UNCHANGED todo, Stage[pc'] < Stage[pc] PROVE Rank' < Rank
  BY <1>2, <1>4, RankFalls, SMT DEF RankTyped
<1>5. ASSUME pc = "callback", pc' \in {"callback", "ack", "idle"},
             Effort(todo') + 25 <= Effort(todo)
      PROVE  Rank' < Rank
  <2>1. Stage[pc'] <= Stage[pc]
    BY <1>5, StageOf, SMT
  <2> QED BY <1>2, <1>5, <2>1, RankFalls, SMT DEF RankTyped
<1>6. CASE ReadBlock
  <2>1. /\ pc = "callback" /\ Head(todo) \in Reads
        /\ \/ pc' = "ack" /\ UNCHANGED todo
           \/ todo' \in Continues(TRUE) /\ UNCHANGED pc
    BY <1>6 DEF ReadBlock, BlockRead, RegisterRead
  <2>2. CASE pc' = "ack" /\ UNCHANGED todo
    BY <1>4, <2>1, <2>2, StageOf
  <2>3. CASE todo' \in Continues(TRUE) /\ UNCHANGED pc
    BY <1>3, <1>5, <2>1, <2>3, CallbackEfforts DEF IInv
  <2> QED BY <2>1, <2>2, <2>3
<1>7. CASE Check
  BY <1>3, <1>5, <1>7, CallbackEfforts DEF Check, IInv
<1>8. CASE Stop
  BY <1>4, <1>8, StageOf DEF Stop, work
<1>9. CASE CallbackReturns
  <2>1. pc = "callback" /\ todo' = <<>> /\ pc' \in {"ack", "idle"}
    BY <1>9 DEF CallbackReturns
  <2>2. Effort(todo) >= 50 /\ Effort(todo) \in Nat
    BY <1>3, <2>1, CallbackEfforts DEF IInv
  <2>3. Effort(todo') = 0
    BY <2>1 DEF Effort
  <2> QED BY <1>5, <2>1, <2>2, <2>3, SMT
<1>10. CASE AckRead
  <2>1. pc = "ack" /\ pc' = "ackWrite" /\ UNCHANGED todo
    BY <1>10 DEF AckRead, RegisterRead
  <2> QED BY <1>4, <2>1, StageOf
<1> QED BY <1>1, <1>6, <1>7, <1>8, <1>9, <1>10 DEF HandleMessage

(* A packet, sent by the callback or by itself.                            *)
LEMMA RankSend ==
  ASSUME IInv, RankTyped, RankTyped', SendsBounded, held, Undisturbed, Undisturbed', HifSend
  PROVE  Rank' < Rank
<1> busErrors' # busErrors + 1 /\ lost' # lost + 1
  BY SMT DEF Undisturbed
<1>1. Coming' = Coming
  <2>1. UNCHANGED irq /\ pc # "fetch" /\ pc' # "fetch"
    BY DEF HifSend, SendRequest, Poll, Fill, Submit, RegisterRead, BlockWrite, SendFails,
       SendEnds, chip
  <2> QED BY <2>1 DEF Coming
<1>2. CASE SendRequest
  <2>1. pc' = "poll" /\ UNCHANGED <<todo, edge>>
    BY <1>2 DEF SendRequest, work, pin
  <2>2. Waits' <= Waits + 1
    BY <2>1, SMT DEF Waits
  <2>3. CASE pc = "idle" /\ sends < MaxSends /\ sends' = sends + 1
    <3>1. 50 * (MaxSends - sends') = 50 * (MaxSends - sends) - 50
      BY <2>3, BoundsAssumption, SMT DEF SendsBounded
    <3>2. Stage[pc] = 30 /\ Stage[pc'] = 34
      BY <2>1, <2>3, StageOf
    <3> QED BY <1>1, <2>1, <2>2, <3>1, <3>2, SMT DEF Rank, RankTyped
  <2>4. CASE pc = "callback" /\ UNCHANGED sends
    <3>1. Stage[pc] = 36 /\ Stage[pc'] = 34
      BY <2>1, <2>4, StageOf
    <3> QED BY <1>1, <2>1, <2>2, <2>4, <3>1, RankFalls, SMT DEF RankTyped
  <2> QED BY <1>2, <2>3, <2>4 DEF SendRequest
<1>3. CASE Poll \/ Fill \/ Submit
  <2>1. Waits' = Waits /\ UNCHANGED sends
    <3>1. UNCHANGED <<want, edge, sends>>
      BY <1>3 DEF Poll, Fill, Submit, dma, pin
    <3> QED BY <3>1 DEF Waits
  <2>2. \/ /\ UNCHANGED todo
           /\ (pc = "poll" /\ pc' = "fill") \/ (pc = "fill" /\ pc' = "submit")
        \/ pc \in Sending /\ \E awake : SendEnds(awake)
    BY <1>3 DEF Poll, Fill, Submit, RegisterRead, BlockWrite, SendFails
  <2>3. CASE /\ UNCHANGED todo
             /\ (pc = "poll" /\ pc' = "fill") \/ (pc = "fill" /\ pc' = "submit")
    <3>1. Stage[pc'] < Stage[pc]
      BY <2>3, StageOf, SMT
    <3> QED BY <1>1, <2>1, <2>3, <3>1, RankFalls, SMT DEF RankTyped
  <2>4. CASE pc \in Sending /\ todo = <<>> /\ todo' = <<>> /\ pc' = "idle"
    <3>1. Stage[pc'] < Stage[pc]
      BY <2>4, StageOf, SMT
    <3> QED BY <1>1, <2>1, <2>4, <3>1, RankFalls, SMT DEF RankTyped
  <2>5. CASE pc \in Sending /\ todo # <<>> /\ todo' = Tail(todo) /\ pc' = "callback"
    <3>1. Stage[pc'] <= Stage[pc] + 4
      BY <2>5, StageOf, SMT
    <3>2. Effort(todo') + 25 <= Effort(todo)
      BY <2>5, CallbackEfforts DEF IInv
    <3> QED BY <1>1, <2>1, <3>1, <3>2, RankFalls, SMT DEF RankTyped
  <2> QED BY <2>2, <2>3, <2>4, <2>5 DEF SendEnds
<1> QED BY <1>2, <1>3 DEF HifSend

RankInv == IInv /\ SendsBounded

LEMMA RankInvariance == Spec => []RankInv
<1>1. Init => RankInv
  <2>1. Init => SendsBounded
    BY BoundsAssumption, SMT DEF Init, SendsBounded
  <2> QED BY <2>1, DmaInit, WorkInit, HandInit DEF RankInv, IInv
<1>2. RankInv /\ [Next]_vars => RankInv'
  BY DmaNext, WorkNext, HandNext, SendsNext DEF RankInv, IInv
<1> QED BY <1>1, <1>2, PTL DEF Spec

LEMMA NotDisturbedNext == (HandInv /\ ~Disturbed => Undisturbed)'
  BY NotDisturbed, PTL

LEMMA StaysUndisturbed == HandInv /\ [Next]_vars /\ Undisturbed' => Undisturbed
<1> SUFFICES ASSUME HandInv, [Next]_vars, Undisturbed' PROVE Undisturbed
  OBVIOUS
<1> DEFINE counted == busErrors' \in {busErrors, busErrors + 1} /\ lost' \in {lost, lost + 1}
<1>1. CASE Post \/ Grant \/ Isr \/ UNCHANGED vars
  BY <1>1 DEF Post, Grant, Isr, trace, count, bus, vars, Undisturbed
<1>2. CASE HandleIsr
  <2>1. counted /\ UNCHANGED doubled
    BY <1>2 DEF HandleIsr, LoadCount, StoreCount, ReadInterrupt, ClearInterrupt, Fetch, BlockRead,
       RegisterRead, RegisterWrite, trace, count, bus
  <2> QED BY <2>1, SMT DEF HandInv, HandTypeOK, Undisturbed
<1>3. CASE HandleMessage
  <2>1. counted /\ (doubled => doubled')
    <3>1. CASE AckRead BY <3>1 DEF AckRead, RegisterRead
    <3>2. CASE AckWrite BY <3>2 DEF AckWrite, RegisterWrite, trace
    <3>3. CASE ReadBlock \/ Check \/ Stop \/ CallbackReturns
      <4>1. UNCHANGED <<doubled, lost>> /\ busErrors' \in {busErrors, busErrors + 1}
        BY <3>3 DEF ReadBlock, Check, Stop, CallbackReturns, BlockRead, RegisterRead, trace, count,
           bus
      <4> QED BY <4>1, Zenon
    <3> QED BY <1>3, <3>1, <3>2, <3>3 DEF HandleMessage
  <2> QED BY <2>1, SMT DEF HandInv, HandTypeOK, Undisturbed
<1>4. CASE HifSend
  <2>1. counted /\ UNCHANGED doubled
    BY <1>4 DEF HifSend, SendRequest, Poll, Fill, Submit, BlockWrite, RegisterRead, RegisterWrite,
       SendFails, SendEnds, trace, bus
  <2> QED BY <2>1, SMT DEF HandInv, HandTypeOK, Undisturbed
<1> QED BY <1>1, <1>2, <1>3, <1>4 DEF Next, Superloop

(* hif_isr, hif_receive and hif_send: while the bus works, the host cannot *)
(* go on for ever with one message.  Each step leaves it less to do, also  *)
(* when a check fails, the application closes its socket between two       *)
(* chunks, or packets are sent in between.                                 *)
THEOREM MessageHandlingEnds == Spec => HandlingEnds
<1>1. RankInv /\ RankInv' /\ RankTyped /\ RankTyped' /\ [Next]_vars => [Lower]_vars
  <2> SUFFICES ASSUME RankInv, RankInv', RankTyped, RankTyped', [Next]_vars,
                      held, held', ~Disturbed'
               PROVE  Rank' < Rank \/ UNCHANGED vars
    BY DEF Lower, RankTyped
  <2>1. Undisturbed'
    BY NotDisturbedNext DEF RankInv, IInv
  <2>2. IInv /\ HandInv /\ SendsBounded /\ Undisturbed
    BY <2>1, StaysUndisturbed DEF RankInv, IInv
  <2>3. CASE Post \/ Grant \/ Isr BY <2>3, RankChip
  <2>4. CASE HandleIsr BY <2>1, <2>2, <2>4, RankIsr
  <2>5. CASE HandleMessage BY <2>1, <2>2, <2>5, RankMessage
  <2>6. CASE HifSend BY <2>1, <2>2, <2>6, RankSend
  <2> QED BY <2>3, <2>4, <2>5, <2>6 DEF Next, Superloop
<1>2. RankInv => RankTyped
  BY RankIsNat DEF RankInv
<1> QED BY <1>1, <1>2, RankInvariance, PTL DEF Spec, HandlingEnds

(* Whoever holds a message has it flagged, in hand, or at RX done.         *)
InHand == Undisturbed /\ held => irq \/ u8HifRXDone \/ pc = "ackWrite"

LEMMA InHandNext == IInv /\ InHand /\ [Next]_vars => InHand'
<1> SUFFICES ASSUME IInv, InHand, [Next]_vars, Undisturbed', held'
             PROVE  (irq \/ u8HifRXDone \/ pc = "ackWrite")'
  BY DEF InHand
<1>1. Undisturbed
  BY StaysUndisturbed DEF IInv
<1> busErrors' # busErrors + 1 /\ lost' # lost + 1
  BY <1>1, SMT DEF Undisturbed
<1>2. ~AckWrite
  BY DEF AckWrite, RegisterWrite
<1>3. CASE Post BY <1>3 DEF Post
<1>4. CASE ClearInterrupt BY <1>4 DEF ClearInterrupt
<1>5. CASE AckRead BY <1>5 DEF AckRead, RegisterRead
<1>6. ASSUME UNCHANGED <<held, irq, u8HifRXDone>>, pc # "ackWrite" \/ UNCHANGED pc
      PROVE  (irq \/ u8HifRXDone \/ pc = "ackWrite")'
  BY <1>1, <1>6 DEF InHand
<1>7. CASE Grant \/ Isr \/ LoadCount \/ StoreCount \/ ReadInterrupt \/ Fetch \/ ReadBlock \/ Check
           \/ Stop \/ CallbackReturns \/ UNCHANGED vars
  BY <1>6, <1>7 DEF Grant, Isr, LoadCount, StoreCount, ReadInterrupt, Fetch, ReadBlock, Check, Stop,
     CallbackReturns, chip, ctx, vars
<1>8. CASE HifSend
  BY <1>6, <1>8 DEF HifSend, SendRequest, Poll, Fill, Submit, chip, ctx
<1> QED BY <1>2, <1>3, <1>4, <1>5, <1>7, <1>8 DEF Next, Superloop, HandleIsr, HandleMessage

(* m2m_hif.c: a posted message never finds the host idle with nothing to   *)
(* tell it so, nor anywhere else where it would wait for an interrupt that *)
(* has come already.                                                       *)
THEOREM HostNeverStuck == Spec => []HandlerReady
<1>1. Init => InHand
  BY DEF Init, InHand
<1>2. IInv /\ InHand => HandlerReady
  <2> SUFFICES ASSUME IInv, InHand, held, ~Disturbed,
                      ~edge, pc = "idle" => ~(u8Interrupt > 0), pc = "ctrl0" => ~irq,
                      pc \notin {"decrement", "clear", "fetch"} \cup Acking \cup Sending
               PROVE  pc = "callback" /\ Head(todo) \in Reads \cup {"check", "stop", "respond", "end"}
    BY DEF HandlerReady
  <2>1. Undisturbed /\ Holding /\ Woken
    BY NotDisturbed DEF IInv, HandInv
  <2>2. irq \/ u8HifRXDone
    BY <2>1 DEF InHand
  <2>3. pc = "callback"
    BY <2>1, <2>2 DEF Holding, Woken, IInv, WorkInv
  <2>4. Head(todo) \in Reads \cup {"check", "stop", "respond", "end"}
    BY <2>3, NoReadSteps, OneReadSteps, TwoReadsSteps, ThreeReadsSteps
       DEF IInv, WorkInv, Readable
  <2> QED BY <2>3, <2>4
<1> QED BY <1>1, <1>2, HifInvariance, InHandNext, PTL DEF Spec

=============================================================================
