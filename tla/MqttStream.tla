----------------------------- MODULE MqttStream -----------------------------
(***************************************************************************)
(* How bytes from the broker become MQTT packets: the chip answers the     *)
(* receive requests of the socket layer (recv, Socket_ReadSocketData in    *)
(* winc/socket/source/socket.c) with a piece of the stream, which          *)
(* NETWORK_wifiSocketHandler hands to MQTT_CLIENT_receive in chunks; each  *)
(* chunk goes into the receive ring of umqtt/umqtt.c, which umqtt_process  *)
(* empties packet by packet.                                               *)
(*                                                                         *)
(* A packet is a header byte, its length in digits of base 128 with the    *)
(* lowest first, and a body.  All sizes are constants, so that small ones  *)
(* in the order of the code's show every case.                             *)
(***************************************************************************)
EXTENDS Integers, Sequences, SequencesExt, FiniteSetsExt

CONSTANTS
  Base,         \* values of a length digit (128); its high bit says more follow
  RxSize,       \* RX_BUFF_SIZE (250)
  LenRange,     \* values of the uint8_t that a length is cut to (256)
  BufferSize,   \* MAIN_WIFI_M2M_BUFFER_SIZE (500)
  MaxReply,     \* bytes the chip gives in one reply
  MaxMessages,  \* messages the broker publishes
  MaxSessions,  \* connections
  MaxFailures   \* receive requests that do not reach the chip, and reads that fail

ASSUME StreamBounds ==
  /\ {Base, RxSize, LenRange, BufferSize, MaxReply, MaxMessages, MaxSessions}
       \subseteq Nat \ {0}
  /\ MaxMessages < 2 * Base /\ Base > 3 /\ MaxFailures \in Nat
  /\ RxSize < LenRange /\ LenRange < BufferSize

VARIABLES
  stream,     \* bytes of the broker the chip holds, each with its packet's end marked
  sent,       \* history: messages the broker published in this session
  accepted,   \* the broker accepted this session
  closed,     \* the broker has ended it
  session,    \* sessions begun
  isUsed, bIsRecvPending,  \* of the socket
  request,    \* the chip holds a receive request
  chunks,     \* bytes of the reply that were not yet handed over
  rxbuff,     \* the ring: its cells, pointer and datalen
  state,      \* of the MQTT client
  pc,         \* what runs: "loop", "process", or "undefined"
  handled,    \* history: messages given to umqtt_received_cb in this session
  broken,     \* history: in this session a reply did not end with a packet, was
              \* longer than the ring, or was lost, or the rest of the stream was
  failures    \* counter

broker == <<stream, sent, accepted, closed>>
socket == <<isUsed, bIsRecvPending, request>>
client == <<rxbuff, state, pc, handled>>
vars == <<broker, session, socket, chunks, client, broken, failures>>

Bytes == 0 .. 2 * Base - 1
Least(a, b) == IF a < b THEN a ELSE b

-----------------------------------------------------------------------------
(* Lengths                                                                 *)

(* umqtt_encode_length, for the one or two digits that occur.              *)
EncodeLength(len) ==
  IF len < Base THEN <<len>> ELSE <<(len % Base) + Base, len \div Base>>

More(digit) == digit >= Base

(* Mutant of DecodeLength: the digits are taken highest first.             *)
DecodeLengthReversed(digits) ==
  IF Len(digits) = 1 THEN digits[1] % Base
                     ELSE (digits[1] % Base) * Base + (digits[2] % Base)

(* umqtt_decode_length                                                     *)
DecodeLength(digits) ==
  IF Len(digits) = 1 THEN digits[1] % Base
                     ELSE (digits[1] % Base) + (digits[2] % Base) * Base

-----------------------------------------------------------------------------
(* The ring                                                                *)

Ring == [cells : [0 .. RxSize - 1 -> Bytes], pointer : 0 .. RxSize - 1, datalen : 0 .. RxSize]

(* A cell that holds no data is never read: it is blank here.              *)
Blank == [i \in 0 .. RxSize - 1 |-> 0]

(* umqtt_circ_init                                                         *)
CircInit == [cells |-> Blank, pointer |-> 0, datalen |-> 0]

(* Mutant of CircPush: the new bytes begin at the start of the buffer.     *)
CircPushAtStart(r, data) ==
  LET n == Least(Len(data), RxSize - r.datalen)
  IN  [r EXCEPT !.cells = [i \in DOMAIN @ |-> IF i < n THEN data[i + 1] ELSE @[i]],
                !.datalen = @ + n]

(* Mutant of CircPush: it does not stop at the bytes that were not read.   *)
CircPushOverruns(r, data) ==
  LET dend == (r.pointer + r.datalen) % RxSize
      at(i) == (i + RxSize - dend) % RxSize
  IN  [r EXCEPT !.cells = [i \in DOMAIN @ |-> IF at(i) < Len(data) THEN data[at(i) + 1] ELSE @[i]],
                !.datalen = @ + Len(data)]

(* umqtt_circ_push: what does not fit is left out.                         *)
CircPush(r, data) ==
  LET n    == Least(Len(data), RxSize - r.datalen)
      dend == (r.pointer + r.datalen) % RxSize
      at(i) == (i + RxSize - dend) % RxSize
  IN  [r EXCEPT !.cells = [i \in DOMAIN @ |-> IF at(i) < n THEN data[at(i) + 1] ELSE @[i]],
                !.datalen = @ + n]

(* umqtt_circ_pop: the bytes popped, and the ring after it.                *)
Popped(r, n) ==
  [i \in 1 .. Least(n, r.datalen) |-> r.cells[(r.pointer + i - 1) % RxSize]]

CircPop(r, n) ==
  LET k == Least(n, r.datalen)
      left(i) == (i + RxSize - r.pointer) % RxSize \in k .. r.datalen - 1
  IN  [cells   |-> [i \in DOMAIN Blank |-> IF left(i) THEN r.cells[i] ELSE 0],
       pointer |-> (r.pointer + k) % RxSize, datalen |-> r.datalen - k]

-----------------------------------------------------------------------------
(* Packets                                                                 *)

CONNACK == 2
PUBLISH == 3
SUBACK == 1   \* 9 in the protocol

Topic == <<1, 0>>   \* its length and its bytes
Padding(n) == [i \in 1 .. n |-> 0]

Bytify(type, body) == <<type>> \o EncodeLength(Len(body)) \o body
Marked(packet) == [i \in DOMAIN packet |-> [byte |-> packet[i], end |-> i = Len(packet)]]

Unmarked(bytes) == [i \in DOMAIN bytes |-> bytes[i].byte]

Init ==
  /\ stream = <<>> /\ sent = <<>> /\ accepted = FALSE /\ closed = FALSE
  /\ session = 0 /\ isUsed = FALSE /\ bIsRecvPending = FALSE /\ request = FALSE
  /\ chunks = <<>>
  /\ rxbuff = CircInit
  /\ state = "INIT" /\ pc = "loop" /\ handled = <<>> /\ broken = FALSE
  /\ failures = 0

-----------------------------------------------------------------------------
(* The broker                                                              *)

BrokerSends(type, body) ==
  /\ isUsed /\ ~closed
  /\ stream' = stream \o Marked(Bytify(type, body))

PublishMessage(padding) ==
  /\ accepted /\ Len(sent) < MaxMessages
  /\ sent' = Append(sent, Len(sent) + 1)
  /\ BrokerSends(PUBLISH, Topic \o <<Len(sent) + 1>> \o Padding(padding))
  /\ UNCHANGED <<accepted, closed, session, socket, chunks, client, broken, failures>>

(* The answer to umqtt_subscribe                                           *)
Suback ==
  /\ accepted /\ sent = <<>> /\ stream = <<>>
  /\ BrokerSends(SUBACK, <<0, 0>>)
  /\ UNCHANGED <<sent, accepted, closed, session, socket, chunks, client, broken, failures>>

(* The broker ends the session; or the connection breaks, and what the     *)
(* client has not read is lost.                                            *)
EndSession ==
  /\ isUsed /\ ~closed
  /\ closed' = TRUE
  /\ \/ UNCHANGED <<stream, broken>>
     \/ stream' = <<>> /\ broken' = TRUE
  /\ UNCHANGED <<sent, accepted, session, socket, chunks, client, failures>>

-----------------------------------------------------------------------------
(* The socket                                                              *)

(* Mutant of Connect: the ring keeps what is left of the last session.     *)
ConnectKeepsRing ==
  /\ pc = "loop" /\ ~isUsed /\ session < MaxSessions
  /\ session' = session + 1
  /\ isUsed' = TRUE /\ bIsRecvPending' = FALSE /\ request' = FALSE
  /\ state' = "CONNECTING"
  /\ closed' = FALSE /\ sent' = <<>> /\ handled' = <<>> /\ broken' = FALSE
  /\ accepted' \in BOOLEAN
  /\ stream' = Marked(Bytify(CONNACK, <<0, IF accepted' THEN 0 ELSE 1>>))
  /\ UNCHANGED <<rxbuff, chunks, pc, failures>>

(* MQTT_CLIENT_connect on a new socket, and the broker's answer to it.     *)
Connect ==
  /\ pc = "loop" /\ ~isUsed /\ session < MaxSessions
  /\ session' = session + 1
  /\ isUsed' = TRUE /\ bIsRecvPending' = FALSE /\ request' = FALSE
  /\ rxbuff' = CircInit /\ state' = "CONNECTING"
  /\ closed' = FALSE /\ sent' = <<>> /\ handled' = <<>> /\ broken' = FALSE
  /\ accepted' \in BOOLEAN
  /\ stream' = Marked(Bytify(CONNACK, <<0, IF accepted' THEN 0 ELSE 1>>))
  /\ UNCHANGED <<chunks, pc, failures>>

(* Mutant of Recv: a request is posted only in a session that is set up.   *)
RecvConnected ==
  /\ pc = "loop" /\ chunks = <<>> /\ isUsed /\ ~bIsRecvPending /\ state = "CONNECTED"
  /\ bIsRecvPending' = TRUE
  /\ request' = TRUE
  /\ UNCHANGED <<broker, session, isUsed, chunks, client, broken, failures>>

(* SOCKET_MSG_SEND: recv posts a request unless one is pending.  The flag   *)
(* is set even if the request does not reach the chip.                     *)
Recv ==
  /\ pc = "loop" /\ chunks = <<>> /\ isUsed /\ ~bIsRecvPending
  /\ bIsRecvPending' = TRUE
  /\ \/ request' = TRUE /\ UNCHANGED failures
     \/ failures < MaxFailures /\ failures' = failures + 1 /\ UNCHANGED request
  /\ UNCHANGED <<broker, session, isUsed, chunks, client, broken>>

(* The chip answers the request with the next bytes of the stream.  A      *)
(* session is followed up to the first reply that breaks it.               *)
Reply(n) ==
  /\ pc = "loop" /\ chunks = <<>> /\ request /\ n <= Len(stream) /\ ~broken
  /\ request' = FALSE /\ bIsRecvPending' = FALSE
  /\ chunks' = Unmarked(SubSeq(stream, 1, n))
  /\ stream' = SubSeq(stream, n + 1, Len(stream))
  /\ broken' = (broken \/ ~stream[n].end \/ n > RxSize)
  /\ UNCHANGED <<sent, accepted, closed, session, isUsed, client, failures>>

(* Socket_ReadSocketData hands over a chunk of at most the buffer's size;   *)
(* MQTT_CLIENT_receive takes its length as a uint8_t and pushes that much.  *)
Receive ==
  /\ pc = "loop" /\ chunks # <<>>
  /\ LET size == Least(Len(chunks), BufferSize)
     IN  /\ rxbuff' = CircPush(rxbuff, SubSeq(chunks, 1, size % LenRange))
         /\ chunks' = SubSeq(chunks, size + 1, Len(chunks))
  /\ pc' = "process"
  /\ UNCHANGED <<broker, session, socket, state, handled, broken, failures>>

(* hif_receive fails: what is left of the reply is dropped.                *)
ReceiveFails ==
  /\ pc = "loop" /\ chunks # <<>>
  /\ failures < MaxFailures /\ failures' = failures + 1
  /\ chunks' = <<>> /\ broken' = TRUE
  /\ UNCHANGED <<broker, session, socket, client>>

(* The end of the session is told as an error; the socket is closed.       *)
ReceiveError ==
  /\ pc = "loop" /\ chunks = <<>> /\ request /\ closed /\ (stream = <<>> \/ broken)
  /\ request' = FALSE /\ bIsRecvPending' = FALSE /\ isUsed' = FALSE
  /\ UNCHANGED <<broker, session, chunks, client, broken, failures>>

-----------------------------------------------------------------------------
(* Packets in the ring                                                     *)

(* Byte i of what is popped; what is not popped is what the stack held.    *)
At(body, i) == IF i \in DOMAIN body THEN {body[i]} ELSE Bytes

(* The length's digits after the header, four at most.                     *)
Digits(r) ==
  LET digit(i) == At(Popped(r, 5), i + 1)
      next(S) == UNION {IF More(Last(d)) THEN {Append(d, b) : b \in digit(Len(d) + 1)}
                                         ELSE {d} : d \in S}
  IN  next(next(next({<<d>> : d \in digit(1)})))

(* umqtt_handle_publish: the callback gets the payload, which is a zero    *)
(* alone if the topic fills the packet.  Beyond that its size is not       *)
(* positive.                                                               *)
HandlePublish(body, len) ==
  /\ \E toplen \in At(body, 1) :
       \/ toplen >= len /\ pc' = "undefined" /\ UNCHANGED handled
       \/ /\ toplen < len
          /\ \E id \in IF toplen + 1 = len THEN {0} ELSE At(body, toplen + 2) :
               handled' = Append(handled, id)
          /\ UNCHANGED pc
  /\ UNCHANGED state

(* umqtt_packet_arrived: its array may not fit in memory if the length is  *)
(* not that of a packet.                                                   *)
PacketArrived(type, body, len) ==
  \/ len > RxSize /\ pc' = "undefined" /\ UNCHANGED <<state, handled>>
  \/ type = PUBLISH /\ HandlePublish(body, len)
  \/ /\ type = CONNACK
     /\ \E rc \in At(body, 2) : state' = IF rc = 0 THEN "CONNECTED" ELSE "FAILED"
     /\ UNCHANGED <<pc, handled>>
  \/ type \notin {CONNACK, PUBLISH} /\ UNCHANGED <<state, pc, handled>>

(* umqtt_process, one turn of its loop.  With three digits the length      *)
(* overflows an int of the AVR.                                            *)
ProcessPacket ==
  /\ pc = "process" /\ rxbuff.datalen >= 2
  /\ \E digits \in Digits(rxbuff) :
       LET rest == CircPop(rxbuff, 1 + Len(digits))
           len  == DecodeLength(digits)
       IN  IF Len(digits) > 2
           THEN rxbuff' = rest /\ pc' = "undefined" /\ UNCHANGED <<state, handled>>
           ELSE /\ rxbuff' = CircPop(rest, len)
                /\ PacketArrived(rxbuff.cells[rxbuff.pointer], Popped(rest, len), len)
  /\ UNCHANGED <<broker, session, socket, chunks, broken, failures>>

(* umqtt_process ends.                                                     *)
ProcessEnds ==
  /\ pc = "process" /\ rxbuff.datalen < 2
  /\ pc' = "loop"
  /\ UNCHANGED <<broker, session, socket, chunks, rxbuff, state, handled, broken, failures>>

-----------------------------------------------------------------------------
Firmware == Connect \/ Recv \/ Receive \/ ReceiveFails \/ ReceiveError \/ ProcessPacket
            \/ ProcessEnds
Chip == \E n \in 1 .. MaxReply : Reply(n)

Next == (\E padding \in {0, Base} : PublishMessage(padding)) \/ Suback \/ EndSession
        \/ Firmware \/ Chip

(* The superloop runs and sends now and then; the chip answers requests.   *)
Spec == Init /\ [][Next]_vars /\ WF_vars(Firmware) /\ WF_vars(Chip)

-----------------------------------------------------------------------------
(* Properties                                                              *)

(* Every variable has its type.                                            *)
TypeOK ==
  /\ stream \in Seq([byte : Bytes, end : BOOLEAN]) /\ chunks \in Seq(Bytes)
  /\ sent \in Seq(1 .. MaxMessages) /\ handled \in Seq(Bytes)
  /\ {accepted, closed, isUsed, bIsRecvPending, request, broken} \subseteq BOOLEAN
  /\ rxbuff \in Ring
  /\ state \in {"INIT", "CONNECTING", "CONNECTED", "FAILED"}
  /\ pc \in {"loop", "process", "undefined"}

(* While every reply of the chip ends with a packet and fits the ring, the  *)
(* messages are handled in the order the broker sent them, each once and as *)
(* it was sent; what an earlier session left behind changes nothing.        *)
HandledInOrder == ~broken => IsPrefix(handled, sent)

(* Under the same condition the client leaves its buffers alone: no length  *)
(* it decodes is other than that of a packet, and between two replies the   *)
(* ring is empty.                                                           *)
FramingSound ==
  ~broken =>
    /\ pc # "undefined"
    /\ pc = "loop" /\ chunks = <<>> /\ isUsed => rxbuff.datalen = 0

(* The client takes a session for set up only if the broker accepted it.    *)
ConnectedIsAccepted == (state = "CONNECTED" /\ isUsed /\ ~broken) => accepted

(* Every message is handled, unless a reply splits a packet or is too long, *)
(* a read of it fails, or a receive request does, after which the socket    *)
(* never asks again.                                                        *)
EveryMessageHandled ==
  \A n \in 1 .. MaxMessages :
    Len(sent) >= n ~> (Len(handled) >= n \/ broken \/ failures > 0)
=============================================================================
