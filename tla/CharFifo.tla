------------------------------ MODULE CharFifo ------------------------------
(***************************************************************************)
(* What a program that prints expects of the serial port                   *)
(* (src/usart_basic.c): a bounded queue of characters that leaves on the   *)
(* line in the order of the writes, nothing lost, doubled or made up.      *)
(***************************************************************************)
EXTENDS Naturals, Sequences

CONSTANTS Chars,  \* the characters
          SIZE    \* USART_0_TX_BUFFER_SIZE

VARIABLES queue, line

Init == queue = <<>> /\ line = <<>>

Put ==
  /\ Len(queue) < SIZE
  /\ \E c \in Chars : queue' = Append(queue, c)
  /\ UNCHANGED line

Transmit ==
  /\ queue # <<>>
  /\ line' = Append(line, Head(queue))
  /\ queue' = Tail(queue)

Next == Put \/ Transmit

Spec == Init /\ [][Next]_<<queue, line>>
=============================================================================
