----------------------------- MODULE SerialPort -----------------------------
(***************************************************************************)
(* The transmitter of the serial port (src/usart_basic.c): a ring shared   *)
(* by USART_0_write, which the superloop calls for every character it      *)
(* prints, and the interrupt of the empty data register.  Head and tail    *)
(* belong to one side each; both sides change the count of elements, which *)
(* alone says which cells are whose.                                       *)
(*                                                                         *)
(* Atomicity: USART_0_write is split at its accesses to what the interrupt *)
(* touches; the interrupt runs to its end.  The receiver is left out: its  *)
(* interrupt is never enabled and nothing calls USART_0_read.              *)
(***************************************************************************)
EXTENDS Integers, Sequences

CONSTANTS Chars,  \* the characters printed
          SIZE    \* USART_0_TX_BUFFER_SIZE

ASSUME SizeAssumption == SIZE \in Nat \ {0} /\ Chars # {}

VARIABLES
  txbuf, txHead, txTail, txElements,
  dreie,   \* the data-register-empty interrupt is enabled
  dre,     \* the data register is empty
  irqOn,   \* interrupts are enabled (SREG)
  wpc,     \* the next step of USART_0_write
  char,    \* its argument
  reg,     \* the count it loaded
  line     \* history: the characters put in the data register

serialVars == <<txbuf, txHead, txTail, txElements, dreie, dre, irqOn, wpc, char, reg, line>>
ring == <<txbuf, txHead, txTail>>

Slots == 0 .. SIZE - 1

(* An index of the ring: SIZE is a power of two and the code masks.        *)
Wrap(i) == IF i < SIZE THEN i ELSE i - SIZE

(* Whatever the cells hold at power-up.                                    *)
Blank == CHOOSE c \in Chars : TRUE

SerialInit ==
  /\ txbuf = [i \in Slots |-> Blank]
  /\ txHead = 0 /\ txTail = 0 /\ txElements = 0
  /\ dreie = FALSE /\ dre = TRUE /\ irqOn = TRUE
  /\ wpc = "idle" /\ char = Blank /\ reg = 0 /\ line = <<>>

-----------------------------------------------------------------------------
(* USART_0_write                                                           *)

Write(c) ==
  /\ wpc = "idle"
  /\ wpc' = "wait" /\ char' = c
  /\ UNCHANGED <<ring, txElements, dreie, dre, irqOn, reg, line>>

(* Waits for a free cell, then fills it.                                   *)
StoreChar ==
  /\ wpc = "wait" /\ txElements # SIZE
  /\ txHead' = Wrap(txHead + 1)
  /\ txbuf' = [txbuf EXCEPT ![txHead'] = char]
  /\ wpc' = "load"
  /\ UNCHANGED <<txTail, txElements, dreie, dre, irqOn, char, reg, line>>

(* Mutant of LoadElements: the count is incremented with interrupts enabled.  *)
LoadElementsOpen ==
  /\ wpc = "load"
  /\ reg' = txElements /\ wpc' = "add"
  /\ UNCHANGED <<ring, txElements, dreie, dre, irqOn, char, line>>

LoadElements ==
  /\ wpc = "load"
  /\ irqOn' = FALSE                        \* ENTER_CRITICAL(W)
  /\ reg' = txElements /\ wpc' = "add"
  /\ UNCHANGED <<ring, txElements, dreie, dre, char, line>>

StoreElements ==
  /\ wpc = "add"
  /\ txElements' = reg + 1
  /\ irqOn' = TRUE                         \* EXIT_CRITICAL(W)
  /\ wpc' = "enable"
  /\ UNCHANGED <<ring, dreie, dre, char, reg, line>>

EnableDre ==
  /\ wpc = "enable"
  /\ dreie' = TRUE /\ wpc' = "idle"
  /\ UNCHANGED <<ring, txElements, dre, irqOn, char, reg, line>>

WriteStep == StoreChar \/ LoadElements \/ StoreElements \/ EnableDre

-----------------------------------------------------------------------------
(* The interrupt and the transmitter                                       *)

(* Mutant of DreIsr: it disables itself with every character.              *)
DreIsrOnce ==
  /\ dreie /\ dre /\ irqOn /\ txElements # 0
  /\ txTail' = Wrap(txTail + 1)
  /\ line' = Append(line, txbuf[txTail'])
  /\ txElements' = txElements - 1
  /\ dre' = FALSE /\ dreie' = FALSE
  /\ UNCHANGED <<txbuf, txHead, irqOn, wpc, char, reg>>

DreIsr ==
  /\ dreie /\ dre /\ irqOn
  /\ IF txElements # 0
     THEN /\ txTail' = Wrap(txTail + 1)
          /\ line' = Append(line, txbuf[txTail'])
          /\ dre' = FALSE
          /\ txElements' = txElements - 1
     ELSE UNCHANGED <<txTail, line, dre, txElements>>
  /\ dreie' = (txElements' # 0)
  /\ UNCHANGED <<txbuf, txHead, irqOn, wpc, char, reg>>

(* The character moves to the shift register.                              *)
Shift ==
  /\ ~dre
  /\ dre' = TRUE
  /\ UNCHANGED <<ring, txElements, dreie, irqOn, wpc, char, reg, line>>

SerialNext == (\E c \in Chars : Write(c)) \/ WriteStep \/ DreIsr \/ Shift

SerialSpec == SerialInit /\ [][SerialNext]_serialVars

-----------------------------------------------------------------------------
(* Properties                                                              *)

(* Every variable has its type: indices and counts stay in the ring.       *)
RingTypeOK ==
  /\ txbuf \in [Slots -> Chars]
  /\ txHead \in Slots /\ txTail \in Slots
  /\ txElements \in 0 .. SIZE /\ reg \in 0 .. SIZE
  /\ dreie \in BOOLEAN /\ dre \in BOOLEAN /\ irqOn \in BOOLEAN
  /\ wpc \in {"idle", "wait", "load", "add", "enable"}
  /\ char \in Chars /\ line \in Seq(Chars)

(* The cells from tail to head are the counted elements, and one more while *)
(* a character is stored and not yet counted: the interrupt never sends a   *)
(* cell that is being written, and the writer never fills one that waits.   *)
Pending == IF wpc \in {"load", "add"} THEN 1 ELSE 0
CountAgrees ==
  /\ txElements + Pending <= SIZE
  /\ txHead = Wrap(txTail + txElements + Pending)

(* A waiting character is sent: the interrupt that sends it is enabled, or  *)
(* the write that counted it is about to enable it.                         *)
NoneStranded == txElements > 0 => dreie \/ wpc = "enable"

(* The ring and its interrupt are the queue the callers expect.             *)
Queue == [i \in 1 .. txElements |-> txbuf[Wrap(txTail + i)]]
Fifo == INSTANCE CharFifo WITH queue <- Queue, line <- line
ImplementsFifo == Fifo!Spec
=============================================================================
