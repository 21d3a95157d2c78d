------------------------------- MODULE Serial -------------------------------
(***************************************************************************)
(* The path of a log line: chprintf puts it character by character into    *)
(* the output queue of SD2 (os/rt/src/chqueues.c), the USART interrupt     *)
(* (USARTv2/serial_lld.c) takes it out.  A thread that finds the queue     *)
(* full waits without a timeout; each character taken out wakes one.       *)
(*                                                                         *)
(* The threads have one priority and no time slices, as in CanTx.  The     *)
(* interrupt may come between any two characters.  It reads the registers  *)
(* once, at its beginning, and writes CR1 from what it has read; the       *)
(* hardware goes on meanwhile.                                             *)
(*                                                                         *)
(* Nothing reads the input queue: characters that are received fill it and *)
(* are dropped from then on.                                               *)
(***************************************************************************)
EXTENDS Integers, Sequences, FiniteSets, Functions

CONSTANTS
  Thread,                \* the threads that log
  MaxLine,               \* the length of the longest line
  SERIAL_BUFFERS_SIZE,   \* characters in a queue
  NoByte                 \* an empty register

ASSUME SerialAssumption ==
  /\ MaxLine \in Nat \ {0}
  /\ SERIAL_BUFFERS_SIZE \in Nat \ {0}
  /\ IsFiniteSet(Thread)
  /\ NoByte \notin Thread \X (1..MaxLine)

VARIABLES
  todo,      \* per thread: characters left of the line it logs
  ready,     \* threads in chprintf that can run, in the order of the ready list
  waiting,   \* oqueue.q_waiting, oldest first
  woken,     \* the threads made ready in waiting that have not run since
  oqueue,    \* the output queue
  iqueue,    \* q_counter of the input queue
  usart,     \* registers and shift register of USART2
  isr        \* what serve_interrupt has read, NotServed outside of it

vars == <<todo, ready, waiting, woken, oqueue, iqueue, usart, isr>>

(* A character is identified by its thread and its place in the line. *)
Byte == Thread \X (1..MaxLine)

Index == 0..(SERIAL_BUFFERS_SIZE - 1)

NotServed == [txeie |-> FALSE, tcie |-> FALSE, txe |-> FALSE, tc |-> FALSE, rxne |-> FALSE]

(* sdObjectInit and usart_init. *)
Init ==
  /\ todo = [t \in Thread |-> 0]
  /\ ready = <<>>
  /\ waiting = <<>>
  /\ woken = {}
  /\ oqueue = [counter |-> SERIAL_BUFFERS_SIZE, wrptr |-> 0, rdptr |-> 0,
               buffer |-> [i \in Index |-> NoByte]]
  /\ iqueue = 0
  /\ usart = [txeie |-> FALSE, tcie |-> FALSE, txe |-> TRUE, tc |-> FALSE, rxne |-> FALSE,
              tdr |-> NoByte, shift |-> NoByte]
  /\ isr = NotServed

-----------------------------------------------------------------------------
(* The output queue *)

chOQIsFullI == oqueue.counter = 0

(* Mutant of chOQIsEmptyI: the pointers alone decide. *)
chOQIsEmptyIUncounted == oqueue.wrptr = oqueue.rdptr

chOQIsEmptyI == oqueue.wrptr = oqueue.rdptr /\ oqueue.counter # 0

(* Mutant of Advance: the pointer wraps one place late. *)
AdvanceLate(i) == IF i + 1 > SERIAL_BUFFERS_SIZE THEN 0 ELSE i + 1

(* A pointer into the buffer moves on. *)
Advance(i) == IF i + 1 >= SERIAL_BUFFERS_SIZE THEN 0 ELSE i + 1

-----------------------------------------------------------------------------
(* The threads *)

(* A thread becomes ready and will log a line when it runs. *)
StartLine(t) ==
  /\ todo[t] = 0
  /\ \E n \in 1..MaxLine : todo' = [todo EXCEPT ![t] = n]
  /\ ready' = Append(ready, t)
  /\ UNCHANGED <<waiting, woken, oqueue, iqueue, usart, isr>>

Running == Head(ready)

(* Mutant of Put: the transmit interrupt is not enabled while the end of   *)
(* the transmission is awaited.                                            *)
PutUnnotified ==
  /\ isr = NotServed
  /\ ready # <<>>
  /\ ~chOQIsFullI
  /\ oqueue' = [oqueue EXCEPT !.counter = @ - 1,
                              !.wrptr = Advance(@),
                              !.buffer = [@ EXCEPT ![oqueue.wrptr] = <<Running, todo[Running]>>]]
  /\ usart' = [usart EXCEPT !.txeie = @ \/ ~usart.tcie]
  /\ todo' = [todo EXCEPT ![Running] = @ - 1]
  /\ woken' = woken \ {Running}
  /\ ready' = IF todo[Running] = 1 THEN Tail(ready) ELSE ready
  /\ UNCHANGED <<waiting, iqueue, isr>>

(* chOQPutTimeout finds room, at once or after a wait; q_notify enables    *)
(* the transmit interrupt.  After the last character of its line the       *)
(* thread goes to sleep elsewhere.                                         *)
Put ==
  /\ isr = NotServed
  /\ ready # <<>>
  /\ ~chOQIsFullI
  /\ oqueue' = [oqueue EXCEPT !.counter = @ - 1,
                              !.wrptr = Advance(@),
                              !.buffer = [@ EXCEPT ![oqueue.wrptr] = <<Running, todo[Running]>>]]
  /\ usart' = [usart EXCEPT !.txeie = TRUE]
  /\ todo' = [todo EXCEPT ![Running] = @ - 1]
  /\ woken' = woken \ {Running}
  /\ ready' = IF todo[Running] = 1 THEN Tail(ready) ELSE ready
  /\ UNCHANGED <<waiting, iqueue, isr>>

(* The queue is full, or is full again: the thread waits, as the last. *)
Wait ==
  /\ isr = NotServed
  /\ ready # <<>>
  /\ chOQIsFullI
  /\ ready' = Tail(ready)
  /\ waiting' = Append(waiting, Running)
  /\ woken' = woken \ {Running}
  /\ UNCHANGED <<todo, oqueue, iqueue, usart, isr>>

-----------------------------------------------------------------------------
(* serve_interrupt *)

IrqLine ==
  \/ usart.txeie /\ usart.txe
  \/ usart.tcie /\ usart.tc
  \/ usart.rxne

(* CR1 and ISR are read, ICR clears the flags that can be cleared so. *)
EnterIsr ==
  /\ isr = NotServed
  /\ IrqLine
  /\ isr' = [txeie |-> usart.txeie, tcie |-> usart.tcie, txe |-> usart.txe,
             tc |-> usart.tc, rxne |-> usart.rxne]
  /\ usart' = [usart EXCEPT !.tc = FALSE]
  /\ UNCHANGED <<todo, ready, waiting, woken, oqueue, iqueue>>

(* Mutant of TransmitServed: the flag TXE is not looked at. *)
TransmitServedUnready == isr.txeie

TransmitServed == isr.txeie /\ isr.txe

(* sdIncomingDataI. *)
ReceivedCounted ==
  iqueue' = IF isr.rxne /\ iqueue < SERIAL_BUFFERS_SIZE THEN iqueue + 1 ELSE iqueue

(* The transmission-end part writes CR1 last, from what was read. *)
CR1 ==
  IF isr.tc THEN [txeie |-> isr.txeie, tcie |-> FALSE]
  ELSE IF TransmitServed /\ chOQIsEmptyI THEN [txeie |-> FALSE, tcie |-> TRUE]
  ELSE [txeie |-> usart.txeie, tcie |-> usart.tcie]

(* Mutant of ServeByte: a waiter is woken only when the queue was full. *)
ServeByteUnwaiting ==
  /\ isr # NotServed
  /\ TransmitServed /\ ~chOQIsEmptyI
  /\ oqueue' = [oqueue EXCEPT !.counter = @ + 1, !.rdptr = Advance(@)]
  /\ IF waiting = <<>> \/ ~chOQIsFullI
     THEN UNCHANGED <<ready, waiting, woken>>
     ELSE /\ ready' = Append(ready, Head(waiting))
          /\ waiting' = Tail(waiting)
          /\ woken' = woken \cup {Head(waiting)}
  /\ usart' = [usart EXCEPT !.tdr = oqueue.buffer[oqueue.rdptr], !.txe = FALSE, !.tc = FALSE,
                            !.rxne = @ /\ ~isr.rxne,
                            !.txeie = CR1.txeie, !.tcie = CR1.tcie]
  /\ ReceivedCounted
  /\ isr' = NotServed
  /\ UNCHANGED todo

(* The handler with a character to transmit: chOQGetI takes it out and     *)
(* wakes the first waiter, and the write of TDR clears TXE and TC.         *)
ServeByte ==
  /\ isr # NotServed
  /\ TransmitServed /\ ~chOQIsEmptyI
  /\ oqueue' = [oqueue EXCEPT !.counter = @ + 1, !.rdptr = Advance(@)]
  /\ IF waiting = <<>>
     THEN UNCHANGED <<ready, waiting, woken>>
     ELSE /\ ready' = Append(ready, Head(waiting))
          /\ waiting' = Tail(waiting)
          /\ woken' = woken \cup {Head(waiting)}
  /\ usart' = [usart EXCEPT !.tdr = oqueue.buffer[oqueue.rdptr], !.txe = FALSE, !.tc = FALSE,
                            !.rxne = @ /\ ~isr.rxne,
                            !.txeie = CR1.txeie, !.tcie = CR1.tcie]
  /\ ReceivedCounted
  /\ isr' = NotServed
  /\ UNCHANGED todo

(* The handler without one. *)
ServeNoByte ==
  /\ isr # NotServed
  /\ ~(TransmitServed /\ ~chOQIsEmptyI)
  /\ usart' = [usart EXCEPT !.rxne = @ /\ ~isr.rxne, !.txeie = CR1.txeie, !.tcie = CR1.tcie]
  /\ ReceivedCounted
  /\ isr' = NotServed
  /\ UNCHANGED <<todo, ready, waiting, woken, oqueue>>

-----------------------------------------------------------------------------
(* USART2 *)

LoadShift ==
  /\ ~usart.txe
  /\ usart.shift = NoByte
  /\ usart' = [usart EXCEPT !.shift = usart.tdr, !.tdr = NoByte, !.txe = TRUE]
  /\ UNCHANGED <<todo, ready, waiting, woken, oqueue, iqueue, isr>>

EndOfByte ==
  /\ usart.shift # NoByte
  /\ usart' = [usart EXCEPT !.shift = NoByte, !.tc = @ \/ usart.txe]
  /\ UNCHANGED <<todo, ready, waiting, woken, oqueue, iqueue, isr>>

ByteReceived ==
  /\ ~usart.rxne
  /\ usart' = [usart EXCEPT !.rxne = TRUE]
  /\ UNCHANGED <<todo, ready, waiting, woken, oqueue, iqueue, isr>>

-----------------------------------------------------------------------------
Scheduler == Put \/ Wait

Next ==
  \/ Scheduler
  \/ EnterIsr
  \/ ServeByte
  \/ ServeNoByte
  \/ LoadShift
  \/ EndOfByte
  \/ ByteReceived
  \/ \E t \in Thread : StartLine(t)

SafeSpec == Init /\ [][Next]_vars

(* The USART sends, the processor takes its interrupts, and between them,  *)
(* which come a character's time apart, it runs the threads.               *)
Fairness ==
  /\ SF_vars(Scheduler)
  /\ WF_vars(EnterIsr)
  /\ WF_vars(ServeByte \/ ServeNoByte)
  /\ WF_vars(LoadShift)
  /\ WF_vars(EndOfByte)

Spec == SafeSpec /\ Fairness

-----------------------------------------------------------------------------
TypeOK ==
  /\ todo \in [Thread -> 0..MaxLine]
  /\ ready \in Seq(Thread)
  /\ waiting \in Seq(Thread)
  /\ woken \subseteq Thread
  /\ oqueue \in [counter : 0..SERIAL_BUFFERS_SIZE, wrptr : Index, rdptr : Index,
                 buffer : [Index -> Byte \cup {NoByte}]]
  /\ iqueue \in 0..SERIAL_BUFFERS_SIZE
  /\ usart \in [txeie : BOOLEAN, tcie : BOOLEAN, txe : BOOLEAN, tc : BOOLEAN, rxne : BOOLEAN,
                tdr : Byte \cup {NoByte}, shift : Byte \cup {NoByte}]
  /\ isr \in [txeie : BOOLEAN, tcie : BOOLEAN, txe : BOOLEAN, tc : BOOLEAN, rxne : BOOLEAN]

(* The characters in the output queue, oldest first. *)
Contents ==
  [k \in 1..(SERIAL_BUFFERS_SIZE - oqueue.counter) |->
     oqueue.buffer[(oqueue.rdptr + k - 1) % SERIAL_BUFFERS_SIZE]]

Register(b) == IF b = NoByte THEN <<>> ELSE <<b>>

UnderWay == Register(usart.shift) \o Register(usart.tdr) \o Contents

(* What is put comes out, once and in order: the ring of the queue, the    *)
(* waits of several threads and the hand-over to the USART neither lose,   *)
(* repeat nor reorder a character, and all of them are sent.               *)
Log ==
  INSTANCE Console WITH
    Capacity <- SERIAL_BUFFERS_SIZE + 2,
    fifo <- UnderWay

ImplementsConsole == Log!Spec

(* The safety part of it: what the USART sends is what the threads put,    *)
(* once each and in that order, whenever the interrupt comes and whatever  *)
(* made it come; nothing is written over a character that is still to be   *)
(* sent.                                                                   *)
SendsInOrder == Log!SafeSpec

(* While there is something to send the transmit interrupt is enabled: the *)
(* handler, which writes CR1 from an old reading, never undoes the         *)
(* enabling done by chOQPutTimeout.                                        *)
OutputEnabled == oqueue.counter < SERIAL_BUFFERS_SIZE => usart.txeie

(* No writer is left behind: as long as threads wait, there is no more     *)
(* room in the queue than threads that were woken for it and have yet to   *)
(* run.                                                                    *)
NoWriterLeftBehind ==
  waiting # <<>> => oqueue.counter <= Cardinality(woken)

(* A thread in chprintf is in one of the lists, once; one that was woken   *)
(* and has not run is ready.                                               *)
InOneListOnce ==
  /\ IsInjective(ready)
  /\ IsInjective(waiting)
  /\ Range(ready) \cap Range(waiting) = {}
  /\ woken \subseteq Range(ready)
  /\ \A t \in Thread : todo[t] > 0 <=> t \in Range(ready) \cup Range(waiting)

(* The pointers are as far apart as the counter says. *)
PointersAgree ==
  oqueue.wrptr + oqueue.counter \in {oqueue.rdptr, oqueue.rdptr + SERIAL_BUFFERS_SIZE}

(* No thread runs during the interrupt, so what it read of TXEIE is true.  *)
ReadingCurrent == isr # NotServed => isr.txeie = usart.txeie

(* The inductive invariant behind the properties above. *)
IInv ==
  /\ TypeOK
  /\ OutputEnabled
  /\ NoWriterLeftBehind
  /\ InOneListOnce
  /\ PointersAgree
  /\ ReadingCurrent

(* TXE tells whether TDR can be written, and what the handler has read of  *)
(* it stays true until it writes TDR.                                      *)
TxeTrue ==
  /\ usart.txe <=> usart.tdr = NoByte
  /\ isr.txe => usart.txe

(* The places of the ring that are in use hold characters. *)
RingFilled == Contents \in Seq(Byte)

(* The inductive invariant behind SendsInOrder. *)
OrderInv ==
  /\ IInv
  /\ TxeTrue
  /\ RingFilled

(* The line of a thread comes to its end although each character that is   *)
(* sent wakes one waiter only, and another may take the room first, unless *)
(* others start line after line.                                           *)
LinesEndUnlessOthersLog ==
  \A t \in Thread :
    []<>(todo[t] = 0) \/ \E u \in Thread \ {t} : []<><<StartLine(u)>>_vars
=============================================================================
