----------------------------- MODULE BoardProofs ----------------------------
(***************************************************************************)
(* Proofs about the whole board, for every setting of the intervals,       *)
(* timeouts, periods and mailboxes: what holds on any bus, and what a      *)
(* healthy bus, on which other nodes send too, gives when frames are short *)
(* against the sleeps of the threads.                                      *)
(*                                                                         *)
(* The transmit path keeps the invariant proved in CanTxProofs, and main   *)
(* is a MainLoop, about which MainLoopProofs has the watchdog theorem.     *)
(***************************************************************************)
EXTENDS Board, ThreadLists

-----------------------------------------------------------------------------
(* The transmit path on the board *)

(* The threads in the ready list, those in txqueue, the free mailboxes,    *)
(* and the interrupt line of the cell.                                     *)
Runnable == Range(ready)
Waiting == Range(txqueue)
Free == CAN_TX_MAILBOXES - Len(can.mbx)
Line == Tx!IrqLine(can)

(* The constants, one by one. *)
LEMMA Constants ==
  /\ CAN_TX_MAILBOXES \in Nat \ {0} /\ CAN_TRANSMIT_TIMEOUT \in Nat \ {0}
  /\ WatchdogTicks \in Nat \ {0} /\ MaxWakeups \in Nat \ {0}
  /\ MAIN_THREAD_CHECK_INTERVAL_MS \in Nat /\ MAIN_THREAD_SLEEP_NORMAL_MS \in Nat
  /\ CheckTicks \in Nat /\ BootTicks \in Nat /\ LogTicks \in Nat /\ StartupTicks \in Nat
  /\ EventTicks \in Nat /\ FrameTicks \in Nat /\ FramesPerTick \in Nat
  /\ SYSTIME_VALUES \in Nat \ {0}
  /\ PeriodTicks \in 0..(SYSTIME_VALUES - 1) /\ CH_CFG_ST_TIMEDELTA \in 0..PeriodTicks
  BY BoardAssumption DEF CheckTicks

(* The threads are three. *)
LEMMA Threads ==
  /\ main \in Thread /\ can_rx \in Thread /\ adc_worker \in Thread
  /\ main # can_rx /\ main # adc_worker /\ can_rx # adc_worker
  BY BoardAssumption DEF Thread

(* What the invariant says in terms of the board. *)
TxFacts ==
  /\ can.mbx \in Seq(Tx!TxFrame) /\ can.rqcp \in BOOLEAN
  /\ Free \in 0..CAN_TX_MAILBOXES
  /\ can.mbx # <<>> <=> Free < CAN_TX_MAILBOXES
  /\ ready \in Seq(Thread) /\ txqueue \in Seq(Thread)
  /\ Runnable \subseteq Thread /\ Waiting \subseteq Thread
  /\ Runnable \cap Waiting = {}
  /\ rdymsg \in [Thread -> {"MSG_OK", "MSG_TIMEOUT"}]
  /\ timer \in [Thread -> 0..(CAN_TRANSMIT_TIMEOUT + 1)]
  /\ blocked \in [Thread -> 0..(CAN_TRANSMIT_TIMEOUT + 1)]
  /\ Waiting # {} /\ Free > 0 => can.rqcp
  /\ can.rqcp => Line
  /\ \A t \in Waiting : timer[t] <= CAN_TRANSMIT_TIMEOUT
  /\ \A t \in Thread : timer[t] <= CAN_TRANSMIT_TIMEOUT => t \in Runnable \cup Waiting

(* They follow from the invariant of the transmit path. *)
LEMMA TxInvariantFacts == Tx!IInv => TxFacts
  <1> SUFFICES ASSUME Tx!IInv PROVE TxFacts
    OBVIOUS
  <1>1. /\ Runnable = Tx!Range(ready) /\ Waiting = Tx!Range(txqueue)
    BY DEF Runnable, Waiting, Range, Tx!Range
  <1>2. /\ can.mbx \in Seq(Tx!TxFrame) /\ can.rqcp \in BOOLEAN
        /\ ready \in Seq(Thread) /\ txqueue \in Seq(Thread)
        /\ rdymsg \in [Thread -> {"MSG_OK", "MSG_TIMEOUT"}]
        /\ timer \in [Thread -> 0..(CAN_TRANSMIT_TIMEOUT + 1)]
        /\ blocked \in [Thread -> 0..(CAN_TRANSMIT_TIMEOUT + 1)]
        /\ Len(can.mbx) <= CAN_TX_MAILBOXES
    BY DEF Tx!IInv, Tx!TypeOK, Tx!CanRegs, Tx!Off
  <1>3. /\ Len(can.mbx) \in Nat /\ Free \in 0..CAN_TX_MAILBOXES
        /\ can.mbx # <<>> <=> Free < CAN_TX_MAILBOXES
    <2>1. Len(can.mbx) \in Nat /\ (can.mbx # <<>> <=> Len(can.mbx) # 0)
      BY <1>2
    <2> DEFINE m == Len(can.mbx)
    <2>2. m \in Nat /\ m <= CAN_TX_MAILBOXES /\ Free = CAN_TX_MAILBOXES - m
      BY <1>2, <2>1, ZenonT(30) DEF Free
    <2>3. CAN_TX_MAILBOXES \in Nat
      BY BoardAssumption
    <2> HIDE DEF m
    <2>4. Free \in 0..CAN_TX_MAILBOXES /\ (m # 0 <=> Free < CAN_TX_MAILBOXES)
      BY ONLY <2>2, <2>3
    <2>5. QED
      BY <2>1, <2>4, ZenonT(30) DEF m
  <1>4. Runnable \subseteq Thread /\ Waiting \subseteq Thread
    BY <1>2 DEF Runnable, Waiting, Range
  <1>5. Runnable \cap Waiting = {}
    BY <1>1 DEF Tx!IInv, Tx!InOneQueueOnce
  <1>6. Waiting # {} /\ Free > 0 => can.rqcp
    <2>1. Waiting # {} => txqueue # <<>>
      BY DEF Waiting, Range
    <2>2. Free > 0 => Tx!can_lld_is_tx_empty(can)
      BY <1>3, BoardAssumption DEF Free, Tx!can_lld_is_tx_empty
    <2>3. QED
      BY <2>1, <2>2 DEF Tx!IInv, Tx!NoLostTxWakeup
  <1>7. can.rqcp => Line
    BY DEF Line, Tx!IrqLine
  <1>8. /\ \A t \in Waiting : timer[t] <= CAN_TRANSMIT_TIMEOUT
        /\ \A t \in Thread : timer[t] <= CAN_TRANSMIT_TIMEOUT => t \in Runnable \cup Waiting
    BY <1>1, <1>2, <1>4, BoardAssumption, SMTT(30)
    DEF Tx!IInv, Tx!TimersCoverWaits, Tx!InCall, Tx!Off
  <1>9. QED
    BY <1>2, <1>3, <1>4, <1>5, <1>6, <1>7, <1>8, SMTT(30) DEF TxFacts

(* What the steps of the transmit path do, in the same terms. *)

(* A thread calls canTransmit: it goes to the end of the ready list. *)
LEMMA CallEffect ==
  ASSUME TxFacts, NEW t \in Thread, Tx!CallTransmit(t)
  PROVE  /\ Runnable' = Runnable \cup {t} /\ Waiting' = Waiting
         /\ t \notin Runnable /\ t \notin Waiting
         /\ Free' = Free /\ Line' = Line /\ can' = can /\ timer' = timer
         /\ rdymsg' = [rdymsg EXCEPT ![t] = "MSG_OK"]
         /\ blocked' = [blocked EXCEPT ![t] = 0]
  <1>1. /\ ready' = Append(ready, t) /\ UNCHANGED <<can, txqueue, timer>>
        /\ t \notin Runnable /\ t \notin Waiting
        /\ rdymsg' = [rdymsg EXCEPT ![t] = "MSG_OK"]
        /\ blocked' = [blocked EXCEPT ![t] = 0]
    BY DEF Tx!CallTransmit, Tx!InCall, Tx!Range, Runnable, Waiting, Range
  <1>2. Range(ready') = Range(ready) \cup {t}
    BY <1>1, AppendMembers DEF TxFacts
  <1>3. QED
    BY <1>1, <1>2 DEF Runnable, Waiting, Free, Line

(* The running thread and the ready list without it. *)
LEMMA RunningFacts ==
  ASSUME TxFacts, ready # <<>>, Tx!IInv
  PROVE  /\ Head(ready) \in Runnable /\ Head(ready) \in Thread
         /\ Head(ready) \notin Waiting
         /\ Range(Tail(ready)) = Runnable \ {Head(ready)}
  <1>1. IsInjective(ready)
    BY DEF Tx!IInv, Tx!InOneQueueOnce, Tx!IsInjective, IsInjective
  <1>2. /\ Head(ready) \in Range(ready) /\ Head(ready) \notin Range(Tail(ready))
        /\ Range(ready) = {Head(ready)} \cup Range(Tail(ready))
    BY <1>1, TailMembers DEF TxFacts
  <1>3. QED
    BY <1>2 DEF TxFacts, Runnable

(* The running thread takes a mailbox and leaves canTransmit. *)
LEMMA TransmitEffect ==
  ASSUME TxFacts, Tx!IInv, Tx!Transmit
  PROVE  LET r == Head(ready)
         IN /\ r \in Runnable /\ r \in Thread /\ r \notin Waiting
            /\ Runnable' = Runnable \ {r} /\ Waiting' = Waiting
            /\ Free > 0 /\ Free' = Free - 1 /\ Line' = Line /\ can'.rqcp = can.rqcp
            /\ timer' = [timer EXCEPT ![r] = CAN_TRANSMIT_TIMEOUT + 1]
            /\ rdymsg[r] = "MSG_OK" /\ rdymsg' = rdymsg /\ blocked' = blocked
  <1> DEFINE r == Head(ready)
  <1>1. /\ ready # <<>> /\ ready' = Tail(ready)
        /\ UNCHANGED <<txqueue, rdymsg, blocked>>
        /\ rdymsg[r] = "MSG_OK" /\ can' = Tx!can_lld_transmit(can, "frame")
        /\ timer' = [timer EXCEPT ![r] = CAN_TRANSMIT_TIMEOUT + 1]
        /\ Len(can.mbx) < CAN_TX_MAILBOXES
    BY DEF Tx!Transmit, Tx!Running, Tx!Off, Tx!can_lld_is_tx_empty
  <1>2. r \in Runnable /\ r \in Thread /\ r \notin Waiting /\ Runnable' = Runnable \ {r}
    BY <1>1, RunningFacts DEF Runnable
  <1>3. /\ can'.mbx = Append(can.mbx, "frame") /\ can'.rqcp = can.rqcp /\ Line' = Line
    BY <1>1 DEF Tx!can_lld_transmit, Tx!IInv, Tx!TypeOK, Tx!CanRegs, Line, Tx!IrqLine
  <1>4. Len(can.mbx) \in Nat /\ Len(can'.mbx) = Len(can.mbx) + 1
    BY <1>2, <1>3 DEF TxFacts
  <1>5. Free > 0 /\ Free' = Free - 1
    <2>1. Len(can.mbx) < CAN_TX_MAILBOXES
      BY <1>1
    <2>2. QED
      BY <1>4, <2>1, Constants DEF Free
  <1>6. QED
    BY <1>1, <1>2, <1>3, <1>5 DEF Waiting

(* The running thread waits for a mailbox. *)
LEMMA EnqueueEffect ==
  ASSUME TxFacts, Tx!IInv, Tx!Enqueue
  PROVE  LET r == Head(ready)
         IN /\ r \in Runnable /\ r \in Thread /\ r \notin Waiting
            /\ Runnable' = Runnable \ {r} /\ Waiting' = Waiting \cup {r}
            /\ Free = 0 /\ Free' = Free /\ Line' = Line /\ can' = can
            /\ timer' = [timer EXCEPT ![r] = CAN_TRANSMIT_TIMEOUT]
            /\ rdymsg[r] = "MSG_OK" /\ rdymsg' = rdymsg /\ blocked' = blocked
  <1> DEFINE r == Head(ready)
  <1>1. /\ ready # <<>> /\ ready' = Tail(ready) /\ txqueue' = Append(txqueue, r)
        /\ UNCHANGED <<can, rdymsg, blocked>> /\ rdymsg[r] = "MSG_OK"
        /\ timer' = [timer EXCEPT ![r] = CAN_TRANSMIT_TIMEOUT]
        /\ ~(Len(can.mbx) < CAN_TX_MAILBOXES)
    BY DEF Tx!Enqueue, Tx!Running, Tx!can_lld_is_tx_empty
  <1>2. r \in Runnable /\ r \in Thread /\ r \notin Waiting /\ Runnable' = Runnable \ {r}
    BY <1>1, RunningFacts DEF Runnable
  <1>3. Waiting' = Waiting \cup {r}
    <2>1. txqueue \in Seq(Thread)
      BY DEF TxFacts
    <2>2. QED
      BY <1>1, <1>2, <2>1, AppendMembers DEF Waiting
  <1>4. Free = 0 /\ Free' = Free /\ Line' = Line
    <2>1. Free' = Free /\ Line' = Line
      BY <1>1, ZenonT(30) DEF Free, Line
    <2>2. Len(can.mbx) \in Nat /\ Free \in 0..CAN_TX_MAILBOXES
      BY DEF TxFacts
    <2>3. Free = 0
      BY <1>1, <2>2, Constants DEF Free
    <2>4. QED
      BY <2>1, <2>3, ZenonT(30)
  <1>5. QED
    BY <1>1, <1>2, <1>3, <1>4

(* The running thread returns from canTransmit after a timeout. *)
LEMMA ReturnTimeoutEffect ==
  ASSUME TxFacts, Tx!IInv, Tx!ReturnTimeout
  PROVE  LET r == Head(ready)
         IN /\ r \in Runnable /\ r \in Thread /\ r \notin Waiting
            /\ rdymsg[r] = "MSG_TIMEOUT"
            /\ Runnable' = Runnable \ {r} /\ Waiting' = Waiting
            /\ Free' = Free /\ Line' = Line
            /\ UNCHANGED <<can, timer, rdymsg, blocked>>
  <1>1. /\ ready # <<>> /\ ready' = Tail(ready) /\ rdymsg[Head(ready)] = "MSG_TIMEOUT"
        /\ UNCHANGED <<can, txqueue, rdymsg, timer, blocked>>
    BY DEF Tx!ReturnTimeout, Tx!Running
  <1>2. QED
    BY <1>1, RunningFacts DEF Runnable, Waiting, Free, Line

(* The CAN interrupt makes every waiter ready and takes the line down. *)
LEMMA CanIrqEffect ==
  ASSUME TxFacts, Tx!IInv, Tx!CanIrq
  PROVE  /\ Line /\ ~Line' /\ ~can'.rqcp /\ Free' = Free
         /\ Runnable' = Runnable \cup Waiting /\ Waiting' = {}
         /\ rdymsg' = [t \in Thread |-> IF t \in Waiting THEN "MSG_OK" ELSE rdymsg[t]]
         /\ timer' = timer /\ blocked' = blocked
  <1>1. /\ Line /\ can' = Tx!UnifiedHandler(can) /\ ready' = ready \o txqueue
        /\ rdymsg' = [t \in Thread |-> IF t \in Waiting THEN "MSG_OK" ELSE rdymsg[t]]
        /\ txqueue' = <<>> /\ UNCHANGED <<timer, blocked>>
    BY DEF Tx!CanIrq, Line, Waiting, Range, Tx!Range
  <1>2. can'.mbx = can.mbx /\ ~can'.rqcp /\ ~Line'
    BY <1>1, ZenonT(30) DEF Tx!UnifiedHandler, Tx!can_lld_tx_handler, Tx!can_lld_rx0_handler,
       Tx!can_lld_sce_handler, Tx!RxBroadcasts, Tx!IrqLine, Line,
       Tx!IInv, Tx!TypeOK, Tx!CanRegs
  <1>3. Range(ready \o txqueue) = Range(ready) \cup Range(txqueue)
    BY ConcatMembers DEF TxFacts
  <1>4. Waiting' = {}
    BY <1>1 DEF Waiting, Range
  <1>5. QED
    BY <1>1, <1>2, <1>3, <1>4 DEF Runnable, Waiting, Free

(* The timeout callback: it makes a thread ready that still waits.  *)
LEMMA TimerWakeupEffect ==
  ASSUME TxFacts, Tx!IInv, NEW t \in Thread, Tx!TimerWakeup(t)
  PROVE  /\ timer[t] = 0 /\ timer' = [timer EXCEPT ![t] = CAN_TRANSMIT_TIMEOUT + 1]
         /\ Free' = Free /\ Line' = Line /\ can' = can /\ blocked' = blocked
         /\ \/ /\ t \notin Waiting /\ Waiting' = Waiting /\ Runnable' = Runnable
               /\ rdymsg' = rdymsg
            \/ /\ t \in Waiting /\ Waiting' = Waiting \ {t}
               /\ Runnable' = Runnable \cup {t}
               /\ rdymsg' = [rdymsg EXCEPT ![t] = "MSG_TIMEOUT"]
  <1>1. /\ timer[t] = 0 /\ timer' = [timer EXCEPT ![t] = CAN_TRANSMIT_TIMEOUT + 1]
        /\ UNCHANGED <<can, blocked>>
    BY DEF Tx!TimerWakeup, Tx!Off
  <1>2. CASE t \notin Waiting /\ UNCHANGED <<ready, txqueue, rdymsg>>
    BY <1>1, <1>2 DEF Free, Line, Runnable, Waiting
  <1>3. ASSUME NEW i \in DOMAIN txqueue, txqueue[i] = t, txqueue' = Without(txqueue, i),
               ready' = Append(ready, t), rdymsg' = [rdymsg EXCEPT ![t] = "MSG_TIMEOUT"]
        PROVE  /\ t \in Waiting /\ Waiting' = Waiting \ {t} /\ Runnable' = Runnable \cup {t}
    <2>1. IsInjective(txqueue)
      BY DEF Tx!IInv, Tx!InOneQueueOnce, Tx!IsInjective, IsInjective
    <2>2. t \in Waiting
      BY <1>3 DEF Waiting, Range
    <2>3. Range(Without(txqueue, i)) = Range(txqueue) \ {txqueue[i]}
      BY <2>1, RemoveMembers, ZenonT(30) DEF TxFacts
    <2>4. Range(Append(ready, t)) = Range(ready) \cup {t}
      BY AppendMembers DEF TxFacts
    <2>5. QED
      BY <1>3, <2>2, <2>3, <2>4 DEF Runnable, Waiting
  <1>4. \/ t \notin Waiting /\ UNCHANGED <<ready, txqueue, rdymsg>>
        \/ /\ \E i \in DOMAIN txqueue : txqueue[i] = t /\ txqueue' = Without(txqueue, i)
           /\ ready' = Append(ready, t) /\ rdymsg' = [rdymsg EXCEPT ![t] = "MSG_TIMEOUT"]
    BY ZenonT(30) DEF Tx!TimerWakeup, Without, Waiting, Range, Tx!Range
  <1>5. QED
    BY <1>1, <1>2, <1>3, <1>4 DEF Free, Line

(* A request ends on the bus. *)
LEMMA TransmissionEndsEffect ==
  ASSUME TxFacts, Tx!IInv, Tx!TransmissionEnds
  PROVE  /\ Free < CAN_TX_MAILBOXES /\ Free' = Free + 1 /\ can'.rqcp /\ Line'
         /\ Runnable' = Runnable /\ Waiting' = Waiting
         /\ rdymsg' = rdymsg /\ timer' = timer /\ blocked' = blocked
  <1>1. /\ can.mbx # <<>> /\ can' = Tx!BusTransmitted(can)
        /\ UNCHANGED <<ready, txqueue, rdymsg, timer, blocked>>
    BY DEF Tx!TransmissionEnds
  <1>2. can'.mbx = Tail(can.mbx) /\ can'.rqcp
    BY <1>1 DEF Tx!BusTransmitted, Tx!IInv, Tx!TypeOK, Tx!CanRegs
  <1>3. Len(can.mbx) \in Nat /\ Len(can'.mbx) = Len(can.mbx) - 1
    BY <1>1, <1>2 DEF TxFacts
  <1>4. Free' = Free + 1
    BY <1>3, Constants DEF Free
  <1>5. Line'
    BY <1>2 DEF Line, Tx!IrqLine
  <1>6. QED
    BY <1>1, <1>2, <1>4, <1>5 DEF TxFacts, Runnable, Waiting

(* The cell reports an error status. *)
LEMMA BusErrorEffect ==
  ASSUME TxFacts, Tx!IInv, Tx!BusErrorStatus
  PROVE  /\ Free' = Free /\ can'.rqcp = can.rqcp
         /\ Runnable' = Runnable /\ Waiting' = Waiting
         /\ rdymsg' = rdymsg /\ timer' = timer /\ blocked' = blocked
  <1>1. /\ can' = Tx!BusError(can) /\ UNCHANGED <<ready, txqueue, rdymsg, timer, blocked>>
    BY DEF Tx!BusErrorStatus
  <1>2. can'.mbx = can.mbx /\ can'.rqcp = can.rqcp
    BY <1>1 DEF Tx!BusError, Tx!IInv, Tx!TypeOK, Tx!CanRegs
  <1>3. QED
    BY <1>1, <1>2 DEF Free, Runnable, Waiting

(* A frame is received by the cell, or taken from it by can_rx: neither    *)
(* touches the mailboxes, and taking one does not raise the line.          *)
LEMMA ReceptionEffect ==
  ASSUME TxFacts, Tx!IInv, FrameReceived \/ RxReceives
  PROVE  /\ can'.rqcp = can.rqcp /\ Free' = Free
         /\ Runnable' = Runnable /\ Waiting' = Waiting
         /\ rdymsg' = rdymsg /\ timer' = timer /\ blocked' = blocked
         /\ FrameReceived \/ (Line' => Line)
  <1>1. UNCHANGED <<ready, txqueue, rdymsg, timer, blocked>>
    BY DEF FrameReceived, RxReceives
  <1>2. CASE FrameReceived
    <2>1. can' = Tx!BusReceive(can, "frame")
      BY <1>2 DEF FrameReceived
    <2>2. can'.mbx = can.mbx /\ can'.rqcp = can.rqcp
      BY <2>1, ZenonT(30) DEF Tx!BusReceive, Tx!IInv, Tx!TypeOK, Tx!CanRegs
    <2>3. QED
      BY <1>1, <1>2, <2>2 DEF Free, Runnable, Waiting
  <1>3. CASE RxReceives
    <2> DEFINE t == Tail(can.fifo)
               m == can.fmpie0 \/ Len(can.fifo) = 1
    <2>1. can.fifo # <<>> /\ can' = [can EXCEPT !.fifo = t, !.fmpie0 = m]
      BY <1>3 DEF RxReceives, Tx!can_lld_is_rx_nonempty, Tx!can_lld_receive
    <2>2. Len(can.fifo) = 1 => t = <<>>
      <3>1. can.fifo \in Seq(Tx!RxFrame)
        BY DEF Tx!IInv, Tx!TypeOK, Tx!CanRegs
      <3>2. t \in Seq(Tx!RxFrame) /\ Len(t) = Len(can.fifo) - 1
        BY <2>1, <3>1
      <3> HIDE DEF t
      <3>3. Len(can.fifo) = 1 => Len(t) = 0
        BY <3>2
      <3>4. QED
        BY <3>2, <3>3, NoElements, ZenonT(30)
    <2>3. m /\ t # <<>> => can.fmpie0
      BY <2>2
    <2> HIDE DEF t, m
    <2>4. can'.mbx = can.mbx /\ can'.rqcp = can.rqcp /\ (Line' => Line)
      BY <2>1, <2>3, ZenonT(30) DEF Tx!IInv, Tx!TypeOK, Tx!CanRegs, Line, Tx!IrqLine
    <2>5. QED
      BY <1>1, <2>4 DEF Free, Runnable, Waiting
  <1>4. QED
    BY <1>2, <1>3

(* A tick passes only when every thread in a call waits, for a mailbox     *)
(* that is not there.                                                      *)
LEMMA TickEffect ==
  ASSUME TxFacts, Tick
  PROVE  /\ Runnable = {} /\ ~Line /\ ~can.rqcp /\ (Waiting # {} => Free = 0)
         /\ can' = can /\ Free' = Free /\ Line' = Line
         /\ Runnable' = Runnable /\ Waiting' = Waiting /\ rdymsg' = rdymsg
         /\ \A t \in Thread : timer[t] # 0
         /\ timer' = [t \in Thread |-> IF timer[t] = CAN_TRANSMIT_TIMEOUT + 1
                                       THEN CAN_TRANSMIT_TIMEOUT + 1 ELSE timer[t] - 1]
         /\ blocked' = [t \in Thread |->
              IF t \in Waiting /\ blocked[t] <= CAN_TRANSMIT_TIMEOUT
              THEN blocked[t] + 1 ELSE blocked[t]]
  <1>1. /\ ready = <<>> /\ ~Line /\ UNCHANGED <<can, ready, txqueue, rdymsg>>
        /\ \A t \in Thread : timer[t] # 0
        /\ timer' = [t \in Thread |-> IF timer[t] = CAN_TRANSMIT_TIMEOUT + 1
                                      THEN CAN_TRANSMIT_TIMEOUT + 1 ELSE timer[t] - 1]
        /\ blocked' = [t \in Thread |->
              IF t \in Waiting /\ blocked[t] <= CAN_TRANSMIT_TIMEOUT
              THEN blocked[t] + 1 ELSE blocked[t]]
    BY DEF Tick, Tx!Tick, Tx!Off, Line, Waiting, Range, Tx!Range
  <1>2. Runnable = {}
    BY <1>1 DEF Runnable, Range
  <1>3. ~can.rqcp /\ (Waiting # {} => Free = 0)
    BY <1>1, Constants DEF TxFacts
  <1>4. QED
    BY <1>1, <1>2, <1>3 DEF Free, Line, Runnable, Waiting

(* The running thread leaves canTransmit, with a mailbox or after the      *)
(* timeout.                                                                *)
LEMMA LeaveEffect ==
  ASSUME TxFacts, Tx!IInv, Tx!Transmit \/ Tx!ReturnTimeout
  PROVE  LET r == Head(ready)
         IN /\ r \in Runnable /\ r \in Thread /\ r \notin Waiting
            /\ Runnable' = Runnable \ {r} /\ Waiting' = Waiting /\ Line' = Line
            /\ \A t \in Thread \ {r} : timer'[t] = timer[t]
            /\ rdymsg' = rdymsg /\ blocked' = blocked
  <1>1. CASE Tx!Transmit
    BY <1>1, TransmitEffect, ZenonT(30) DEF TxFacts
  <1>2. CASE Tx!ReturnTimeout
    BY <1>2, ReturnTimeoutEffect
  <1>3. QED
    BY <1>1, <1>2

-----------------------------------------------------------------------------
(* The loops *)

(* What follows canTransmit in the loop of the running thread. *)
LEMMA ReturnsEffect ==
  ASSUME Returns
  PROVE  LET r == Head(ready)
         IN /\ place' = [place EXCEPT ![r] = IF r = adc_worker THEN "asleep" ELSE "log"]
            /\ wait' = [wait EXCEPT ![r] = IF r = adc_worker THEN SleepTicks ELSE LogTicks]
            /\ stats_check' = IF r = main /\ place[main] = "calling"
                              THEN stats_check + MAIN_THREAD_CHECK_INTERVAL_MS
                              ELSE stats_check
            /\ woken' = IF r = main /\ place[main] = "calling" THEN 0 ELSE woken
            /\ wdg' = wdg /\ worked' = worked
  BY Threads DEF Returns, Goes

(* The running thread begins to wait, or goes on waiting. *)
LEMMA WaitsEffect ==
  ASSUME Waits
  PROVE  LET r == Head(ready)
         IN /\ place' = [place EXCEPT ![r] = "transmit"]
            /\ wait' = [wait EXCEPT ![r] = 0]
            /\ stats_check' = IF r = main /\ place[main] = "calling"
                              THEN stats_check + MAIN_THREAD_CHECK_INTERVAL_MS
                              ELSE stats_check
            /\ woken' = IF r # main THEN woken
                        ELSE IF place[main] = "calling" THEN 0 ELSE woken + 1
            /\ wdg' = wdg /\ worked' = worked
  BY DEF Waits, Goes

(* The types of the loops' variables. *)
TypeOK ==
  /\ DOMAIN place = Thread
  /\ place[main] \in {"boot", "asleep", "calling", "transmit", "log"}
  /\ place[can_rx] \in {"unborn", "startup", "asleep", "calling", "transmit", "log"}
  /\ place[adc_worker] \in {"unborn", "asleep", "calling", "transmit"}
  /\ wait \in [Thread -> Nat]
  /\ stats_check \in Nat /\ woken \in Nat
  /\ wdg \in 0..WatchdogTicks
  /\ worked \in 0..(SYSTIME_VALUES - 1)
  /\ event \in BOOLEAN
  /\ arrived \in 0..FramesPerTick /\ busy \in 0..FrameTicks
  /\ healthy \in BOOLEAN

(* The numbers of a thread. *)
LEMMA Numbers ==
  ASSUME TxFacts, TypeOK, NEW t \in Thread
  PROVE  /\ timer[t] \in Nat /\ timer[t] <= CAN_TRANSMIT_TIMEOUT + 1
         /\ blocked[t] \in Nat /\ blocked[t] <= CAN_TRANSMIT_TIMEOUT + 1
         /\ wait[t] \in Nat /\ busy \in Nat /\ busy <= FrameTicks
         /\ Free \in Nat /\ Free <= CAN_TX_MAILBOXES
  <1>1. /\ timer[t] \in 0..(CAN_TRANSMIT_TIMEOUT + 1)
        /\ blocked[t] \in 0..(CAN_TRANSMIT_TIMEOUT + 1)
        /\ Free \in 0..CAN_TX_MAILBOXES
    BY DEF TxFacts
  <1>2. wait[t] \in Nat /\ busy \in 0..FrameTicks
    BY DEF TypeOK
  <1>3. QED
    BY <1>1, <1>2, Constants

(* The sleep of the worker is a systime_t, and not longer than the period  *)
(* unless the worker measured more than that.                              *)
LEMMA SleepTicksBound ==
  ASSUME worked \in 0..(SYSTIME_VALUES - 1)
  PROVE  /\ SleepTicks \in Nat
         /\ worked <= PeriodTicks =>
              SleepTicks <= PeriodTicks /\ SleepTicks >= PeriodTicks - worked
  <1> DEFINE d == PeriodTicks - worked
             S == SYSTIME_VALUES
  <1>1. d \in Int /\ S \in Nat \ {0} /\ CH_CFG_ST_TIMEDELTA \in 0..PeriodTicks
        /\ PeriodTicks \in 0..(S - 1)
    BY Constants
  <1>2. d % S \in 0..(S - 1)
    BY <1>1
  <1>3. ASSUME worked <= PeriodTicks PROVE d % S = d
    BY <1>1, <1>3
  <1>4. SleepTicks = IF d % S < CH_CFG_ST_TIMEDELTA THEN CH_CFG_ST_TIMEDELTA ELSE d % S
    BY DEF SleepTicks
  <1> HIDE DEF S
  <1>5. SleepTicks \in Nat
    BY <1>1, <1>2, <1>4
  <1>6. ASSUME worked <= PeriodTicks
        PROVE  SleepTicks <= PeriodTicks /\ SleepTicks >= PeriodTicks - worked
    <2>1. d % S = PeriodTicks - worked
      BY <1>3, <1>6
    <2>2. QED
      BY <1>1, <1>4, <2>1
  <1>7. QED
    BY <1>5, <1>6

(* The loops keep their types. *)
LEMMA NextTypeOK == TxFacts /\ Tx!IInv /\ TypeOK /\ [Next]_vars => TypeOK'
  <1> SUFFICES ASSUME TxFacts, Tx!IInv, TypeOK, [Next]_vars PROVE TypeOK'
    OBVIOUS
  <1> USE Threads, Constants
  <1>1. CASE EnterLoop
    BY <1>1 DEF EnterLoop, bus, TypeOK
  <1>2. CASE MainRound \/ StatsDone
    BY <1>2 DEF MainRound, StatsDone, Feed, Goes, bus, TypeOK
  <1>3. CASE MainCalls
    BY <1>3 DEF MainCalls, Goes, bus, TypeOK
  <1>4. CASE AdcCalls
    BY <1>4 DEF AdcCalls, Goes, bus, TypeOK
  <1>5. CASE RxCalls
    BY <1>5 DEF RxCalls, Goes, bus, TypeOK
  <1>6. CASE RxWaits \/ RxServed \/ RxLogged
    <2>1. event' \in BOOLEAN
      BY <1>6, ZenonT(30) DEF RxWaits, RxServed, RxLogged, TypeOK
    <2>2. /\ UNCHANGED <<stats_check, woken, wdg, worked, arrived, busy, healthy>>
          /\ Goes(can_rx, "asleep", EventTicks)
      BY <1>6, ZenonT(30) DEF RxWaits, RxServed, RxLogged, bus
    <2>3. QED
      BY <2>1, <2>2 DEF Goes, TypeOK
  <1>7. CASE Transmit \/ ReturnTimeout
    <2> DEFINE r == Head(ready)
    <2>1. r \in Thread /\ UNCHANGED <<event, arrived, busy, healthy>> /\ Returns
      BY <1>7, LeaveEffect DEF Transmit, ReturnTimeout, bus
    <2>2. SleepTicks \in Nat
      BY SleepTicksBound DEF TypeOK
    <2>3. QED
      BY <2>1, <2>2, ReturnsEffect DEF TypeOK
  <1>8. CASE Enqueue
    <2>1. Head(ready) \in Thread /\ UNCHANGED <<event, arrived, busy, healthy>> /\ Waits
      BY <1>8, EnqueueEffect DEF Enqueue, bus
    <2>2. QED
      BY <2>1, WaitsEffect DEF TypeOK
  <1>9. CASE CanIrq \/ BusErrorStatus \/ TransmissionEnds \/ \E t \in Thread : TimerWakeup(t)
    <2>1. UNCHANGED <<place, wait, stats_check, woken, wdg, worked, healthy>>
      BY <1>9, ZenonT(30) DEF CanIrq, BusErrorStatus, TransmissionEnds, TimerWakeup, loops, bus
    <2>2. event' \in BOOLEAN
      BY <1>9, ZenonT(30) DEF CanIrq, BusErrorStatus, TransmissionEnds, TimerWakeup, TypeOK
    <2>3. arrived' \in 0..FramesPerTick /\ busy' \in 0..FrameTicks
      BY <1>9 DEF CanIrq, BusErrorStatus, TransmissionEnds, TimerWakeup, bus, TypeOK
    <2>4. QED
      BY <2>1, <2>2, <2>3, ZenonT(30) DEF TypeOK
  <1>10. CASE Tick
    <2>1. /\ UNCHANGED <<place, stats_check, woken, event, healthy>> /\ arrived' = 0
          /\ wdg > 0 /\ wdg' = wdg - 1
          /\ wait' = [t \in Thread |->
               IF wait[t] = 0 \/ (t = adc_worker /\ wait[t] = TIME_INFINITE) THEN wait[t]
               ELSE wait[t] - 1]
      BY <1>10 DEF Tick
    <2>2. wait' \in [Thread -> Nat]
      BY <2>1 DEF TypeOK
    <2>3. worked' \in 0..(SYSTIME_VALUES - 1)
      BY <1>10 DEF Tick, TypeOK
    <2>4. busy' \in 0..FrameTicks
      BY <1>10 DEF Tick, TypeOK
    <2>5. QED
      BY <2>1, <2>2, <2>3, <2>4 DEF TypeOK
  <1>11. CASE WatchdogReset
    <2>1. event' \in BOOLEAN /\ healthy' \in BOOLEAN
      BY <1>11, ZenonT(30) DEF WatchdogReset, TypeOK
    <2>2. QED
      BY <1>11, <2>1 DEF WatchdogReset, BootPlace, BootWait, TypeOK
  <1>12. CASE UNCHANGED vars
    BY <1>12, ZenonT(30) DEF vars, loops, bus, TypeOK
  <1>13. CASE FrameReceived \/ RxReceives
    BY <1>13 DEF FrameReceived, RxReceives, Goes, loops, bus, TypeOK
  <1>14. QED
    BY <1>1, <1>2, <1>3, <1>4, <1>5, <1>6, <1>7, <1>8, <1>9, <1>10, <1>11, <1>12, <1>13 DEF Next

(* The threads in the lists of the scheduler are those inside canTransmit, *)
(* and main is there for the statistics only.                              *)
PlacesMatchLists ==
  /\ place[main] = "boot" => place[can_rx] = "unborn" /\ place[adc_worker] = "unborn"
  /\ place[adc_worker] = "unborn" => wait[adc_worker] = 0
  /\ \A t \in Thread :
       /\ place[t] \in {"calling", "transmit"} <=> t \in Runnable \cup Waiting
       /\ t \in Waiting => place[t] = "transmit"
       /\ place[t] = "calling" =>
            /\ wait[t] = 0 /\ blocked[t] = 0
            /\ timer[t] = CAN_TRANSMIT_TIMEOUT + 1 /\ rdymsg[t] = "MSG_OK"
  /\ place[main] = "calling" => StatsDue

(* Thread t goes to a place where it calls canTransmit: what MainCalls,    *)
(* AdcCalls and RxCalls have in common.                                    *)
Calls(t) ==
  /\ place[t] \in {"asleep", "startup"} /\ wait[t] = 0
  /\ Tx!CallTransmit(t)
  /\ Goes(t, "calling", 0)
  /\ UNCHANGED <<stats_check, woken, wdg, bus>>
  /\ t = main => StatsDue
  /\ IF t = adc_worker THEN worked' = 0 ELSE worked' = worked

(* The calls of the three threads. *)
LEMMA CallsEffect ==
  ASSUME MainCalls \/ AdcCalls \/ RxCalls
  PROVE  \E t \in Thread : Calls(t)
  <1>1. MainCalls => Calls(main)
    BY Threads DEF MainCalls, Calls, Wakes
  <1>2. AdcCalls => Calls(adc_worker)
    BY Threads DEF AdcCalls, Calls, Wakes
  <1>3. RxCalls => Calls(can_rx)
    BY Threads DEF RxCalls, Calls
  <1>4. QED
    BY <1>1, <1>2, <1>3, Threads

(* Thread t goes on in its loop outside canTransmit: what MainRound,       *)
(* StatsDone, RxWaits, RxServed and RxLogged have in common.               *)
Rounds(t) ==
  /\ t # adc_worker /\ place[t] \in {"asleep", "log"}
  /\ Goes(t, "asleep", IF t = main THEN CheckTicks ELSE EventTicks)
  /\ wdg' = IF t = main THEN WatchdogTicks ELSE wdg
  /\ t = can_rx => UNCHANGED <<stats_check, woken>>
  /\ UNCHANGED blocked \/ Forgets(t)
  /\ UNCHANGED <<can, ready, txqueue, rdymsg, timer, worked, bus>>

(* The rounds of main and can_rx. *)
LEMMA RoundsEffect ==
  ASSUME MainRound \/ StatsDone \/ RxWaits \/ RxServed \/ RxLogged
  PROVE  \E t \in Thread : Rounds(t)
  <1>1. MainRound \/ StatsDone => Rounds(main)
    BY Threads DEF MainRound, StatsDone, Feed, Rounds, Wakes
  <1>2. RxWaits \/ RxServed \/ RxLogged => Rounds(can_rx)
    BY Threads DEF RxWaits, RxServed, RxLogged, Rounds, Wakes
  <1>3. QED
    BY <1>1, <1>2, Threads

(* A thread that goes to another place leaves the others where they are. *)
LEMMA GoesEffect ==
  ASSUME TypeOK, NEW t \in Thread, NEW p, NEW n, Goes(t, p, n)
  PROVE  /\ place'[t] = p /\ wait'[t] = n
         /\ \A u \in Thread \ {t} : place'[u] = place[u] /\ wait'[u] = wait[u]
  BY DEF Goes, TypeOK

(* Steps that leave the transmit path alone leave the lists alone. *)
LEMMA QuietEffect ==
  ASSUME UNCHANGED <<can, ready, txqueue>>
  PROVE  Runnable' = Runnable /\ Waiting' = Waiting /\ Free' = Free /\ Line' = Line
  BY DEF Runnable, Waiting, Free, Line

(* The same steps thread by thread. *)

(* Thread t goes round its loop. *)
LEMMA RoundStep ==
  ASSUME TxFacts, TypeOK, NEW t \in Thread, Rounds(t)
  PROVE  /\ t # adc_worker /\ place[t] \in {"asleep", "log"} /\ place'[t] = "asleep"
         /\ wait'[t] = IF t = main THEN CheckTicks ELSE EventTicks
         /\ \A u \in Thread \ {t} :
              place'[u] = place[u] /\ wait'[u] = wait[u] /\ blocked'[u] = blocked[u]
         /\ t # main => stats_check' = stats_check /\ woken' = woken
         /\ wdg' = IF t = main THEN WatchdogTicks ELSE wdg
         /\ UNCHANGED <<can, rdymsg, timer, worked, arrived, busy, healthy>>
         /\ Runnable' = Runnable /\ Waiting' = Waiting /\ Free' = Free /\ Line' = Line
  <1>1. \A u \in Thread \ {t} : blocked'[u] = blocked[u]
    BY DEF Rounds, Forgets, TxFacts
  <1>2. QED
    BY <1>1, GoesEffect, QuietEffect DEF Rounds, Thread, bus

(* Thread t calls. *)
LEMMA CallStep ==
  ASSUME TxFacts, TypeOK, NEW t \in Thread, Calls(t)
  PROVE  /\ place[t] \in {"asleep", "startup"} /\ wait[t] = 0
         /\ place'[t] = "calling" /\ wait'[t] = 0
         /\ \A u \in Thread \ {t} : place'[u] = place[u] /\ wait'[u] = wait[u]
         /\ UNCHANGED <<can, timer, stats_check, woken, wdg, arrived, busy, healthy>>
         /\ t = main => StatsDue
         /\ worked' = IF t = adc_worker THEN 0 ELSE worked
         /\ Runnable' = Runnable \cup {t} /\ Waiting' = Waiting
         /\ Free' = Free /\ Line' = Line
         /\ t \notin Runnable /\ t \notin Waiting
         /\ rdymsg'[t] = "MSG_OK" /\ blocked'[t] = 0
         /\ \A u \in Thread \ {t} : rdymsg'[u] = rdymsg[u] /\ blocked'[u] = blocked[u]
  <1>1. /\ place'[t] = "calling" /\ wait'[t] = 0 /\ place[t] \in {"asleep", "startup"}
        /\ \A u \in Thread \ {t} : place'[u] = place[u] /\ wait'[u] = wait[u]
        /\ wait[t] = 0 /\ UNCHANGED <<stats_check, woken, wdg, arrived, busy, healthy>>
        /\ t = main => StatsDue
        /\ worked' = IF t = adc_worker THEN 0 ELSE worked
    BY GoesEffect DEF Calls, bus
  <1>2. rdymsg \in [Thread -> {"MSG_OK", "MSG_TIMEOUT"}] /\ DOMAIN blocked = Thread
    BY DEF TxFacts
  <1>3. /\ Runnable' = Runnable \cup {t} /\ Waiting' = Waiting
        /\ Free' = Free /\ Line' = Line /\ can' = can /\ timer' = timer
        /\ t \notin Runnable /\ t \notin Waiting
        /\ rdymsg'[t] = "MSG_OK" /\ blocked'[t] = 0
        /\ \A u \in Thread \ {t} : rdymsg'[u] = rdymsg[u] /\ blocked'[u] = blocked[u]
    BY <1>2, CallEffect DEF Calls
  <1>4. QED
    BY <1>1, <1>3

(* The running thread leaves canTransmit. *)
LEMMA LeaveStep ==
  ASSUME TxFacts, Tx!IInv, TypeOK, Transmit \/ ReturnTimeout, NEW r, r = Head(ready)
  PROVE  /\ r \in Runnable /\ r \in Thread /\ r \notin Waiting
         /\ Runnable' = Runnable \ {r} /\ Waiting' = Waiting /\ Line' = Line
         /\ \A u \in Thread \ {r} :
              place'[u] = place[u] /\ wait'[u] = wait[u] /\ timer'[u] = timer[u]
         /\ rdymsg' = rdymsg /\ blocked' = blocked
         /\ place'[r] = IF r = adc_worker THEN "asleep" ELSE "log"
         /\ wait'[r] = IF r = adc_worker THEN SleepTicks ELSE LogTicks
         /\ stats_check' = IF r = main /\ place[main] = "calling"
                           THEN stats_check + MAIN_THREAD_CHECK_INTERVAL_MS
                           ELSE stats_check
         /\ woken' = IF r = main /\ place[main] = "calling" THEN 0 ELSE woken
         /\ UNCHANGED <<wdg, worked, arrived, busy, healthy>>
  <1>1. Returns /\ (Tx!Transmit \/ Tx!ReturnTimeout) /\ UNCHANGED <<arrived, busy, healthy>>
    BY DEF Transmit, ReturnTimeout, bus
  <1>2. /\ r \in Runnable /\ r \in Thread /\ r \notin Waiting
        /\ Runnable' = Runnable \ {r} /\ Waiting' = Waiting /\ Line' = Line
        /\ \A u \in Thread \ {r} : timer'[u] = timer[u]
        /\ rdymsg' = rdymsg /\ blocked' = blocked
    BY <1>1, LeaveEffect
  <1>3. QED
    BY <1>1, <1>2, ReturnsEffect DEF TypeOK

(* The running thread waits. *)
LEMMA WaitStep ==
  ASSUME TxFacts, Tx!IInv, TypeOK, Enqueue, NEW r, r = Head(ready)
  PROVE  /\ r \in Runnable /\ r \in Thread /\ r \notin Waiting
         /\ Runnable' = Runnable \ {r} /\ Waiting' = Waiting \cup {r}
         /\ Free = 0 /\ Free' = Free /\ Line' = Line /\ can' = can
         /\ \A u \in Thread \ {r} :
              place'[u] = place[u] /\ wait'[u] = wait[u] /\ timer'[u] = timer[u]
         /\ rdymsg[r] = "MSG_OK" /\ rdymsg' = rdymsg /\ blocked' = blocked
         /\ timer'[r] = CAN_TRANSMIT_TIMEOUT
         /\ place'[r] = "transmit" /\ wait'[r] = 0
         /\ stats_check' = IF r = main /\ place[main] = "calling"
                           THEN stats_check + MAIN_THREAD_CHECK_INTERVAL_MS
                           ELSE stats_check
         /\ woken' = IF r # main THEN woken
                     ELSE IF place[main] = "calling" THEN 0 ELSE woken + 1
         /\ UNCHANGED <<wdg, worked, arrived, busy, healthy>>
  <1>1. Waits /\ Tx!Enqueue /\ UNCHANGED <<arrived, busy, healthy>>
    BY DEF Enqueue, bus
  <1>2. DOMAIN timer = Thread
    BY DEF TxFacts
  <1>3. /\ r \in Runnable /\ r \in Thread /\ r \notin Waiting
        /\ Runnable' = Runnable \ {r} /\ Waiting' = Waiting \cup {r}
        /\ Free = 0 /\ Free' = Free /\ Line' = Line /\ can' = can
        /\ timer'[r] = CAN_TRANSMIT_TIMEOUT
        /\ \A u \in Thread \ {r} : timer'[u] = timer[u]
        /\ rdymsg[r] = "MSG_OK" /\ rdymsg' = rdymsg /\ blocked' = blocked
    BY <1>1, <1>2, EnqueueEffect
  <1>4. QED
    BY <1>1, <1>3, WaitsEffect DEF TypeOK

(* A timeout callback for thread u. *)
LEMMA TimerStep ==
  ASSUME TxFacts, Tx!IInv, NEW u \in Thread, TimerWakeup(u)
  PROVE  /\ UNCHANGED <<can, blocked, place, wait, stats_check, woken, wdg, worked,
                        arrived, busy, healthy>>
         /\ timer[u] = 0 /\ Free' = Free /\ Line' = Line
         /\ Runnable' = (IF u \in Waiting THEN Runnable \cup {u} ELSE Runnable)
         /\ Waiting' = Waiting \ {u}
         /\ timer'[u] = CAN_TRANSMIT_TIMEOUT + 1
         /\ rdymsg'[u] = IF u \in Waiting THEN "MSG_TIMEOUT" ELSE rdymsg[u]
         /\ \A t \in Thread \ {u} : timer'[t] = timer[t] /\ rdymsg'[t] = rdymsg[t]
  <1>1. DOMAIN timer = Thread /\ DOMAIN rdymsg = Thread
    BY DEF TxFacts
  <1>2. /\ timer[u] = 0 /\ Free' = Free /\ Line' = Line /\ can' = can
        /\ timer' = [timer EXCEPT ![u] = CAN_TRANSMIT_TIMEOUT + 1] /\ blocked' = blocked
        /\ \/ /\ u \notin Waiting /\ Waiting' = Waiting /\ Runnable' = Runnable
              /\ rdymsg' = rdymsg
           \/ /\ u \in Waiting /\ Waiting' = Waiting \ {u} /\ Runnable' = Runnable \cup {u}
              /\ rdymsg' = [rdymsg EXCEPT ![u] = "MSG_TIMEOUT"]
    BY TimerWakeupEffect DEF TimerWakeup
  <1>3. UNCHANGED <<place, wait, stats_check, woken, wdg, worked, arrived, busy, healthy>>
    BY DEF TimerWakeup, loops, bus
  <1>4. QED
    BY <1>1, <1>2, <1>3

(* A tick. *)
LEMMA TickStep ==
  ASSUME TxFacts, TypeOK, Tick
  PROVE  /\ Runnable = {} /\ ~Line /\ ~can.rqcp /\ (Waiting # {} => Free = 0)
         /\ Runnable' = Runnable /\ Waiting' = Waiting /\ Free' = Free /\ Line' = Line
         /\ UNCHANGED <<can, rdymsg, place, stats_check, woken, healthy>> /\ arrived' = 0
         /\ \A t \in Thread :
              /\ timer[t] # 0
              /\ timer'[t] = IF timer[t] = CAN_TRANSMIT_TIMEOUT + 1
                             THEN CAN_TRANSMIT_TIMEOUT + 1 ELSE timer[t] - 1
              /\ blocked'[t] = IF t \in Waiting /\ blocked[t] <= CAN_TRANSMIT_TIMEOUT
                               THEN blocked[t] + 1 ELSE blocked[t]
              /\ wait'[t] = IF wait[t] = 0 \/ (t = adc_worker /\ wait[t] = TIME_INFINITE)
                            THEN wait[t] ELSE wait[t] - 1
              /\ place[t] \in {"boot", "startup", "asleep", "log"} => wait[t] > 0
         /\ wdg > 0 /\ wdg' = wdg - 1
         /\ worked' = IF place[adc_worker] = "transmit"
                      THEN (worked + 1) % SYSTIME_VALUES ELSE worked
         /\ healthy /\ Free < CAN_TX_MAILBOXES => busy < FrameTicks /\ busy' = busy + 1
  <1>1. can.mbx # <<>> <=> Free < CAN_TX_MAILBOXES
    BY DEF TxFacts
  <1>2. QED
    BY <1>1, TickEffect DEF Tick

(* A frame is received, or taken by can_rx, which may log it. *)
LEMMA ReceptionStep ==
  ASSUME TxFacts, Tx!IInv, TypeOK, FrameReceived \/ RxReceives
  PROVE  /\ Free' = Free /\ can'.rqcp = can.rqcp /\ Runnable' = Runnable /\ Waiting' = Waiting
         /\ UNCHANGED <<rdymsg, timer, blocked, stats_check, woken, wdg, worked, busy, healthy>>
         /\ \A u \in Thread : \/ place'[u] = place[u] /\ wait'[u] = wait[u]
                             \/ /\ u = can_rx /\ place[u] = "asleep"
                                /\ place'[u] = "log" /\ wait'[u] = LogTicks
         /\ \/ arrived' = arrived /\ (Line' => Line)
            \/ /\ arrived < FramesPerTick /\ arrived' = arrived + 1
               /\ healthy \/ woken < MaxWakeups
  <1>1. UNCHANGED <<stats_check, woken, wdg, worked, busy, healthy>>
    BY DEF FrameReceived, RxReceives, loops, bus
  <1>2. \A u \in Thread : \/ place'[u] = place[u] /\ wait'[u] = wait[u]
                        \/ /\ u = can_rx /\ place[u] = "asleep"
                           /\ place'[u] = "log" /\ wait'[u] = LogTicks
    BY DEF FrameReceived, RxReceives, Goes, loops, TypeOK
  <1>3. FrameReceived => /\ arrived < FramesPerTick /\ arrived' = arrived + 1
                         /\ healthy \/ woken < MaxWakeups
    BY DEF FrameReceived
  <1>4. RxReceives => arrived' = arrived
    BY DEF RxReceives, bus
  <1>5. QED
    BY <1>1, <1>2, <1>3, <1>4, ReceptionEffect, ZenonT(30)

(* Every step keeps places and lists together. *)
LEMMA NextPlaces ==
  TxFacts /\ Tx!IInv /\ TypeOK /\ PlacesMatchLists /\ [Next]_vars => PlacesMatchLists'
  <1> SUFFICES ASSUME TxFacts, Tx!IInv, TypeOK, PlacesMatchLists, [Next]_vars
               PROVE  PlacesMatchLists'
    OBVIOUS
  <1> USE Threads
  <1>1. CASE EnterLoop
    BY <1>1, QuietEffect, ZenonT(30) DEF EnterLoop, TypeOK, PlacesMatchLists, TxFacts
  <1>2. CASE MainRound \/ StatsDone \/ RxWaits \/ RxServed \/ RxLogged
    BY <1>2, RoundsEffect, RoundStep, ZenonT(30) DEF PlacesMatchLists, StatsDue
  <1>3. CASE MainCalls \/ AdcCalls \/ RxCalls
    <2>1. PICK t \in Thread : Calls(t)
      BY <1>3, CallsEffect
    <2>2. timer[t] = CAN_TRANSMIT_TIMEOUT + 1
      <3>1. t \notin Runnable /\ t \notin Waiting
        BY <2>1, CallStep, ZenonT(30)
      <3>2. timer[t] <= CAN_TRANSMIT_TIMEOUT => t \in Runnable \cup Waiting
        BY ZenonT(30) DEF TxFacts
      <3>3. timer[t] \in 0..(CAN_TRANSMIT_TIMEOUT + 1) /\ ~ (timer[t] <= CAN_TRANSMIT_TIMEOUT)
        BY <3>1, <3>2, ZenonT(30) DEF TxFacts
      <3>4. CAN_TRANSMIT_TIMEOUT \in Nat
        BY Constants
      <3>5. QED
        BY ONLY <3>3, <3>4
    <2>3. /\ \A u \in Thread \ {t} :
               /\ place'[u] = place[u] /\ wait'[u] = wait[u] /\ blocked'[u] = blocked[u]
               /\ rdymsg'[u] = rdymsg[u]
          /\ Runnable' = Runnable \cup {t} /\ Waiting' = Waiting
          /\ timer' = timer /\ stats_check' = stats_check
          /\ t \notin Waiting /\ place[t] # "boot" /\ place[t] # "unborn"
          /\ place'[t] = "calling" /\ wait'[t] = 0 /\ blocked'[t] = 0
          /\ rdymsg'[t] = "MSG_OK" /\ (t = main => StatsDue)
      BY <2>1, CallStep
    <2>4. ASSUME NEW u \in Thread
          PROVE  /\ place'[u] \in {"calling", "transmit"} <=> u \in Runnable' \cup Waiting'
                 /\ u \in Waiting' => place'[u] = "transmit"
                 /\ place'[u] = "calling" =>
                      /\ wait'[u] = 0 /\ blocked'[u] = 0
                      /\ timer'[u] = CAN_TRANSMIT_TIMEOUT + 1 /\ rdymsg'[u] = "MSG_OK"
      <3>1. CASE u = t
        BY <2>2, <2>3, <3>1, ZenonT(30)
      <3>2. CASE u # t
        BY <2>3, <3>2, ZenonT(30) DEF PlacesMatchLists
      <3>3. QED
        BY <3>1, <3>2
    <2>5. place'[main] = "boot" => place'[can_rx] = "unborn" /\ place'[adc_worker] = "unborn"
      BY <2>3, ZenonT(30) DEF PlacesMatchLists
    <2>6. place'[adc_worker] = "unborn" => wait'[adc_worker] = 0
      BY <2>3, ZenonT(30) DEF PlacesMatchLists
    <2>7. place'[main] = "calling" => StatsDue'
      BY <2>3, ZenonT(30) DEF PlacesMatchLists, StatsDue
    <2>8. QED
      BY <2>4, <2>5, <2>6, <2>7, ZenonT(30) DEF PlacesMatchLists
  <1>4. CASE Transmit \/ ReturnTimeout
    BY <1>4, LeaveStep DEF PlacesMatchLists, StatsDue
  <1>5. CASE Enqueue
    BY <1>5, WaitStep DEF PlacesMatchLists, StatsDue
  <1>6. CASE CanIrq
    <2>1. Tx!CanIrq /\ UNCHANGED loops
      BY <1>6 DEF CanIrq
    <2>2. QED
      BY <2>1, CanIrqEffect DEF loops, PlacesMatchLists, StatsDue
  <1>7. ASSUME NEW u \in Thread, TimerWakeup(u) PROVE PlacesMatchLists'
    <2>1. place[u] # "calling"
      BY <1>7, TimerStep, Constants DEF PlacesMatchLists
    <2>2. QED
      BY <1>7, <2>1, TimerStep DEF PlacesMatchLists, StatsDue
  <1>8. CASE TransmissionEnds
    BY <1>8, TransmissionEndsEffect DEF TransmissionEnds, loops, PlacesMatchLists, StatsDue
  <1>9. CASE BusErrorStatus
    BY <1>9, BusErrorEffect DEF BusErrorStatus, loops, PlacesMatchLists, StatsDue
  <1>10. CASE Tick
    BY <1>10, TickStep DEF PlacesMatchLists, StatsDue
  <1>11. CASE WatchdogReset
    <2>1. Runnable' = {} /\ Waiting' = {}
      BY <1>11 DEF WatchdogReset, Runnable, Waiting, Range
    <2>2. QED
      BY <1>11, <2>1 DEF WatchdogReset, BootPlace, BootWait, PlacesMatchLists
  <1>12. CASE UNCHANGED vars
    BY <1>12, QuietEffect DEF vars, loops, PlacesMatchLists, StatsDue
  <1>13. CASE FrameReceived \/ RxReceives
    BY <1>13, ReceptionStep DEF PlacesMatchLists, StatsDue
  <1>14. QED
    BY <1>1, <1>2, <1>3, <1>4, <1>5, <1>6, <1>7, <1>8, <1>9, <1>10, <1>11, <1>12, <1>13 DEF Next

-----------------------------------------------------------------------------
(* On any bus: what the worker measures *)

(* The time the worker measures is the time it was blocked, as long as     *)
(* that is counted.                                                        *)
WorkedIsBlocked ==
  /\ place[adc_worker] \in {"calling", "transmit"} =>
       worked <= blocked[adc_worker] \/ blocked[adc_worker] > CAN_TRANSMIT_TIMEOUT
  /\ OversleepNeedsFullMailboxes

(* Every step keeps it: the worker counts a tick only while it waits. *)
LEMMA NextWorked ==
  TxFacts /\ Tx!IInv /\ TypeOK /\ PlacesMatchLists /\ WorkedIsBlocked /\ [Next]_vars
    => WorkedIsBlocked'
  <1> SUFFICES ASSUME TxFacts, Tx!IInv, TypeOK, PlacesMatchLists, WorkedIsBlocked, [Next]_vars
               PROVE  WorkedIsBlocked'
    OBVIOUS
  <1> USE Threads
  <1> DEFINE a == adc_worker
  <1>0. /\ blocked[a] \in Nat /\ blocked[a] <= CAN_TRANSMIT_TIMEOUT + 1 /\ worked \in Nat
        /\ worked <= SYSTIME_VALUES - 1 /\ wait[a] \in Nat /\ PeriodTicks \in Nat
        /\ CAN_TRANSMIT_TIMEOUT \in Nat /\ SYSTIME_VALUES \in Nat \ {0}
    BY Constants DEF TxFacts, TypeOK
  <1>1. CASE EnterLoop
    BY <1>0, <1>1 DEF EnterLoop, TypeOK, PlacesMatchLists, WorkedIsBlocked,
       OversleepNeedsFullMailboxes
  <1>2. CASE MainRound \/ StatsDone \/ RxWaits \/ RxServed \/ RxLogged
    BY <1>2, RoundsEffect, RoundStep, ZenonT(30) DEF WorkedIsBlocked, OversleepNeedsFullMailboxes
  <1>3. CASE MainCalls \/ AdcCalls \/ RxCalls
    <2>1. PICK t \in Thread : Calls(t)
      BY <1>3, CallsEffect
    <2>2. CASE t = a
      <3>1. place'[a] = "calling" /\ worked' = 0 /\ blocked'[a] = 0
        BY <2>1, <2>2, CallStep, ZenonT(30)
      <3>2. worked' <= blocked'[a]
        BY <3>1
      <3>3. place'[a] # "asleep"
        BY <3>1
      <3>4. QED
        BY <3>2, <3>3, ZenonT(30) DEF WorkedIsBlocked, OversleepNeedsFullMailboxes
    <2>3. CASE t # a
      BY <2>1, <2>3, CallStep DEF WorkedIsBlocked, OversleepNeedsFullMailboxes
    <2>4. QED
      BY <2>2, <2>3
  <1>4. CASE Transmit \/ ReturnTimeout
    <2>1. CASE Head(ready) = a
      <3>1. /\ place'[a] = "asleep" /\ wait'[a] = SleepTicks /\ blocked' = blocked
            /\ a \in Runnable
        BY <1>4, <2>1, LeaveStep
      <3>2. worked <= blocked[a] \/ blocked[a] > CAN_TRANSMIT_TIMEOUT
        BY <3>1 DEF PlacesMatchLists, WorkedIsBlocked
      <3>3. SleepTicks \in Nat /\ (worked <= PeriodTicks => SleepTicks <= PeriodTicks)
        BY SleepTicksBound DEF TypeOK
      <3>4. QED
        BY <1>0, <3>1, <3>2, <3>3, SMTT(30) DEF WorkedIsBlocked, OversleepNeedsFullMailboxes
    <2>2. CASE Head(ready) # a
      BY <1>4, <2>2, LeaveStep DEF WorkedIsBlocked, OversleepNeedsFullMailboxes
    <2>3. QED
      BY <2>1, <2>2
  <1>5. CASE Enqueue
    BY <1>5, WaitStep DEF PlacesMatchLists, WorkedIsBlocked, OversleepNeedsFullMailboxes
  <1>6. CASE CanIrq
    BY <1>6, CanIrqEffect, ZenonT(30) DEF CanIrq, loops, WorkedIsBlocked, OversleepNeedsFullMailboxes
  <1>7. ASSUME NEW u \in Thread, TimerWakeup(u) PROVE WorkedIsBlocked'
    BY <1>7, TimerStep DEF WorkedIsBlocked, OversleepNeedsFullMailboxes
  <1>8. CASE TransmissionEnds
    BY <1>8, TransmissionEndsEffect
    DEF TransmissionEnds, loops, WorkedIsBlocked, OversleepNeedsFullMailboxes
  <1>9. CASE BusErrorStatus
    BY <1>9, BusErrorEffect
    DEF BusErrorStatus, loops, WorkedIsBlocked, OversleepNeedsFullMailboxes
  <1>10. CASE Tick
    <2>1. /\ place' = place /\ Runnable = {}
          /\ blocked'[a] = IF a \in Waiting /\ blocked[a] <= CAN_TRANSMIT_TIMEOUT
                           THEN blocked[a] + 1 ELSE blocked[a]
          /\ wait'[a] \in Nat /\ wait'[a] <= wait[a]
          /\ worked' = IF place[a] = "transmit"
                       THEN (worked + 1) % SYSTIME_VALUES ELSE worked
      <3>1. /\ place' = place /\ Runnable = {}
            /\ blocked'[a] = IF a \in Waiting /\ blocked[a] <= CAN_TRANSMIT_TIMEOUT
                             THEN blocked[a] + 1 ELSE blocked[a]
            /\ wait'[a] = IF wait[a] = 0 \/ (a = adc_worker /\ wait[a] = TIME_INFINITE)
                          THEN wait[a] ELSE wait[a] - 1
            /\ worked' = IF place[a] = "transmit"
                         THEN (worked + 1) % SYSTIME_VALUES ELSE worked
        BY <1>0, <1>10, TickStep, ZenonT(30)
      <3>2. wait[a] \in Nat
        BY <1>0, Numbers
      <3>3. wait'[a] \in Nat /\ wait'[a] <= wait[a]
        BY <3>1, <3>2
      <3>4. QED
        BY <3>1, <3>3, ZenonT(30)
    <2>2. place[a] = "transmit" => a \in Waiting
      BY <2>1, ZenonT(30) DEF PlacesMatchLists
    <2>3. (worked + 1) % SYSTIME_VALUES <= worked + 1
      <3>1. CASE worked + 1 < SYSTIME_VALUES
        BY <1>0, <3>1
      <3>2. CASE worked + 1 = SYSTIME_VALUES
        BY <1>0, <3>2
      <3>3. QED
        BY <1>0, <3>1, <3>2
    <2>4. (worked + 1) % SYSTIME_VALUES \in Nat
      BY <1>0
    <2>5. CASE place[a] = "transmit"
      BY <1>0, <2>1, <2>2, <2>3, <2>4, <2>5 DEF WorkedIsBlocked, OversleepNeedsFullMailboxes
    <2>6. CASE place[a] # "transmit"
      BY <1>0, <2>1, <2>6 DEF PlacesMatchLists, WorkedIsBlocked, OversleepNeedsFullMailboxes
    <2>7. QED
      BY <2>5, <2>6
  <1>11. CASE WatchdogReset
    BY <1>11 DEF WatchdogReset, BootPlace, WorkedIsBlocked, OversleepNeedsFullMailboxes
  <1>12. CASE UNCHANGED vars
    BY <1>12 DEF vars, loops, WorkedIsBlocked, OversleepNeedsFullMailboxes
  <1>13. CASE FrameReceived \/ RxReceives
    <2>1. place'[a] = place[a] /\ wait'[a] = wait[a] /\ worked' = worked /\ blocked' = blocked
      BY <1>13, ReceptionStep, ZenonT(30)
    <2>2. QED
      BY <2>1, ZenonT(30) DEF WorkedIsBlocked, OversleepNeedsFullMailboxes
  <1>14. QED
    BY <1>1, <1>2, <1>3, <1>4, <1>5, <1>6, <1>7, <1>8, <1>9, <1>10, <1>11, <1>12, <1>13 DEF Next

-----------------------------------------------------------------------------
(* On a healthy bus: no timeout *)

(* A waiting thread's timer has lost no more than the frame on the bus has *)
(* taken: an interrupt comes before the timer has run out.                 *)
TimersOutlastFrames ==
  healthy => \A t \in Waiting :
    \/ timer[t] + busy >= CAN_TRANSMIT_TIMEOUT
    \/ can.rqcp /\ timer[t] + FrameTicks >= CAN_TRANSMIT_TIMEOUT

(* The state of the bus is chosen once. *)
LEMMA HealthyKept == [Next]_vars => healthy' = healthy
  BY ZenonT(30) DEF Next, EnterLoop, MainRound, StatsDone, MainCalls, AdcCalls, RxCalls, RxWaits,
     RxReceives, RxServed, RxLogged, Transmit, ReturnTimeout, Enqueue, CanIrq, TimerWakeup,
     TransmissionEnds, FrameReceived, BusErrorStatus, Tick, WatchdogReset, vars, bus

(* Every step keeps it, and none times out, if a frame takes less time     *)
(* than the timeout.                                                       *)
LEMMA NextTimers ==
  ASSUME FrameTicks < CAN_TRANSMIT_TIMEOUT
  PROVE  TxFacts /\ Tx!IInv /\ TypeOK /\ TimersOutlastFrames /\ NoFrameDropped /\ [Next]_vars
           => TimersOutlastFrames' /\ NoFrameDropped'
  <1> SUFFICES ASSUME TxFacts, Tx!IInv, TypeOK, TimersOutlastFrames, NoFrameDropped,
                      [Next]_vars, healthy'
               PROVE  /\ \A t \in Waiting' :
                           \/ timer'[t] + busy' >= CAN_TRANSMIT_TIMEOUT
                           \/ can'.rqcp /\ timer'[t] + FrameTicks >= CAN_TRANSMIT_TIMEOUT
                      /\ \A t \in Thread : rdymsg'[t] = "MSG_OK"
    BY ZenonT(30) DEF TimersOutlastFrames, NoFrameDropped
  <1> USE Threads
  <1>0. healthy
    BY HealthyKept, ZenonT(30)
  <1>1. /\ \A t \in Waiting :
             \/ timer[t] + busy >= CAN_TRANSMIT_TIMEOUT
             \/ can.rqcp /\ timer[t] + FrameTicks >= CAN_TRANSMIT_TIMEOUT
        /\ \A t \in Thread : rdymsg[t] = "MSG_OK"
    BY <1>0 DEF TimersOutlastFrames, NoFrameDropped
  <1>2. /\ Waiting \subseteq Thread /\ Runnable \cap Waiting = {}
        /\ \A t \in Thread : timer[t] \in Nat
        /\ \A t \in Waiting : timer[t] <= CAN_TRANSMIT_TIMEOUT
        /\ busy \in Nat /\ busy <= FrameTicks
        /\ CAN_TRANSMIT_TIMEOUT \in Nat /\ FrameTicks \in Nat
    <2>1. /\ Waiting \subseteq Thread /\ Runnable \cap Waiting = {}
          /\ \A t \in Waiting : timer[t] <= CAN_TRANSMIT_TIMEOUT
      BY DEF TxFacts
    <2>2. QED
      BY <2>1, Numbers, Constants
  <1>3. CASE EnterLoop \/ UNCHANGED vars
    <2>1. Waiting' = Waiting /\ UNCHANGED <<can, timer, busy, rdymsg>>
      BY <1>3, QuietEffect, ZenonT(30) DEF EnterLoop, vars, bus
    <2>2. QED
      BY <1>1, <2>1
  <1>4. CASE MainRound \/ StatsDone \/ RxWaits \/ RxServed \/ RxLogged
    <2>1. Waiting' = Waiting /\ UNCHANGED <<can, timer, busy, rdymsg>>
      BY <1>4, RoundsEffect, RoundStep, ZenonT(30)
    <2>2. QED
      BY <1>1, <2>1
  <1>5. CASE MainCalls \/ AdcCalls \/ RxCalls
    <2>1. PICK t \in Thread : Calls(t)
      BY <1>5, CallsEffect
    <2>2. /\ Waiting' = Waiting /\ UNCHANGED <<can, timer, busy>> /\ rdymsg'[t] = "MSG_OK"
          /\ \A u \in Thread \ {t} : rdymsg'[u] = rdymsg[u]
      BY <2>1, CallStep, ZenonT(30)
    <2>3. QED
      BY <1>1, <2>2
  <1>6. CASE Transmit
    <2> DEFINE r == Head(ready)
    <2>1. /\ r \notin Waiting /\ Waiting' = Waiting /\ rdymsg' = rdymsg /\ busy' = busy
          /\ \A u \in Thread \ {r} : timer'[u] = timer[u]
      BY <1>6, LeaveStep, ZenonT(30)
    <2>2. can'.rqcp = can.rqcp
      BY <1>6, TransmitEffect DEF Transmit
    <2> HIDE DEF r
    <2>3. QED
      BY <1>1, <1>2, <2>1, <2>2
  <1>7. CASE ReturnTimeout
    <2>1. Head(ready) \in Thread /\ rdymsg[Head(ready)] = "MSG_TIMEOUT"
      BY <1>7, ReturnTimeoutEffect DEF ReturnTimeout
    <2>2. QED
      BY <1>1, <2>1
  <1>8. CASE Enqueue
    <2> DEFINE r == Head(ready)
    <2>1. /\ r \notin Waiting /\ Waiting' = Waiting \cup {r} /\ rdymsg' = rdymsg
          /\ busy' = busy /\ can' = can /\ timer'[r] = CAN_TRANSMIT_TIMEOUT
          /\ \A u \in Thread \ {r} : timer'[u] = timer[u]
      BY <1>8, WaitStep, ZenonT(30)
    <2> HIDE DEF r
    <2>2. QED
      BY <1>1, <1>2, <2>1, SMTT(30)
  <1>9. CASE CanIrq
    BY <1>1, <1>9, CanIrqEffect DEF CanIrq, bus
  <1>10. ASSUME NEW u \in Thread, TimerWakeup(u)
         PROVE  /\ \A t \in Waiting' :
                     \/ timer'[t] + busy' >= CAN_TRANSMIT_TIMEOUT
                     \/ can'.rqcp /\ timer'[t] + FrameTicks >= CAN_TRANSMIT_TIMEOUT
                /\ \A t \in Thread : rdymsg'[t] = "MSG_OK"
    <2>1. timer[u] = 0
      BY <1>10, TimerStep, ZenonT(30)
    <2>2. u \notin Waiting
      BY <1>1, <1>2, <2>1
    <2>3. QED
      BY <1>1, <1>2, <1>10, <2>2, TimerStep, ZenonT(30)
  <1>11. CASE TransmissionEnds
    <2>1. Waiting' = Waiting /\ rdymsg' = rdymsg /\ timer' = timer /\ can'.rqcp
      BY <1>11, TransmissionEndsEffect DEF TransmissionEnds
    <2>2. \A t \in Waiting : timer[t] + FrameTicks >= CAN_TRANSMIT_TIMEOUT
      BY <1>1, <1>2
    <2>3. QED
      BY <1>1, <2>1, <2>2
  <1>12. CASE BusErrorStatus
    BY <1>0, <1>12 DEF BusErrorStatus
  <1>13. CASE Tick
    <2>1. /\ Waiting' = Waiting /\ rdymsg' = rdymsg /\ ~can.rqcp
          /\ Waiting # {} => Free < CAN_TX_MAILBOXES
      BY <1>13, TickStep, Constants
    <2>2. ASSUME NEW t \in Waiting PROVE timer'[t] + busy' >= CAN_TRANSMIT_TIMEOUT
      <3>1. timer[t] + busy >= CAN_TRANSMIT_TIMEOUT /\ t \in Thread
        BY <1>1, <1>2, <2>1
      <3>2. timer'[t] = timer[t] - 1 /\ busy' = busy + 1
        <4>1. Free < CAN_TX_MAILBOXES /\ timer[t] <= CAN_TRANSMIT_TIMEOUT
          BY <2>1, ZenonT(30) DEF TxFacts
        <4>2. busy' = busy + 1
          BY <1>0, <1>13, <4>1, TickStep, ZenonT(30)
        <4>3. timer'[t] = IF timer[t] = CAN_TRANSMIT_TIMEOUT + 1
                          THEN CAN_TRANSMIT_TIMEOUT + 1 ELSE timer[t] - 1
          BY <1>13, <3>1, TickStep, ZenonT(30)
        <4>4. timer[t] \in Nat
          BY <3>1, Numbers
        <4>5. timer'[t] = timer[t] - 1
          BY <4>1, <4>3, <4>4, Constants
        <4>6. QED
          BY <4>2, <4>5
      <3>3. QED
        BY <1>2, <3>1, <3>2
    <2>3. QED
      BY <1>1, <2>1, <2>2
  <1>14. CASE WatchdogReset
    <2>1. Waiting' = {} /\ rdymsg' = [t \in Thread |-> "MSG_OK"]
      BY <1>14 DEF WatchdogReset, Waiting, Range
    <2>2. QED
      BY <2>1
  <1>15. CASE FrameReceived \/ RxReceives
    <2>1. Waiting' = Waiting /\ UNCHANGED <<timer, busy, rdymsg>> /\ can'.rqcp = can.rqcp
      BY <1>15, ReceptionStep, ZenonT(30)
    <2>2. QED
      BY <1>1, <2>1
  <1>16. QED
    BY <1>3, <1>4, <1>5, <1>6, <1>7, <1>8, <1>9, <1>10, <1>11, <1>12, <1>13, <1>14, <1>15,
       ZenonT(30) DEF Next

-----------------------------------------------------------------------------
(* On a healthy bus: no thread waits long *)

(* What the bus and the sleeps of the threads have to be for a thread that *)
(* waits to be overtaken at most once by each of the others.               *)
Unhurried ==
  /\ 3 * FrameTicks <= CAN_TRANSMIT_TIMEOUT
  /\ 3 * FrameTicks < CheckTicks
  /\ 3 * FrameTicks < EventTicks
  /\ 6 * FrameTicks < PeriodTicks

(* Thread u does not call canTransmit before the wait of t is over. *)
Rests(u, t) ==
  \/ place[u] = "log"
  \/ place[u] = "asleep" /\ wait[u] + blocked[t] > 3 * FrameTicks

(* The weight, w each, of the threads that may still overtake t. *)
Rival(u, t, w) == IF u = t \/ Rests(u, t) THEN 0 ELSE w

Rivals(t, w) == Rival(main, t, w) + Rival(can_rx, t, w) + Rival(adc_worker, t, w)

(* Thread t, which waits, has a frame's time for each rival and what the   *)
(* frame on the bus has taken; once a mailbox is free, that frame's time   *)
(* is used up, and only a rival can take the mailbox.                      *)
Turn(t) ==
  \/ blocked[t] + Rivals(t, FrameTicks) <= 2 * FrameTicks + busy
  \/ Free > 0 /\ blocked[t] + Rivals(t, FrameTicks) <= 3 * FrameTicks

WaitsInTurn == healthy => \A t \in Thread : place[t] = "transmit" => Turn(t)

(* A thread has at most two rivals. *)
LEMMA TwoRivals ==
  ASSUME NEW t \in Thread, NEW w \in Nat
  PROVE  Rivals(t, w) \in Nat /\ Rivals(t, w) <= 2 * w
  <1>1. \A u \in Thread : Rival(u, t, w) \in {0, w}
    BY DEF Rival
  <1>2. Rival(main, t, w) = 0 \/ Rival(can_rx, t, w) = 0 \/ Rival(adc_worker, t, w) = 0
    BY DEF Rival, Thread
  <1>3. QED
    BY <1>1, <1>2, Threads DEF Rivals

(* No rival is added while the threads that rest go on resting. *)
LEMMA NoNewRival ==
  ASSUME NEW t \in Thread, NEW w \in Nat,
         \A u \in Thread \ {t} : Rests(u, t) => Rests(u, t)'
  PROVE  Rivals(t, w)' \in Nat /\ Rivals(t, w)' <= Rivals(t, w)
  <1>1. \A u \in Thread : /\ Rival(u, t, w) \in {0, w} /\ Rival(u, t, w)' \in {0, w}
                          /\ Rival(u, t, w)' <= Rival(u, t, w)
    BY DEF Rival
  <1>2. QED
    BY <1>1, Threads DEF Rivals

(* A rival that begins to rest is one less. *)
LEMMA OneRivalLess ==
  ASSUME NEW t \in Thread, NEW w \in Nat, NEW r \in Thread \ {t},
         \A u \in Thread \ {t} : Rests(u, t) => Rests(u, t)', ~Rests(r, t), Rests(r, t)'
  PROVE  Rivals(t, w)' \in Nat /\ Rivals(t, w)' <= Rivals(t, w) - w
  <1>1. \A u \in Thread : /\ Rival(u, t, w) \in {0, w} /\ Rival(u, t, w)' \in {0, w}
                          /\ Rival(u, t, w)' <= Rival(u, t, w)
    BY DEF Rival
  <1>2. Rival(r, t, w) = w /\ Rival(r, t, w)' = 0
    BY DEF Rival
  <1>3. r = main \/ r = can_rx \/ r = adc_worker
    BY DEF Thread
  <1>4. QED
    BY <1>1, <1>2, <1>3, Threads DEF Rivals

(* A thread that waits has not waited for longer than three frames. *)
LEMMA ShortWaits ==
  ASSUME TxFacts, TypeOK, PlacesMatchLists, WaitsInTurn, healthy, NEW t \in Thread,
         place[t] \in {"calling", "transmit"}
  PROVE  blocked[t] \in Nat /\ blocked[t] <= 3 * FrameTicks
  <1>1. Rivals(t, FrameTicks) \in Nat
    BY TwoRivals, Constants
  <1>2. blocked[t] \in Nat /\ busy \in Nat /\ busy <= FrameTicks
    BY Numbers
  <1>3. CASE place[t] = "calling"
    BY <1>3, Constants DEF PlacesMatchLists
  <1>4. CASE place[t] = "transmit"
    <2>1. Turn(t)
      BY <1>4 DEF WaitsInTurn
    <2>2. QED
      BY <1>1, <1>2, <2>1, Constants DEF Turn
  <1>5. QED
    BY <1>3, <1>4

(* The worker sleeps for longer than three frames. *)
LEMMA WorkerRests ==
  ASSUME TxFacts, TypeOK, PlacesMatchLists, WorkedIsBlocked, WaitsInTurn, healthy, Unhurried,
         place[adc_worker] \in {"calling", "transmit"}
  PROVE  SleepTicks \in Nat /\ SleepTicks > 3 * FrameTicks /\ SleepTicks <= PeriodTicks
  <1>1. blocked[adc_worker] \in Nat /\ blocked[adc_worker] <= 3 * FrameTicks
    BY ShortWaits, Threads
  <1>2. worked \in Nat /\ worked <= 3 * FrameTicks
    BY <1>1, Constants DEF WorkedIsBlocked, Unhurried, TypeOK
  <1>3. worked <= PeriodTicks /\ PeriodTicks - worked > 3 * FrameTicks
    BY <1>2, Constants DEF Unhurried
  <1>4. QED
    BY <1>2, <1>3, SleepTicksBound, Constants DEF TypeOK

(* What a step may do to a thread that rests, while t waits. *)
RestGoesOn(t) == \A u \in Thread \ {t} : Rests(u, t) => Rests(u, t)'

(* A thread that leaves canTransmit rests, for as long as any other waits. *)
LEMMA LeaverRests ==
  ASSUME TxFacts, Tx!IInv, TypeOK, PlacesMatchLists, WorkedIsBlocked, WaitsInTurn, healthy,
         Unhurried, Transmit \/ ReturnTimeout, NEW r \in Thread, r = Head(ready),
         NEW t \in Thread \ {r}
  PROVE  RestGoesOn(t) /\ ~Rests(r, t) /\ Rests(r, t)'
  <1>1. /\ r \in Runnable /\ r \in Thread /\ blocked' = blocked
        /\ \A u \in Thread \ {r} : place'[u] = place[u] /\ wait'[u] = wait[u]
        /\ place'[r] = IF r = adc_worker THEN "asleep" ELSE "log"
        /\ wait'[r] = IF r = adc_worker THEN SleepTicks ELSE LogTicks
    BY LeaveStep, ZenonT(30)
  <1>2. place[r] \in {"calling", "transmit"}
    BY <1>1 DEF PlacesMatchLists
  <1>3. Rests(r, t)'
    <2>1. CASE r = adc_worker
      <3>1. SleepTicks \in Nat /\ SleepTicks > 3 * FrameTicks /\ blocked[t] \in Nat
        BY <1>2, <2>1, WorkerRests, Numbers
      <3>2. wait'[r] + blocked'[t] > 3 * FrameTicks
        BY <1>1, <2>1, <3>1, Constants
      <3>3. QED
        BY <1>1, <2>1, <3>2 DEF Rests
    <2>2. CASE r # adc_worker
      BY <1>1, <2>2 DEF Rests
    <2>3. QED
      BY <2>1, <2>2
  <1>4. ~Rests(r, t)
    BY <1>2 DEF Rests
  <1>5. \A u \in Thread \ {t, r} : Rests(u, t) => Rests(u, t)'
    BY <1>1 DEF Rests
  <1>6. QED
    BY <1>3, <1>4, <1>5 DEF RestGoesOn

(* Who rests goes on resting while t waits: the sleeps outlast the wait. *)
LEMMA RestsKept ==
  ASSUME TxFacts, Tx!IInv, TypeOK, PlacesMatchLists, WorkedIsBlocked, WaitsInTurn, healthy,
         Unhurried, [Next]_vars, NEW t \in Thread, place'[t] = "transmit"
  PROVE  RestGoesOn(t)
  <1> USE Threads
  <1>1. CASE EnterLoop
    BY <1>1 DEF EnterLoop, TypeOK, PlacesMatchLists, Thread
  <1>2. CASE MainRound \/ StatsDone \/ RxWaits \/ RxServed \/ RxLogged
    <2>1. PICK u \in Thread : Rounds(u)
      BY <1>2, RoundsEffect
    <2>2. /\ u # adc_worker /\ place'[u] = "asleep"
          /\ wait'[u] = IF u = main THEN CheckTicks ELSE EventTicks
          /\ \A v \in Thread \ {u} :
               place'[v] = place[v] /\ wait'[v] = wait[v] /\ blocked'[v] = blocked[v]
      BY <2>1, RoundStep, ZenonT(30)
    <2>3. blocked[t] \in Nat /\ t # u /\ blocked'[t] = blocked[t]
      BY <2>2, Numbers
    <2>4. wait'[u] + blocked'[t] > 3 * FrameTicks
      BY <2>2, <2>3, Constants DEF Unhurried
    <2>5. QED
      BY <2>2, <2>4 DEF RestGoesOn, Rests
  <1>3. CASE MainCalls \/ AdcCalls \/ RxCalls
    <2>1. PICK u \in Thread : Calls(u)
      BY <1>3, CallsEffect
    <2>2. /\ wait[u] = 0 /\ place'[u] = "calling"
          /\ \A v \in Thread \ {u} :
               place'[v] = place[v] /\ wait'[v] = wait[v] /\ blocked'[v] = blocked[v]
      BY <2>1, CallStep, ZenonT(30)
    <2>3. u # t /\ blocked[t] \in Nat /\ blocked[t] <= 3 * FrameTicks
      BY <2>2, ShortWaits
    <2>4. ~Rests(u, t) \/ place[u] = "log"
      BY <2>2, <2>3, Constants DEF Rests
    <2>5. place[u] # "log"
      BY <2>1 DEF Calls
    <2>6. QED
      BY <2>2, <2>3, <2>4, <2>5 DEF RestGoesOn, Rests
  <1>4. CASE Transmit \/ ReturnTimeout
    <2>1. PICK r \in Thread : r = Head(ready)
      BY <1>4, LeaveStep, ZenonT(30)
    <2>2. t # r
      BY <1>4, <2>1, LeaveStep, ZenonT(30)
    <2>3. QED
      BY <1>4, <2>1, <2>2, LeaverRests
  <1>5. CASE Enqueue
    <2>1. PICK r \in Runnable : r = Head(ready)
      BY <1>5, WaitStep, ZenonT(30)
    <2>2. /\ blocked' = blocked /\ place'[r] = "transmit"
          /\ \A u \in Thread \ {r} : place'[u] = place[u] /\ wait'[u] = wait[u]
      BY <1>5, <2>1, WaitStep, ZenonT(30)
    <2>3. place[r] \in {"calling", "transmit"}
      BY <2>1, ZenonT(30) DEF PlacesMatchLists, TxFacts
    <2>4. QED
      BY <2>2, <2>3 DEF RestGoesOn, Rests
  <1>6. CASE UNCHANGED <<place, wait, blocked>>
    BY <1>6 DEF RestGoesOn, Rests
  <1>7. CASE Tick
    <2>1. place' = place /\ Runnable = {}
      BY <1>7, TickStep, ZenonT(30)
    <2>2. t \in Waiting
      BY <2>1 DEF PlacesMatchLists
    <2>3. blocked[t] \in Nat /\ blocked[t] <= 3 * FrameTicks
      BY <2>1, ShortWaits
    <2>4. blocked'[t] = blocked[t] + 1
      <3>1. blocked'[t] = IF t \in Waiting /\ blocked[t] <= CAN_TRANSMIT_TIMEOUT
                          THEN blocked[t] + 1 ELSE blocked[t]
        BY <1>7, TickStep, ZenonT(30)
      <3>2. blocked[t] <= CAN_TRANSMIT_TIMEOUT
        BY <2>3, Constants DEF Unhurried
      <3>3. QED
        BY <2>2, <3>1, <3>2
    <2>5. ASSUME NEW u \in Thread \ {t}, Rests(u, t) PROVE Rests(u, t)'
      <3>1. /\ wait[u] \in Nat /\ (place[u] = "asleep" => wait[u] > 0)
            /\ wait'[u] = IF wait[u] = 0 \/ (u = adc_worker /\ wait[u] = TIME_INFINITE)
                          THEN wait[u] ELSE wait[u] - 1
        BY <1>7, TickStep, Numbers, ZenonT(30)
      <3>2. CASE place[u] = "log"
        BY <2>1, <3>2 DEF Rests
      <3>3. CASE place[u] = "asleep" /\ wait[u] + blocked[t] > 3 * FrameTicks
        BY <2>1, <2>3, <2>4, <3>1, <3>3, Constants, SMTT(30) DEF Rests
      <3>4. QED
        BY <2>5, <3>2, <3>3 DEF Rests
    <2>6. QED
      BY <2>5 DEF RestGoesOn
  <1>8. CASE WatchdogReset
    BY <1>8 DEF WatchdogReset, BootPlace
  <1>9. CASE CanIrq \/ TransmissionEnds \/ BusErrorStatus \/ \E u \in Thread : TimerWakeup(u)
    <2>1. UNCHANGED <<place, wait, blocked>>
      BY <1>9, ZenonT(30) DEF CanIrq, TransmissionEnds, BusErrorStatus, TimerWakeup, loops,
         Tx!CanIrq, Tx!TransmissionEnds, Tx!BusErrorStatus, Tx!TimerWakeup
    <2>2. QED
      BY <1>6, <2>1
  <1>10. CASE UNCHANGED vars
    BY <1>6, <1>10 DEF vars, loops
  <1>11. CASE FrameReceived \/ RxReceives
    <2>1. /\ blocked' = blocked
          /\ \A u \in Thread : (place'[u] = place[u] /\ wait'[u] = wait[u]) \/ place'[u] = "log"
      BY <1>11, ReceptionStep, ZenonT(30)
    <2>2. QED
      BY <2>1, ZenonT(30) DEF RestGoesOn, Rests
  <1>12. QED
    BY <1>1, <1>2, <1>3, <1>4, <1>5, <1>7, <1>8, <1>9, <1>10, <1>11 DEF Next

(* Every step keeps the turns. *)
LEMMA NextWaits ==
  ASSUME TxFacts, Tx!IInv, TypeOK, PlacesMatchLists, WorkedIsBlocked, WaitsInTurn,
         healthy => Unhurried, [Next]_vars
  PROVE  WaitsInTurn'
  <1> SUFFICES ASSUME healthy', NEW t \in Thread, place'[t] = "transmit"
               PROVE  Turn(t)'
    BY DEF WaitsInTurn
  <1> USE Threads
  <1>1. healthy /\ Unhurried
    BY HealthyKept, ZenonT(30)
  <1>2. place[t] = "transmit" => Turn(t)
    BY <1>1 DEF WaitsInTurn
  <1>3. /\ blocked[t] \in Nat /\ busy \in Nat /\ busy <= FrameTicks /\ FrameTicks \in Nat
        /\ Free \in Nat /\ Free <= CAN_TX_MAILBOXES /\ CAN_TX_MAILBOXES \in Nat \ {0}
    BY Numbers, Constants
  <1>4. RestGoesOn(t)
    BY <1>1, RestsKept
  <1>5. /\ Rivals(t, FrameTicks) \in Nat /\ Rivals(t, FrameTicks) <= 2 * FrameTicks
        /\ Rivals(t, FrameTicks)' \in Nat
        /\ Rivals(t, FrameTicks)' <= Rivals(t, FrameTicks)
    BY <1>3, <1>4, TwoRivals, NoNewRival, ZenonT(30) DEF RestGoesOn
  <1>6. ASSUME place[t] = "transmit", blocked'[t] = blocked[t], busy' = busy, Free' = Free
        PROVE  Turn(t)'
    BY <1>2, <1>3, <1>5, <1>6, SMTT(30) DEF Turn
  <1>7. CASE EnterLoop
    BY <1>7, ZenonT(30) DEF EnterLoop, TypeOK, PlacesMatchLists, Thread
  <1>8. CASE MainRound \/ StatsDone \/ RxWaits \/ RxServed \/ RxLogged
    <2>1. PICK u \in Thread : Rounds(u)
      BY <1>8, RoundsEffect
    <2>2. QED
      BY <1>6, <2>1, RoundStep, ZenonT(30)
  <1>9. CASE MainCalls \/ AdcCalls \/ RxCalls
    <2>1. PICK u \in Thread : Calls(u)
      BY <1>9, CallsEffect
    <2>2. QED
      BY <1>6, <2>1, CallStep, ZenonT(30)
  <1>10. CASE Transmit \/ ReturnTimeout
    <2>1. PICK r \in Thread : r = Head(ready)
      BY <1>10, LeaveStep, ZenonT(30)
    <2>2. /\ blocked' = blocked /\ busy' = busy /\ place'[r] # "transmit"
          /\ \A u \in Thread \ {r} : place'[u] = place[u]
      BY <1>10, <2>1, LeaveStep, ZenonT(30)
    <2>3. t # r /\ Turn(t)
      BY <1>2, <2>2, ZenonT(30)
    <2>4. ~Rests(r, t) /\ Rests(r, t)'
      BY <1>1, <1>10, <2>1, <2>3, LeaverRests
    <2>5. Rivals(t, FrameTicks)' <= Rivals(t, FrameTicks) - FrameTicks
      BY <1>3, <1>4, <2>3, <2>4, OneRivalLess, ZenonT(30) DEF RestGoesOn
    <2>6. blocked[t] + Rivals(t, FrameTicks) <= 3 * FrameTicks
      <3>1. CASE blocked[t] + Rivals(t, FrameTicks) <= 2 * FrameTicks + busy
        BY <1>3, <1>5, <3>1
      <3>2. QED
        BY <2>3, <3>1, ZenonT(30) DEF Turn
    <2>7. QED
      <3>1. blocked'[t] + Rivals(t, FrameTicks)' <= 2 * FrameTicks + busy'
        <4> DEFINE old == Rivals(t, FrameTicks)
                   new == Rivals(t, FrameTicks)'
        <4>1. /\ old \in Nat /\ new \in Nat /\ new <= old - FrameTicks
              /\ blocked[t] + old <= 3 * FrameTicks
          BY <1>5, <2>5, <2>6, ZenonT(30)
        <4> HIDE DEF old, new
        <4>2. blocked[t] + new <= 2 * FrameTicks + busy
          BY <1>3, <4>1
        <4>3. blocked'[t] = blocked[t] /\ busy' = busy
          BY <2>2, ZenonT(30)
        <4>4. QED
          BY <4>2, <4>3, ZenonT(30) DEF new
      <3>2. QED
        BY <3>1, ZenonT(30) DEF Turn
  <1>11. CASE Enqueue
    <2>1. PICK r \in Runnable : r = Head(ready)
      BY <1>11, WaitStep, ZenonT(30)
    <2>2. /\ Free' = Free /\ blocked' = blocked /\ busy' = busy
          /\ \A u \in Thread \ {r} : place'[u] = place[u]
      BY <1>11, <2>1, WaitStep, ZenonT(30)
    <2>3. CASE place[t] # "transmit"
      <3>1. t = r /\ t \in Runnable
        BY <2>1, <2>2, <2>3
      <3>2. blocked[t] = 0
        BY <2>3, <3>1, ZenonT(30) DEF PlacesMatchLists
      <3>3. QED
        BY <1>3, <1>5, <2>2, <3>2 DEF Turn
    <2>4. QED
      BY <1>6, <2>2, <2>3, ZenonT(30)
  <1>12. CASE CanIrq
    <2>1. /\ Free' = Free /\ blocked' = blocked /\ busy' = busy /\ place' = place
      BY <1>12, CanIrqEffect, ZenonT(30) DEF CanIrq, loops, bus
    <2>2. QED
      BY <1>6, <2>1, ZenonT(30)
  <1>13. ASSUME NEW u \in Thread, TimerWakeup(u) PROVE Turn(t)'
    BY <1>6, <1>13, TimerStep, ZenonT(30)
  <1>14. CASE TransmissionEnds
    <2>1. Free' = Free + 1 /\ UNCHANGED <<place, blocked>> /\ busy' = 0
      BY <1>14, TransmissionEndsEffect DEF TransmissionEnds, loops
    <2>2. QED
      BY <1>2, <1>3, <1>5, <2>1, SMTT(30) DEF Turn
  <1>15. CASE BusErrorStatus
    BY <1>1, <1>15 DEF BusErrorStatus
  <1>16. CASE Tick
    <2>1. place' = place /\ Runnable = {} /\ (Waiting # {} => Free = 0)
      BY <1>16, TickStep, ZenonT(30)
    <2>2. place[t] = "transmit" /\ Free = 0
      BY <2>1, ZenonT(30) DEF PlacesMatchLists
    <2>3. /\ blocked'[t] = blocked[t] \/ blocked'[t] = blocked[t] + 1
          /\ busy' = busy + 1
      <3>1. blocked'[t] = blocked[t] \/ blocked'[t] = blocked[t] + 1
        BY <1>16, TickStep, ZenonT(30)
      <3>2. Free < CAN_TX_MAILBOXES
        BY <1>3, <2>2
      <3>3. QED
        BY <1>1, <1>16, <3>1, <3>2, TickStep, ZenonT(30)
    <2>4. blocked[t] + Rivals(t, FrameTicks) <= 2 * FrameTicks + busy
      BY <1>2, <2>2, SMTT(30) DEF Turn
    <2>5. QED
      BY <1>3, <1>5, <2>3, <2>4, SMTT(30) DEF Turn
  <1>17. CASE WatchdogReset
    BY <1>17 DEF WatchdogReset, BootPlace
  <1>18. CASE UNCHANGED vars
    BY <1>6, <1>18, QuietEffect, ZenonT(30) DEF vars, loops, bus
  <1>19. CASE FrameReceived \/ RxReceives
    <2>1. blocked' = blocked /\ busy' = busy /\ Free' = Free /\ place[t] = "transmit"
      BY <1>19, ReceptionStep, ZenonT(30)
    <2>2. QED
      BY <1>6, <2>1, ZenonT(30)
  <1>20. QED
    BY <1>7, <1>8, <1>9, <1>10, <1>11, <1>12, <1>13, <1>14, <1>15, <1>16, <1>17, <1>18, <1>19
    DEF Next

(* The wake-ups of t, with a mailbox or without, still to come. *)
Pending(t) ==
  (IF t \in Runnable /\ rdymsg[t] = "MSG_OK" THEN 1 ELSE 0) + (IF Line THEN 1 ELSE 0)

(* What may raise the interrupt on a healthy bus: the requests that ended, *)
(* and the frames received in the ticks of main's wait and since the last. *)
Occasions == Free + FramesPerTick * blocked[main] + arrived

(* On a healthy bus a fruitless wake-up of main costs it a rival or comes  *)
(* from a frame received; on any other the bound on the events of the bus  *)
(* applies.                                                                *)
WakeupsBounded ==
  place[main] = "transmit" =>
    IF healthy
    THEN woken + Rivals(main, 1) + Pending(main) <= 3 + Occasions
    ELSE woken + Pending(main) <= MaxWakeups + 1

(* The occasions are counted by a number. *)
LEMMA OccasionsNumber ==
  ASSUME TxFacts, TypeOK
  PROVE  /\ Occasions \in Nat /\ arrived \in Nat /\ arrived <= FramesPerTick
         /\ FramesPerTick * blocked[main] \in Nat
  <1> DEFINE b == blocked[main]
             p == FramesPerTick * b
  <1>1. b \in Nat /\ Free \in Nat /\ FramesPerTick \in Nat
    BY Numbers, Threads, Constants
  <1>2. arrived \in Nat /\ arrived <= FramesPerTick
    BY <1>1 DEF TypeOK
  <1> HIDE DEF b
  <1>3. p \in Nat
    BY <1>1
  <1>4. Occasions = Free + p + arrived
    BY DEF Occasions, b
  <1> HIDE DEF p
  <1>5. Occasions \in Nat
    BY <1>1, <1>2, <1>3, <1>4
  <1>6. QED
    BY <1>2, <1>3, <1>5 DEF b, p

(* A mailbox more or less, or a frame more, is an occasion more or less. *)
LEMMA OccasionsChange ==
  ASSUME TxFacts, TypeOK, NEW d \in Int, NEW e \in Int, blocked'[main] = blocked[main],
         Free' = Free + d, arrived' = arrived + e
  PROVE  Occasions' = Occasions + d + e
  <1> DEFINE p == FramesPerTick * blocked[main]
  <1>1. Free \in Nat /\ arrived \in Nat /\ p \in Nat
    BY OccasionsNumber, Numbers, Threads, ZenonT(30)
  <1>2. Occasions = Free + p + arrived /\ Occasions' = Free' + p + arrived'
    BY ZenonT(30) DEF Occasions
  <1> HIDE DEF p
  <1>3. QED
    BY <1>1, <1>2

(* A tick of main's wait counts for all the frames it can bring. *)
LEMMA OccasionsTick ==
  ASSUME TxFacts, TypeOK, blocked'[main] = blocked[main] + 1, Free' = Free, arrived' = 0
  PROVE  Occasions' \in Nat /\ Occasions' >= Occasions
  <1> DEFINE b == blocked[main]
             p == FramesPerTick * b
             q == FramesPerTick * (b + 1)
  <1>1. /\ b \in Nat /\ Free \in Nat /\ FramesPerTick \in Nat /\ p \in Nat
        /\ arrived \in Nat /\ arrived <= FramesPerTick
    BY OccasionsNumber, Numbers, Threads, Constants
  <1>2. Occasions = Free + p + arrived /\ Occasions' = Free + q + 0
    BY ZenonT(30) DEF Occasions
  <1> HIDE DEF b
  <1>3. q = p + FramesPerTick
    BY <1>1
  <1> HIDE DEF p, q
  <1>4. QED
    BY <1>1, <1>2, <1>3

(* Every step keeps the bound. *)
LEMMA NextWakeups ==
  ASSUME TxFacts, Tx!IInv, TypeOK, PlacesMatchLists, WorkedIsBlocked, WaitsInTurn,
         WakeupsBounded, healthy => Unhurried, [Next]_vars
  PROVE  WakeupsBounded'
  <1> SUFFICES ASSUME place'[main] = "transmit"
               PROVE  IF healthy'
                      THEN woken' + Rivals(main, 1)' + Pending(main)' <= 3 + Occasions'
                      ELSE woken' + Pending(main)' <= MaxWakeups + 1
    BY DEF WakeupsBounded
  <1> USE Threads
  <1> DEFINE Bound == IF healthy'
                      THEN woken' + Rivals(main, 1)' + Pending(main)' <= 3 + Occasions'
                      ELSE woken' + Pending(main)' <= MaxWakeups + 1
  <1>1. healthy' = healthy
    BY HealthyKept
  <1>2. /\ woken \in Nat /\ Occasions \in Nat /\ MaxWakeups \in Nat /\ MaxWakeups >= 1
        /\ Pending(main) \in Nat /\ Pending(main) <= 2
        /\ Pending(main)' \in Nat /\ Pending(main)' <= 2 /\ woken' \in Nat
    <2>1. woken' \in Nat
      BY NextTypeOK, ZenonT(30) DEF TypeOK
    <2>2. Pending(main) \in Nat /\ Pending(main) <= 2
      BY DEF Pending
    <2>3. Pending(main)' \in Nat /\ Pending(main)' <= 2
      BY DEF Pending
    <2>4. woken \in Nat /\ Occasions \in Nat /\ MaxWakeups \in Nat /\ MaxWakeups >= 1
      <3>1. woken \in Nat
        BY ZenonT(30) DEF TypeOK
      <3>2. Occasions \in Nat
        BY OccasionsNumber, ZenonT(30)
      <3>3. QED
        BY <3>1, <3>2, Constants
    <2>5. QED
      BY <2>1, <2>2, <2>3, <2>4, ZenonT(30)
  <1>3. healthy => RestGoesOn(main)
    BY RestsKept
  <1>4. /\ Rivals(main, 1) \in Nat /\ Rivals(main, 1) <= 2
        /\ healthy => Rivals(main, 1)' \in Nat /\ Rivals(main, 1)' <= Rivals(main, 1)
    BY <1>3, TwoRivals, NoNewRival DEF RestGoesOn
  <1>5. place[main] = "transmit" =>
          IF healthy THEN woken + Rivals(main, 1) + Pending(main) <= 3 + Occasions
                     ELSE woken + Pending(main) <= MaxWakeups + 1
    BY DEF WakeupsBounded
  <1>6. ASSUME place[main] = "transmit", woken' = woken, Free' = Free, arrived' = arrived,
               blocked'[main] = blocked[main], Pending(main)' <= Pending(main)
        PROVE  Bound
    <2>0. Occasions' = Occasions
      BY <1>6, ZenonT(30) DEF Occasions
    <2>1. CASE healthy
      BY <1>1, <1>2, <1>4, <1>5, <1>6, <2>0, <2>1
    <2>2. CASE ~healthy
      BY <1>1, <1>2, <1>5, <1>6, <2>2
    <2>3. QED
      BY <2>1, <2>2
  <1>7. ASSUME Line' => Line, rdymsg'[main] = rdymsg[main],
               main \in Runnable' => main \in Runnable
        PROVE  Pending(main)' <= Pending(main)
    BY <1>7 DEF Pending
  <1> HIDE DEF Bound
  <1>8. CASE EnterLoop
    BY <1>8 DEF EnterLoop, TypeOK
  <1>9. CASE MainRound \/ StatsDone \/ RxWaits \/ RxServed \/ RxLogged
    <2>1. PICK u \in Thread : Rounds(u)
      BY <1>9, RoundsEffect
    <2>2. u # main
      <3>1. place'[u] = "asleep"
        BY <2>1, RoundStep, ZenonT(30)
      <3>2. QED
        BY <3>1
    <2>3. /\ place[main] = "transmit" /\ UNCHANGED <<woken, arrived, rdymsg>>
          /\ blocked'[main] = blocked[main]
          /\ Free' = Free /\ Line' = Line /\ Runnable' = Runnable
      BY <2>1, <2>2, RoundStep, ZenonT(30)
    <2>4. QED
      BY <1>6, <1>7, <2>3, ZenonT(30) DEF Bound
  <1>10. CASE MainCalls \/ AdcCalls \/ RxCalls
    <2>1. PICK u \in Thread : Calls(u)
      BY <1>10, CallsEffect
    <2>2. /\ u # main /\ place[main] = "transmit" /\ woken' = woken /\ Free' = Free
          /\ arrived' = arrived /\ blocked'[main] = blocked[main] /\ Line' = Line
          /\ rdymsg'[main] = rdymsg[main] /\ Runnable' = Runnable \cup {u}
      BY <2>1, CallStep, ZenonT(30)
    <2>3. Pending(main)' <= Pending(main)
      BY <1>7, <2>2
    <2>4. QED
      BY <1>6, <2>2, <2>3 DEF Bound
  <1>11. CASE Transmit \/ ReturnTimeout
    <2>1. PICK r \in Thread : r = Head(ready)
      BY <1>11, LeaveStep
    <2>2. /\ r # main /\ place[main] = "transmit" /\ woken' = woken /\ Line' = Line
          /\ UNCHANGED <<rdymsg, blocked, arrived>> /\ Runnable' = Runnable \ {r}
      BY <1>11, <2>1, LeaveStep
    <2>3. Pending(main)' <= Pending(main)
      BY <1>7, <2>2
    <2>4. healthy => Rivals(main, 1)' <= Rivals(main, 1) - 1
      BY <1>3, <1>11, <2>1, <2>2, LeaverRests, OneRivalLess, ZenonT(30) DEF RestGoesOn
    <2>5. Free' = Free \/ Free' = Free - 1
      BY <1>11, TransmitEffect, ReturnTimeoutEffect DEF Transmit, ReturnTimeout
    <2>6. Occasions' >= Occasions - 1 /\ Occasions' \in Int
      <3>1. Free \in Nat /\ arrived \in Nat
        BY Numbers, OccasionsNumber
      <3>2. PICK d \in {0, -1} : Free' = Free + d
        BY <2>5, <3>1
      <3>3. blocked'[main] = blocked[main] /\ arrived' = arrived + 0
        BY <2>2, <3>1
      <3>4. Occasions' = Occasions + d + 0
        BY <3>2, <3>3, OccasionsChange
      <3>5. QED
        BY <1>2, <3>4
    <2>7. CASE healthy
      <3>1. /\ woken + Rivals(main, 1) + Pending(main) <= 3 + Occasions
            /\ Rivals(main, 1)' \in Nat /\ Rivals(main, 1)' <= Rivals(main, 1) - 1
        BY <1>4, <1>5, <2>2, <2>4, <2>7
      <3>2. woken' + Rivals(main, 1)' + Pending(main)' <= 3 + Occasions'
        BY <1>2, <1>4, <2>2, <2>3, <2>6, <3>1
      <3>3. QED
        BY <1>1, <2>7, <3>2
    <2>8. CASE ~healthy
      <3>1. woken + Pending(main) <= MaxWakeups + 1
        BY <1>5, <2>2, <2>8
      <3>2. woken' + Pending(main)' <= MaxWakeups + 1
        BY <1>2, <2>2, <2>3, <3>1
      <3>3. QED
        BY <1>1, <2>8, <3>2
    <2>9. QED
      BY <2>7, <2>8
  <1>12. CASE Enqueue
    <2>1. PICK r \in Runnable : r = Head(ready)
      BY <1>12, WaitStep, ZenonT(30)
    <2>2. /\ Free' = Free /\ Line' = Line /\ rdymsg' = rdymsg /\ rdymsg[r] = "MSG_OK"
          /\ Runnable' = Runnable \ {r} /\ UNCHANGED <<blocked, arrived>>
          /\ \A u \in Thread \ {r} : place'[u] = place[u]
          /\ woken' = IF r # main THEN woken
                      ELSE IF place[main] = "calling" THEN 0 ELSE woken + 1
      BY <1>12, <2>1, WaitStep, ZenonT(30)
    <2>3. CASE r # main
      BY <1>6, <1>7, <2>2, <2>3, ZenonT(30) DEF Bound
    <2>4. CASE r = main
      <3>1. Pending(main)' + 1 <= Pending(main)
        <4>1. /\ main \in Runnable /\ rdymsg[main] = "MSG_OK" /\ main \notin Runnable'
              /\ Line' = Line
          BY <2>1, <2>2, <2>4, ZenonT(30)
        <4>2. /\ Pending(main)' = IF Line THEN 1 ELSE 0
              /\ Pending(main) = 1 + IF Line THEN 1 ELSE 0
          BY <4>1 DEF Pending
        <4>3. QED
          BY <4>2
      <3>2. place[main] \in {"calling", "transmit"}
        BY <2>1, <2>4 DEF PlacesMatchLists
      <3>3. Pending(main)' <= 1 /\ Occasions' = Occasions
        <4>1. Occasions' = Occasions
          BY <2>2, ZenonT(30) DEF Occasions
        <4>2. QED
          BY <1>2, <3>1, <4>1
      <3>4. CASE place[main] = "calling"
        <4>1. woken' = 0
          BY <2>2, <2>4, <3>4
        <4>2. healthy => Rivals(main, 1)' \in Nat /\ Rivals(main, 1)' <= 2
          BY <1>4
        <4>3. QED
          BY <1>1, <1>2, <3>3, <4>1, <4>2, SMTT(30)
      <3>5. CASE place[main] = "transmit"
        <4>1. woken' = woken + 1
          BY <2>2, <2>4, <3>5
        <4>2. CASE healthy
          <5>1. /\ woken + Rivals(main, 1) + Pending(main) <= 3 + Occasions
                /\ Rivals(main, 1)' \in Nat /\ Rivals(main, 1)' <= Rivals(main, 1)
            BY <1>4, <1>5, <3>5, <4>2
          <5>2. woken' + Rivals(main, 1)' + Pending(main)' <= 3 + Occasions'
            BY <1>2, <1>4, <3>1, <3>3, <4>1, <5>1
          <5>3. QED
            BY <1>1, <4>2, <5>2
        <4>3. CASE ~healthy
          <5>1. woken + Pending(main) <= MaxWakeups + 1
            BY <1>5, <3>5, <4>3
          <5>2. woken' + Pending(main)' <= MaxWakeups + 1
            BY <1>2, <3>1, <4>1, <5>1
          <5>3. QED
            BY <1>1, <4>3, <5>2
        <4>4. QED
          BY <4>2, <4>3
      <3>6. QED
        BY <3>2, <3>4, <3>5, ZenonT(30)
    <2>5. QED
      BY <2>3, <2>4
  <1>13. CASE CanIrq
    <2>1. /\ Line /\ ~Line' /\ Free' = Free /\ UNCHANGED <<place, woken, arrived, blocked>>
          /\ Runnable' = Runnable \cup Waiting
          /\ main \notin Waiting => rdymsg'[main] = rdymsg[main]
      BY <1>13, CanIrqEffect DEF CanIrq, loops, bus
    <2>2. Pending(main)' <= Pending(main)
      BY <2>1, SMTT(30) DEF Pending
    <2>3. QED
      BY <1>6, <2>1, <2>2 DEF Bound
  <1>14. ASSUME NEW u \in Thread, TimerWakeup(u) PROVE Bound
    <2>1. /\ Line' = Line /\ Free' = Free /\ UNCHANGED <<place, woken, arrived, blocked>>
          /\ Runnable' = IF u \in Waiting THEN Runnable \cup {u} ELSE Runnable
          /\ rdymsg'[u] = IF u \in Waiting THEN "MSG_TIMEOUT" ELSE rdymsg[u]
          /\ \A t \in Thread \ {u} : rdymsg'[t] = rdymsg[t]
      BY <1>14, TimerStep, ZenonT(30)
    <2>2. Pending(main)' <= Pending(main)
      BY <2>1 DEF Pending
    <2>3. QED
      BY <1>6, <2>1, <2>2
  <1>15. CASE TransmissionEnds
    <2>1. /\ Free' = Free + 1 /\ Runnable' = Runnable /\ rdymsg' = rdymsg
          /\ UNCHANGED <<place, woken, arrived, blocked>> /\ (healthy \/ woken < MaxWakeups)
      BY <1>15, TransmissionEndsEffect DEF TransmissionEnds, loops
    <2>2. Pending(main)' <= Pending(main) + 1
      BY <2>1 DEF Pending
    <2>3. woken' <= woken /\ Occasions' = Occasions + 1
      <3>1. arrived \in Nat
        BY OccasionsNumber
      <3>2. blocked'[main] = blocked[main] /\ arrived' = arrived + 0
        BY <2>1, <3>1
      <3>3. Occasions' = Occasions + 1 + 0
        BY <2>1, <3>2, OccasionsChange
      <3>4. QED
        BY <1>2, <2>1, <3>3
    <2>4. QED
      BY <1>1, <1>2, <1>4, <1>5, <2>1, <2>2, <2>3
  <1>16. CASE BusErrorStatus
    <2>1. woken' < MaxWakeups /\ ~healthy
      BY <1>16 DEF BusErrorStatus, loops
    <2>2. QED
      BY <1>1, <1>2, <2>1
  <1>17. CASE Tick
    <2>1. /\ UNCHANGED <<place, woken, rdymsg>> /\ Free' = Free /\ Line' = Line
          /\ arrived' = 0 /\ Runnable' = Runnable /\ Runnable = {}
      BY <1>17, TickStep, ZenonT(30)
    <2>2. Pending(main)' <= Pending(main)
      BY <1>7, <2>1
    <2>3. CASE healthy
      <3>1. blocked[main] \in Nat /\ blocked[main] <= CAN_TRANSMIT_TIMEOUT /\ Unhurried
        BY <2>1, <2>3, ShortWaits, Constants DEF Unhurried
      <3>2. main \in Waiting
        BY <2>1, ZenonT(30) DEF PlacesMatchLists
      <3>3. blocked'[main] = blocked[main] + 1
        BY <1>17, <3>1, <3>2, TickStep, ZenonT(30)
      <3>4. Occasions' \in Nat /\ Occasions' >= Occasions
        BY <2>1, <3>3, OccasionsTick
      <3>5. /\ woken + Rivals(main, 1) + Pending(main) <= 3 + Occasions
            /\ Rivals(main, 1)' \in Nat /\ Rivals(main, 1)' <= Rivals(main, 1)
        BY <1>4, <1>5, <2>1, <2>3
      <3>6. woken' + Rivals(main, 1)' + Pending(main)' <= 3 + Occasions'
        BY <1>2, <1>4, <2>1, <2>2, <3>4, <3>5
      <3>7. QED
        BY <1>1, <2>3, <3>6 DEF Bound
    <2>4. CASE ~healthy
      <3>1. woken + Pending(main) <= MaxWakeups + 1
        BY <1>5, <2>1, <2>4
      <3>2. woken' + Pending(main)' <= MaxWakeups + 1
        BY <1>2, <2>1, <2>2, <3>1
      <3>3. QED
        BY <1>1, <2>4, <3>2 DEF Bound
    <2>5. QED
      BY <2>3, <2>4
  <1>18. CASE WatchdogReset
    BY <1>18 DEF WatchdogReset, BootPlace
  <1>19. CASE UNCHANGED vars
    BY <1>6, <1>7, <1>19, QuietEffect, ZenonT(30) DEF vars, loops, bus, Bound
  <1>20. CASE FrameReceived \/ RxReceives
    <2>1. /\ Free' = Free /\ Runnable' = Runnable /\ UNCHANGED <<rdymsg, blocked, woken>>
          /\ place[main] = "transmit"
          /\ \/ arrived' = arrived /\ (Line' => Line)
             \/ arrived' = arrived + 1 /\ (healthy \/ woken < MaxWakeups)
      BY <1>20, ReceptionStep, ZenonT(30)
    <2>2. CASE arrived' = arrived /\ (Line' => Line)
      BY <1>6, <1>7, <2>1, <2>2, ZenonT(30) DEF Bound
    <2>3. CASE arrived' = arrived + 1 /\ (healthy \/ woken < MaxWakeups)
      <3>1. Pending(main)' <= Pending(main) + 1
        BY <2>1 DEF Pending
      <3>2. Occasions' = Occasions + 1
        <4>1. Free' = Free + 0 /\ blocked'[main] = blocked[main]
          BY <2>1, Numbers
        <4>2. Occasions' = Occasions + 0 + 1
          BY <2>3, <4>1, OccasionsChange
        <4>3. QED
          BY <1>2, <4>2
      <3>3. woken' = woken
        BY <2>1
      <3>4. QED
        BY <1>1, <1>2, <1>4, <1>5, <2>1, <2>3, <3>1, <3>2, <3>3 DEF Bound
    <2>4. QED
      BY <2>1, <2>2, <2>3, ZenonT(30)
  <1>21. QED
    BY <1>8, <1>9, <1>10, <1>11, <1>12, <1>13, <1>14, <1>15, <1>16, <1>17, <1>18, <1>19, <1>20,
       ZenonT(30) DEF Next, Bound

(* Every step keeps the worker's sleep within its period. *)
LEMMA NextSleeps ==
  ASSUME TxFacts, Tx!IInv, TypeOK, PlacesMatchLists, WorkedIsBlocked, WaitsInTurn,
         NeverOversleeps, healthy => Unhurried, [Next]_vars
  PROVE  NeverOversleeps'
  <1> DEFINE a == adc_worker
  <1> SUFFICES ASSUME healthy', place'[a] = "asleep"
               PROVE  wait'[a] <= PeriodTicks
    BY DEF NeverOversleeps
  <1> USE Threads
  <1>1. healthy /\ Unhurried
    BY HealthyKept, ZenonT(30)
  <1>2. wait[a] \in Nat /\ PeriodTicks \in Nat /\ CH_CFG_ST_TIMEDELTA \in 0..PeriodTicks
    BY Constants DEF TypeOK
  <1>3. place[a] = "asleep" => wait[a] <= PeriodTicks
    BY <1>1, <1>2 DEF NeverOversleeps
  <1>4. CASE EnterLoop
    <2>1. place[main] = "boot" /\ wait'[a] = wait[a]
      BY <1>4 DEF EnterLoop, TypeOK
    <2>2. wait[a] = 0
      BY <2>1, ZenonT(30) DEF PlacesMatchLists
    <2>3. QED
      BY <1>2, <2>1, <2>2
  <1>5. CASE MainRound \/ StatsDone \/ RxWaits \/ RxServed \/ RxLogged
    BY <1>3, <1>5, RoundsEffect, RoundStep, ZenonT(30)
  <1>6. CASE MainCalls \/ AdcCalls \/ RxCalls
    <2>1. PICK u \in Thread : Calls(u)
      BY <1>6, CallsEffect
    <2>2. QED
      BY <1>3, <2>1, CallStep, ZenonT(30)
  <1>7. CASE Transmit \/ ReturnTimeout
    <2>1. CASE Head(ready) = a
      <3>1. a \in Runnable /\ wait'[a] = SleepTicks
        BY <1>7, <2>1, LeaveStep, ZenonT(30)
      <3>2. place[a] \in {"calling", "transmit"}
        BY <3>1 DEF PlacesMatchLists
      <3>3. QED
        BY <1>1, <3>1, <3>2, WorkerRests
    <2>2. CASE Head(ready) # a
      BY <1>3, <1>7, <2>2, LeaveStep, ZenonT(30)
    <2>3. QED
      BY <2>1, <2>2, ZenonT(30)
  <1>8. CASE Enqueue
    BY <1>3, <1>8, WaitStep, ZenonT(30)
  <1>9. CASE CanIrq \/ TransmissionEnds \/ BusErrorStatus \/ \E u \in Thread : TimerWakeup(u)
    BY <1>3, <1>9, ZenonT(30) DEF CanIrq, TransmissionEnds, BusErrorStatus, TimerWakeup, loops
  <1>10. CASE Tick
    <2>1. /\ place' = place
          /\ wait'[a] = IF wait[a] = 0 \/ (a = adc_worker /\ wait[a] = TIME_INFINITE)
                        THEN wait[a] ELSE wait[a] - 1
      BY <1>10, TickStep, ZenonT(30)
    <2>2. wait[a] <= PeriodTicks
      BY <1>3, <2>1
    <2> DEFINE w == wait[a]
               v == wait'[a]
    <2>3. w \in Nat /\ w <= PeriodTicks /\ (v = w \/ v = w - 1)
      BY <1>2, <2>1, <2>2
    <2> HIDE DEF w, v
    <2>4. v <= PeriodTicks
      BY <1>2, <2>3
    <2>5. QED
      BY <2>4 DEF v
  <1>11. CASE WatchdogReset
    BY <1>11 DEF WatchdogReset, BootPlace
  <1>12. CASE UNCHANGED vars
    BY <1>3, <1>12 DEF vars, loops
  <1>13. CASE FrameReceived \/ RxReceives
    BY <1>3, <1>13, ReceptionStep, ZenonT(30)
  <1>14. QED
    BY <1>4, <1>5, <1>6, <1>7, <1>8, <1>9, <1>10, <1>11, <1>12, <1>13 DEF Next

(* What main needs at most, on a healthy bus, from one feeding of the      *)
(* watchdog to the next.                                                   *)
HealthyRound == BootTicks + CheckTicks + 3 * FrameTicks + LogTicks

(* What the watchdog has counted is accounted for by the place of main. *)
WatchdogAccounted ==
  healthy =>
    LET spent == WatchdogTicks - wdg
    IN /\ place[main] = "boot" => spent + wait[main] <= BootTicks
       /\ place[main] = "asleep" => spent + wait[main] <= BootTicks + CheckTicks
       /\ place[main] = "calling" => spent <= BootTicks + CheckTicks
       /\ place[main] = "transmit" => spent <= BootTicks + CheckTicks + blocked[main]
       /\ place[main] = "log" => spent + wait[main] <= HealthyRound

(* Every step keeps the account. *)
LEMMA NextWatchdog ==
  ASSUME TxFacts, Tx!IInv, TypeOK, PlacesMatchLists, WaitsInTurn,
         WatchdogAccounted, healthy => Unhurried, [Next]_vars
  PROVE  WatchdogAccounted'
  <1> DEFINE m == main
  <1> SUFFICES ASSUME healthy'
               PROVE  /\ place'[m] = "boot" => WatchdogTicks - wdg' + wait'[m] <= BootTicks
                      /\ place'[m] = "asleep" =>
                           WatchdogTicks - wdg' + wait'[m] <= BootTicks + CheckTicks
                      /\ place'[m] = "calling" =>
                           WatchdogTicks - wdg' <= BootTicks + CheckTicks
                      /\ place'[m] = "transmit" =>
                           WatchdogTicks - wdg' <= BootTicks + CheckTicks + blocked'[m]
                      /\ place'[m] = "log" =>
                           WatchdogTicks - wdg' + wait'[m] <= HealthyRound
    BY DEF WatchdogAccounted
  <1> USE Threads
  <1>1. healthy /\ Unhurried
    BY HealthyKept, ZenonT(30)
  <1>2. /\ wait[m] \in Nat /\ blocked[m] \in Nat /\ wdg \in Nat /\ wdg <= WatchdogTicks
        /\ WatchdogTicks \in Nat /\ BootTicks \in Nat /\ CheckTicks \in Nat
        /\ LogTicks \in Nat /\ FrameTicks \in Nat
    BY Numbers, Constants DEF TypeOK
  <1>3. /\ place[m] = "boot" => WatchdogTicks - wdg + wait[m] <= BootTicks
        /\ place[m] = "asleep" => WatchdogTicks - wdg + wait[m] <= BootTicks + CheckTicks
        /\ place[m] = "calling" => WatchdogTicks - wdg <= BootTicks + CheckTicks
        /\ place[m] = "transmit" => WatchdogTicks - wdg <= BootTicks + CheckTicks + blocked[m]
        /\ place[m] = "log" => WatchdogTicks - wdg + wait[m] <= HealthyRound
    BY <1>1, ZenonT(30) DEF WatchdogAccounted
  <1>4. place[m] \in {"calling", "transmit"} => blocked[m] <= 3 * FrameTicks
    BY <1>1, ShortWaits
  <1>5. CASE /\ wdg' = wdg /\ place'[m] = place[m] /\ wait'[m] = wait[m]
             /\ blocked'[m] = blocked[m]
    BY <1>3, <1>5, ZenonT(30)
  <1>6. CASE EnterLoop
    <2>1. place[m] = "boot" /\ place'[m] = "asleep" /\ wait'[m] = CheckTicks /\ wdg' = wdg
      BY <1>6 DEF EnterLoop, TypeOK
    <2>2. WatchdogTicks - wdg + wait[m] <= BootTicks
      BY <1>3, <2>1
    <2>3. WatchdogTicks - wdg + CheckTicks <= BootTicks + CheckTicks
      <3> DEFINE w == wait[m]
      <3>1. w \in Nat /\ WatchdogTicks - wdg + w <= BootTicks
        BY <1>2, <2>2, ZenonT(30)
      <3> HIDE DEF w
      <3>2. QED
        BY <1>2, <3>1
    <2>4. WatchdogTicks - wdg' + wait'[m] <= BootTicks + CheckTicks
      BY <2>1, <2>3, ZenonT(30)
    <2>5. QED
      BY <2>1, <2>4, ZenonT(30)
  <1>7. CASE MainRound \/ StatsDone \/ RxWaits \/ RxServed \/ RxLogged
    <2>1. PICK u \in Thread : Rounds(u)
      BY <1>7, RoundsEffect
    <2>2. CASE u = m
      <3>1. place'[m] = "asleep" /\ wait'[m] = CheckTicks /\ wdg' = WatchdogTicks
        BY <2>1, <2>2, RoundStep, ZenonT(30)
      <3>2. WatchdogTicks - wdg' + wait'[m] <= BootTicks + CheckTicks
        BY <1>2, <3>1
      <3>3. QED
        BY <3>1, <3>2, ZenonT(30)
    <2>3. CASE u # m
      BY <1>5, <2>1, <2>3, RoundStep, ZenonT(30)
    <2>4. QED
      BY <2>2, <2>3, ZenonT(30)
  <1>8. CASE MainCalls \/ AdcCalls \/ RxCalls
    <2>1. PICK u \in Thread : Calls(u)
      BY <1>8, CallsEffect
    <2>2. CASE u = m
      <3>1. /\ place[m] \in {"asleep", "startup"} /\ wait[m] = 0
            /\ place'[m] = "calling" /\ wdg' = wdg
        BY <2>1, <2>2, CallStep, ZenonT(30)
      <3>2. place[m] = "asleep"
        BY <3>1 DEF TypeOK
      <3>3. WatchdogTicks - wdg + wait[m] <= BootTicks + CheckTicks
        BY <1>3, <3>2
      <3>4. WatchdogTicks - wdg' <= BootTicks + CheckTicks
        BY <1>2, <3>1, <3>3
      <3>5. QED
        BY <3>1, <3>4, ZenonT(30)
    <2>3. CASE u # m
      BY <1>5, <2>1, <2>3, CallStep, ZenonT(30)
    <2>4. QED
      BY <2>2, <2>3, ZenonT(30)
  <1>9. CASE Transmit \/ ReturnTimeout
    <2>1. CASE Head(ready) = m
      <3>1. m \in Runnable /\ place'[m] = "log" /\ wait'[m] = LogTicks /\ wdg' = wdg
        BY <1>9, <2>1, LeaveStep, ZenonT(30)
      <3>2. place[m] \in {"calling", "transmit"}
        BY <3>1 DEF PlacesMatchLists
      <3>3. WatchdogTicks - wdg <= BootTicks + CheckTicks + blocked[m]
        <4>1. CASE place[m] = "calling"
          <5>1. WatchdogTicks - wdg <= BootTicks + CheckTicks
            BY <1>3, <4>1
          <5>2. QED
            BY <1>2, <5>1
        <4>2. CASE place[m] = "transmit"
          BY <1>3, <4>2
        <4>3. QED
          BY <3>2, <4>1, <4>2
      <3>4. blocked[m] <= 3 * FrameTicks
        BY <1>4, <3>2
      <3>5. WatchdogTicks - wdg' + wait'[m] <= HealthyRound
        BY <1>2, <3>1, <3>3, <3>4 DEF HealthyRound
      <3>6. QED
        BY <3>1, <3>5
    <2>2. CASE Head(ready) # m
      <3>1. /\ wdg' = wdg /\ place'[m] = place[m] /\ wait'[m] = wait[m]
            /\ blocked'[m] = blocked[m]
        <4>1. PICK r \in Thread : r = Head(ready)
          BY <1>9, LeaveStep, ZenonT(30)
        <4>2. /\ wdg' = wdg /\ blocked' = blocked
              /\ \A u \in Thread \ {r} : place'[u] = place[u] /\ wait'[u] = wait[u]
          BY <1>9, <4>1, LeaveStep, ZenonT(30)
        <4>3. QED
          BY <2>2, <4>1, <4>2, ZenonT(30)
      <3>2. QED
        BY <1>5, <3>1
    <2>3. QED
      BY <2>1, <2>2, ZenonT(30)
  <1>10. CASE Enqueue
    <2>1. CASE Head(ready) = m
      <3>1. /\ m \in Runnable /\ place'[m] = "transmit" /\ wdg' = wdg
            /\ blocked'[m] = blocked[m]
        BY <1>10, <2>1, WaitStep, ZenonT(30)
      <3>2. place[m] \in {"calling", "transmit"}
        BY <3>1, ZenonT(30) DEF PlacesMatchLists
      <3>3. WatchdogTicks - wdg <= BootTicks + CheckTicks + blocked[m]
        <4>1. CASE place[m] = "calling"
          <5>1. WatchdogTicks - wdg <= BootTicks + CheckTicks
            BY <1>3, <4>1
          <5>2. QED
            BY <1>2, <5>1
        <4>2. CASE place[m] = "transmit"
          BY <1>3, <4>2
        <4>3. QED
          BY <3>2, <4>1, <4>2
      <3>4. WatchdogTicks - wdg' <= BootTicks + CheckTicks + blocked'[m]
        BY <3>1, <3>3
      <3>5. QED
        BY <3>1, <3>4, ZenonT(30)
    <2>2. CASE Head(ready) # m
      BY <1>5, <1>10, <2>2, WaitStep, ZenonT(30)
    <2>3. QED
      BY <2>1, <2>2
  <1>11. CASE CanIrq \/ TransmissionEnds \/ BusErrorStatus \/ \E u \in Thread : TimerWakeup(u)
    <2>1. UNCHANGED <<place, wait, wdg, blocked>>
      BY <1>11, ZenonT(30) DEF CanIrq, TransmissionEnds, BusErrorStatus, TimerWakeup, loops,
         Tx!CanIrq, Tx!TransmissionEnds, Tx!BusErrorStatus, Tx!TimerWakeup
    <2>2. QED
      BY <1>5, <2>1, ZenonT(30)
  <1>12. CASE Tick
    <2>1. /\ place' = place /\ wdg' = wdg - 1 /\ Runnable = {}
          /\ place[m] \in {"boot", "asleep", "log"} => wait[m] > 0
          /\ wait'[m] = IF wait[m] = 0 THEN wait[m] ELSE wait[m] - 1
          /\ blocked'[m] = IF m \in Waiting /\ blocked[m] <= CAN_TRANSMIT_TIMEOUT
                           THEN blocked[m] + 1 ELSE blocked[m]
      BY <1>12, TickStep, ZenonT(30)
    <2>2. place[m] # "calling" /\ (place[m] = "transmit" => m \in Waiting)
      BY <2>1, ZenonT(30) DEF PlacesMatchLists
    <2>3. CASE place[m] = "transmit"
      <3>1. blocked[m] <= 3 * FrameTicks /\ 3 * FrameTicks <= CAN_TRANSMIT_TIMEOUT
        BY <1>1, <1>4, <2>3 DEF Unhurried
      <3>2. blocked[m] <= CAN_TRANSMIT_TIMEOUT
        BY <1>2, <3>1, Constants
      <3>3. blocked'[m] = blocked[m] + 1 /\ wdg' = wdg - 1 /\ place'[m] = "transmit"
        BY <2>1, <2>2, <2>3, <3>2
      <3>4. WatchdogTicks - wdg <= BootTicks + CheckTicks + blocked[m]
        BY <1>3, <2>3
      <3>5. WatchdogTicks - wdg' <= BootTicks + CheckTicks + blocked'[m]
        BY <1>2, <3>3, <3>4
      <3>6. QED
        BY <3>3, <3>5
    <2>4. CASE place[m] # "transmit"
      <3>1. place[m] \in {"boot", "asleep", "log"} /\ wait[m] > 0
        BY <2>1, <2>2, <2>4, ZenonT(30) DEF TypeOK
      <3>2. wait'[m] = wait[m] - 1 /\ wdg' = wdg - 1 /\ place'[m] = place[m]
        BY <1>2, <2>1, <3>1
      <3>3. WatchdogTicks - (wdg - 1) + (wait[m] - 1) = WatchdogTicks - wdg + wait[m]
        BY <1>2
      <3>4. WatchdogTicks - wdg' + wait'[m] = WatchdogTicks - wdg + wait[m]
        BY <3>2, <3>3, ZenonT(30)
      <3>5. QED
        BY <1>3, <3>1, <3>2, <3>4, ZenonT(30)
    <2>5. QED
      BY <2>3, <2>4, ZenonT(30)
  <1>13. CASE WatchdogReset
    <2>1. place'[m] = "boot" /\ wait'[m] = BootTicks /\ wdg' = WatchdogTicks
      BY <1>13 DEF WatchdogReset, BootPlace, BootWait
    <2>2. WatchdogTicks - wdg' + wait'[m] <= BootTicks
      BY <1>2, <2>1
    <2>3. QED
      BY <2>1, <2>2
  <1>14. CASE UNCHANGED vars
    BY <1>5, <1>14, ZenonT(30) DEF vars, loops
  <1>15. CASE FrameReceived \/ RxReceives
    BY <1>5, <1>15, ReceptionStep, ZenonT(30)
  <1>16. QED
    BY <1>6, <1>7, <1>8, <1>9, <1>10, <1>11, <1>12, <1>13, <1>14, <1>15, ZenonT(30) DEF Next

-----------------------------------------------------------------------------
(* The invariants together *)

(* What holds on any bus. *)
AnyBus == Tx!IInv /\ TypeOK /\ PlacesMatchLists /\ WorkedIsBlocked

(* What holds if a healthy bus is fast enough. *)
FastBus ==
  /\ healthy => Unhurried
  /\ WaitsInTurn /\ WakeupsBounded /\ NeverOversleeps /\ WatchdogAccounted

(* The board as it comes up: no thread is in canTransmit. *)
LEMMA InitLoops ==
  Init => /\ TypeOK /\ PlacesMatchLists /\ WorkedIsBlocked
          /\ TimersOutlastFrames /\ NoFrameDropped
  <1> SUFFICES ASSUME Init
               PROVE  /\ TypeOK /\ PlacesMatchLists /\ WorkedIsBlocked
                      /\ TimersOutlastFrames /\ NoFrameDropped
    OBVIOUS
  <1> USE Threads
  <1>1. Runnable = {} /\ Waiting = {} /\ rdymsg = [t \in Thread |-> "MSG_OK"]
    BY DEF Init, Tx!Init, Runnable, Waiting, Range
  <1>2. /\ place = BootPlace /\ wait = BootWait /\ stats_check = 0 /\ woken = 0
        /\ wdg = WatchdogTicks /\ worked = 0 /\ arrived = 0 /\ busy = 0
        /\ event \in BOOLEAN /\ healthy \in BOOLEAN
    BY ZenonT(30) DEF Init
  <1>3. TypeOK
    BY <1>2, Constants DEF BootPlace, BootWait, TypeOK
  <1>4. PlacesMatchLists
    BY <1>1, <1>2 DEF BootPlace, BootWait, PlacesMatchLists
  <1>5. WorkedIsBlocked
    BY <1>2, ZenonT(30) DEF BootPlace, WorkedIsBlocked, OversleepNeedsFullMailboxes
  <1>6. TimersOutlastFrames /\ NoFrameDropped
    BY <1>1 DEF TimersOutlastFrames, NoFrameDropped
  <1>7. QED
    BY <1>3, <1>4, <1>5, <1>6

(* Nobody waits, and the watchdog has counted nothing. *)
LEMMA InitFast == Init /\ (healthy => Unhurried) => FastBus
  <1> SUFFICES ASSUME Init, healthy => Unhurried PROVE FastBus
    OBVIOUS
  <1> USE Threads
  <1>1. place = BootPlace /\ wait = BootWait /\ wdg = WatchdogTicks
    BY DEF Init
  <1>2. WaitsInTurn /\ WakeupsBounded /\ NeverOversleeps
    BY <1>1 DEF BootPlace, WaitsInTurn, WakeupsBounded, NeverOversleeps
  <1>3. place[main] = "boot" /\ wait[main] = BootTicks /\ WatchdogTicks - wdg + BootTicks <= BootTicks
    BY <1>1, Constants DEF BootPlace, BootWait
  <1>4. WatchdogAccounted
    BY <1>3 DEF WatchdogAccounted
  <1>5. QED
    BY <1>2, <1>4 DEF FastBus

(* Every step keeps what a fast bus gives. *)
LEMMA NextFast == AnyBus /\ FastBus /\ [Next]_vars => FastBus'
  <1> SUFFICES ASSUME AnyBus, FastBus, [Next]_vars PROVE FastBus'
    OBVIOUS
  <1>1. /\ Tx!IInv /\ TxFacts /\ TypeOK /\ PlacesMatchLists /\ WorkedIsBlocked
        /\ WaitsInTurn /\ WakeupsBounded /\ NeverOversleeps /\ WatchdogAccounted
        /\ healthy => Unhurried
    BY TxInvariantFacts DEF AnyBus, FastBus
  <1>2. healthy' => Unhurried'
    BY <1>1, HealthyKept, ZenonT(30) DEF Unhurried, CheckTicks
  <1>3. QED
    BY <1>1, <1>2, NextWaits, NextWakeups, NextSleeps, NextWatchdog DEF FastBus

(* The watchdog is never let down by a round that short. *)
LEMMA FedInTime ==
  ASSUME TxFacts, TypeOK, PlacesMatchLists, WaitsInTurn, WatchdogAccounted,
         HealthyRound < WatchdogTicks
  PROVE  NoWatchdogReset
  <1> SUFFICES ASSUME healthy PROVE wdg > 0
    BY DEF NoWatchdogReset
  <1>1. /\ wait[main] \in Nat /\ blocked[main] \in Nat /\ wdg \in Nat
        /\ WatchdogTicks \in Nat /\ BootTicks \in Nat /\ CheckTicks \in Nat
        /\ LogTicks \in Nat /\ FrameTicks \in Nat
        /\ place[main] \in {"boot", "asleep", "calling", "transmit", "log"}
    BY Numbers, Constants, Threads, SMTT(30) DEF TypeOK
  <1>2. place[main] = "transmit" => blocked[main] <= 3 * FrameTicks
    BY ShortWaits, Threads
  <1>3. WatchdogTicks - wdg <= HealthyRound
    BY <1>1, <1>2 DEF WatchdogAccounted, HealthyRound
  <1>4. QED
    BY <1>1, <1>3, SMTT(30) DEF HealthyRound

-----------------------------------------------------------------------------
(* Main on the board is a MainLoop *)

(* There are only so many occasions while main waits in turn. *)
LEMMA FewOccasions ==
  ASSUME TxFacts, TypeOK, PlacesMatchLists, WaitsInTurn, healthy, Free = 0,
         place[main] = "transmit"
  PROVE  Occasions \in Nat /\ Occasions <= FramesPerTick * (3 * FrameTicks + 1)
  <1> DEFINE b == blocked[main]
             n == 3 * FrameTicks
             p == FramesPerTick * b
             q == FramesPerTick * n
             r == FramesPerTick * (n + 1)
  <1>1. /\ b \in Nat /\ b <= n /\ n \in Nat /\ FramesPerTick \in Nat /\ p \in Nat
        /\ arrived \in Nat /\ arrived <= FramesPerTick /\ Occasions \in Nat
    BY ShortWaits, OccasionsNumber, Threads, Constants
  <1>2. Occasions = 0 + p + arrived
    BY DEF Occasions
  <1> HIDE DEF b, n
  <1>3. q \in Nat /\ p <= q
    BY <1>1
  <1>4. r = q + FramesPerTick
    BY <1>1
  <1> HIDE DEF p, q, r
  <1>5. Occasions <= r
    BY <1>1, <1>2, <1>3, <1>4
  <1>6. QED
    BY <1>1, <1>5 DEF r, n

(* The constants of MainLoop are as it assumes. *)
LEMMA MainTicks == Main!CheckTicks = CheckTicks
  BY DEF Main!CheckTicks, CheckTicks

(* The board comes up as MainLoop does. *)
LEMMA MainInit == Init => Main!Init
  BY Threads DEF Init, Main!Init, BootPlace, BootWait

(* Every step of the board is a step of MainLoop, or main does not see it. *)
LEMMA MainNext == AnyBus /\ FastBus /\ [Next]_vars => [Main!Next]_Main!vars
  <1> SUFFICES ASSUME AnyBus, FastBus, [Next]_vars PROVE [Main!Next]_Main!vars
    OBVIOUS
  <1> DEFINE m == main
             at == IF place[m] = "calling" THEN "asleep" ELSE place[m]
             left == IF place[m] # "transmit" THEN wait[m]
                     ELSE IF timer[m] = Tx!Off THEN 0 ELSE timer[m]
  <1> USE Threads
  <1>1. /\ Tx!IInv /\ TxFacts /\ TypeOK /\ PlacesMatchLists /\ WakeupsBounded /\ WaitsInTurn
    BY TxInvariantFacts DEF AnyBus, FastBus
  <1>2. ASSUME place'[m] = place[m], wait'[m] = wait[m], timer'[m] = timer[m],
               UNCHANGED <<stats_check, woken, wdg>>
        PROVE  UNCHANGED Main!vars
    BY <1>2 DEF Main!vars
  <1>3. CASE EnterLoop
    <2>1. Main!EnterLoop
      BY <1>1, <1>3, MainTicks DEF EnterLoop, Main!EnterLoop, TypeOK
    <2>2. QED
      BY <2>1 DEF Main!Next
  <1>4. CASE MainRound
    <2>1. Main!Round
      BY <1>1, <1>4, MainTicks
      DEF MainRound, Feed, Goes, Wakes, StatsDue, Main!Round, Main!Feed, Main!StatsDue, TypeOK
    <2>2. QED
      BY <2>1 DEF Main!Next
  <1>5. CASE StatsDone
    <2>1. Main!StatsDone
      BY <1>1, <1>5, MainTicks DEF StatsDone, Feed, Goes, Main!StatsDone, Main!Feed, TypeOK
    <2>2. QED
      BY <2>1 DEF Main!Next
  <1>6. CASE RxWaits \/ RxServed \/ RxLogged
    <2>1. /\ Goes(can_rx, "asleep", EventTicks)
          /\ UNCHANGED <<timer, stats_check, woken, wdg>>
      BY <1>6, ZenonT(30) DEF RxWaits, RxServed, RxLogged
    <2>2. QED
      BY <1>1, <1>2, <2>1, GoesEffect, ZenonT(30)
  <1>7. CASE MainCalls
    <2>1. /\ place[m] = "asleep" /\ wait[m] = 0 /\ place'[m] = "calling" /\ wait'[m] = 0
          /\ UNCHANGED <<stats_check, woken, wdg>>
      BY <1>1, <1>7 DEF MainCalls, Wakes, Goes, TypeOK
    <2>2. QED
      BY <2>1, ZenonT(30) DEF Main!vars
  <1>8. CASE AdcCalls \/ RxCalls
    <2>1. /\ place'[m] = place[m] /\ wait'[m] = wait[m] /\ timer' = timer
          /\ UNCHANGED <<stats_check, woken, wdg>>
      BY <1>1, <1>8 DEF AdcCalls, RxCalls, Goes, Tx!CallTransmit, TypeOK
    <2>2. QED
      BY <1>2, <2>1, ZenonT(30)
  <1>9. CASE (Transmit \/ ReturnTimeout \/ Enqueue) /\ Head(ready) # m
    <2>1. PICK r \in Thread : r = Head(ready)
      BY <1>1, <1>9, LeaveStep, WaitStep, ZenonT(30)
    <2>2. /\ \A u \in Thread \ {r} :
               place'[u] = place[u] /\ wait'[u] = wait[u] /\ timer'[u] = timer[u]
          /\ stats_check' = stats_check /\ woken' = woken /\ wdg' = wdg
      BY <1>1, <1>9, <2>1, LeaveStep, WaitStep, ZenonT(30)
    <2>3. QED
      BY <1>2, <1>9, <2>1, <2>2, ZenonT(30)
  <1>10. CASE (Transmit \/ ReturnTimeout) /\ Head(ready) = m
    <2>1. /\ m \in Runnable /\ place'[m] = "log" /\ wait'[m] = LogTicks /\ wdg' = wdg
          /\ stats_check' = IF place[m] = "calling"
                            THEN stats_check + MAIN_THREAD_CHECK_INTERVAL_MS
                            ELSE stats_check
          /\ woken' = IF place[m] = "calling" THEN 0 ELSE woken
      BY <1>1, <1>10, LeaveStep, ZenonT(30)
    <2>2. place[m] \in {"calling", "transmit"}
      BY <1>1, <2>1, ZenonT(30) DEF PlacesMatchLists
    <2>3. CASE place[m] = "calling"
      <3>1. wait[m] = 0 /\ StatsDue
        BY <1>1, <2>3, ZenonT(30) DEF PlacesMatchLists
      <3>2. Main!BroadcastStats
        BY <2>1, <2>3, <3>1, ZenonT(30) DEF Main!BroadcastStats, Main!StatsDue, StatsDue
      <3>3. QED
        BY <3>2 DEF Main!Next
    <2>4. CASE place[m] = "transmit"
      <3>1. Main!TransmitReturns
        BY <2>1, <2>4, ZenonT(30) DEF Main!TransmitReturns
      <3>2. QED
        BY <3>1 DEF Main!Next
    <2>5. QED
      BY <2>2, <2>3, <2>4
  <1>11. CASE Enqueue /\ Head(ready) = m
    <2>1. /\ m \in Runnable /\ place'[m] = "transmit" /\ wdg' = wdg
          /\ timer'[m] = CAN_TRANSMIT_TIMEOUT /\ rdymsg[m] = "MSG_OK" /\ Free = 0
          /\ stats_check' = IF place[m] = "calling"
                            THEN stats_check + MAIN_THREAD_CHECK_INTERVAL_MS
                            ELSE stats_check
          /\ woken' = IF place[m] = "calling" THEN 0 ELSE woken + 1
      BY <1>1, <1>11, WaitStep, ZenonT(30)
    <2>2. place[m] \in {"calling", "transmit"}
      BY <1>1, <2>1, ZenonT(30) DEF PlacesMatchLists
    <2>3. timer'[m] # Tx!Off
      <3>1. CAN_TRANSMIT_TIMEOUT # CAN_TRANSMIT_TIMEOUT + 1
        BY Constants
      <3>2. QED
        BY <2>1, <3>1, ZenonT(30) DEF Tx!Off
    <2>4. CASE place[m] = "calling"
      <3>1. wait[m] = 0 /\ StatsDue
        BY <1>1, <2>4 DEF PlacesMatchLists
      <3>2. Main!BroadcastStats
        BY <2>1, <2>3, <2>4, <3>1, ZenonT(30) DEF Main!BroadcastStats, Main!StatsDue, StatsDue
      <3>3. QED
        BY <3>2 DEF Main!Next
    <2>5. CASE place[m] = "transmit"
      <3>1. Pending(m) \in Nat /\ Pending(m) >= 1
        BY <2>1, SMTT(30) DEF Pending
      <3>2. Rivals(m, 1) \in Nat /\ woken \in Nat /\ MaxWakeups \in Nat /\ MaxWakeups >= 1
        BY <1>1, TwoRivals, Constants DEF TypeOK
      <3>3. IF healthy THEN woken + Rivals(m, 1) + Pending(m) <= 3 + Occasions
                       ELSE woken + Pending(m) <= MaxWakeups + 1
        BY <1>1, <2>5 DEF WakeupsBounded
      <3>4. woken < MaxWakeups + 3 + FramesPerTick * (3 * FrameTicks + 1)
        <4>1. FramesPerTick * (3 * FrameTicks + 1) \in Nat
          BY Constants
        <4>2. healthy => Occasions \in Nat /\ Occasions <= FramesPerTick * (3 * FrameTicks + 1)
          BY <1>1, <2>1, <2>5, FewOccasions
        <4> DEFINE most == FramesPerTick * (3 * FrameTicks + 1)
        <4> HIDE DEF most
        <4>3. most \in Nat /\ (healthy => Occasions \in Nat /\ Occasions <= most)
          BY <4>1, <4>2 DEF most
        <4>4. woken < MaxWakeups + 3 + most
          BY <3>1, <3>2, <3>3, <4>3, SMTT(30)
        <4>5. QED
          BY <4>4 DEF most
      <3>5. Main!WaitAgain
        BY <2>1, <2>3, <2>5, <3>4 DEF Main!WaitAgain
      <3>6. QED
        BY <3>5 DEF Main!Next
    <2>6. QED
      BY <2>2, <2>4, <2>5
  <1>12. CASE CanIrq \/ TransmissionEnds \/ BusErrorStatus
    <2>1. UNCHANGED <<place, wait, timer, stats_check, woken, wdg>>
      BY <1>12, ZenonT(30) DEF CanIrq, TransmissionEnds, BusErrorStatus, loops,
         Tx!CanIrq, Tx!TransmissionEnds, Tx!BusErrorStatus
    <2>2. QED
      BY <1>2, <2>1
  <1>13. ASSUME NEW u \in Thread, TimerWakeup(u) PROVE UNCHANGED Main!vars
    <2>1. /\ UNCHANGED <<place, wait, stats_check, woken, wdg>> /\ timer[u] = 0
          /\ timer'[u] = CAN_TRANSMIT_TIMEOUT + 1
          /\ \A t \in Thread \ {u} : timer'[t] = timer[t]
      BY <1>1, <1>13, TimerStep, ZenonT(30)
    <2>2. CASE u # m
      BY <1>2, <2>1, <2>2, ZenonT(30)
    <2>3. CASE u = m
      BY <2>1, <2>3, ZenonT(30) DEF Main!vars, Tx!Off
    <2>4. QED
      BY <2>2, <2>3
  <1>14. CASE Tick
    <2>1. /\ place' = place /\ UNCHANGED <<stats_check, woken>> /\ wdg > 0 /\ wdg' = wdg - 1
          /\ Runnable = {} /\ timer[m] # 0
          /\ wait'[m] = IF wait[m] = 0 THEN wait[m] ELSE wait[m] - 1
          /\ timer'[m] = IF timer[m] = CAN_TRANSMIT_TIMEOUT + 1
                         THEN CAN_TRANSMIT_TIMEOUT + 1 ELSE timer[m] - 1
          /\ place[m] \in {"boot", "asleep", "log"} => wait[m] > 0
      BY <1>1, <1>14, TickStep, ZenonT(30)
    <2>2. /\ wait[m] \in Nat /\ timer[m] \in Nat /\ CAN_TRANSMIT_TIMEOUT \in Nat
          /\ place[m] \in {"boot", "asleep", "calling", "transmit", "log"}
      BY <1>1, Numbers, Constants, ZenonT(30) DEF TypeOK
    <2>3. place[m] # "calling" /\ (place[m] = "transmit" => timer[m] <= CAN_TRANSMIT_TIMEOUT)
      BY <1>1, <2>1, ZenonT(30) DEF PlacesMatchLists, TxFacts
    <2>4. ASSUME place[m] = "transmit" PROVE left > 0 /\ left' = left - 1 /\ at' = at
      <3>0. timer[m] # 0 /\ timer[m] <= CAN_TRANSMIT_TIMEOUT
        BY <2>1, <2>3, <2>4, ZenonT(30)
      <3>1. timer[m] # CAN_TRANSMIT_TIMEOUT + 1 /\ timer[m] > 0
        BY <2>2, <3>0
      <3>2. timer'[m] = timer[m] - 1 /\ timer'[m] # CAN_TRANSMIT_TIMEOUT + 1
        <4>1. timer'[m] = timer[m] - 1
          BY <2>1, <3>1, ZenonT(30)
        <4>2. QED
          BY <2>2, <3>0, <4>1
      <3>3. left = timer[m] /\ left' = timer'[m]
        BY <2>1, <2>4, <3>1, <3>2, ZenonT(30) DEF Tx!Off
      <3>4. QED
        BY <2>1, <3>1, <3>2, <3>3, ZenonT(30)
    <2>5. ASSUME place[m] # "transmit" PROVE left > 0 /\ left' = left - 1 /\ at' = at
      <3>1. wait[m] > 0
        BY <2>1, <2>2, <2>3, <2>5, ZenonT(30)
      <3>2. wait'[m] = wait[m] - 1
        <4>1. wait[m] # 0
          BY <2>2, <3>1
        <4>2. QED
          BY <2>1, <4>1, ZenonT(30)
      <3>3. left = wait[m] /\ left' = wait'[m]
        BY <2>1, <2>5, ZenonT(30)
      <3>4. at' = at
        BY <2>1, ZenonT(30)
      <3> HIDE DEF left, at
      <3>5. QED
        BY <3>1, <3>2, <3>3, <3>4, ZenonT(30)
    <2>6. left > 0 /\ left' = left - 1 /\ at' = at
      BY <2>4, <2>5, ZenonT(30)
    <2>7. Main!Tick
      BY <2>1, <2>6, ZenonT(30) DEF Main!Tick
    <2>8. QED
      BY <2>7 DEF Main!Next
  <1>15. CASE WatchdogReset
    <2>1. Main!WatchdogReset
      BY <1>15 DEF WatchdogReset, BootPlace, BootWait, Main!WatchdogReset
    <2>2. QED
      BY <2>1 DEF Main!Next
  <1>16. CASE UNCHANGED vars
    BY <1>2, <1>16, ZenonT(30) DEF vars, loops
  <1>17. CASE FrameReceived \/ RxReceives
    BY <1>1, <1>2, <1>17, ReceptionStep, ZenonT(30)
  <1>18. QED
    BY <1>3, <1>4, <1>5, <1>6, <1>7, <1>8, <1>9, <1>10, <1>11, <1>12, <1>13, <1>14, <1>15,
       <1>16, <1>17 DEF Next

-----------------------------------------------------------------------------
(* What is proved of MainLoop holds of main *)

MainProofs ==
  INSTANCE MainLoopProofs WITH
    at <- IF place[main] = "calling" THEN "asleep" ELSE place[main],
    left <- IF place[main] # "transmit" THEN wait[main]
            ELSE IF timer[main] = Tx!Off THEN 0 ELSE timer[main],
    MaxWoken <- MaxWakeups + 3 + FramesPerTick * (3 * FrameTicks + 1)

(* The assumptions MainLoopProofs makes hold of the constants of the board. *)
LEMMA MainAssumption == MainProofs!MainLoopAssumption
  BY BoardAssumption DEF MainProofs!MainLoopAssumption

(* Main and MainProofs start alike. *)
LEMMA SameMainInit == Main!Init => MainProofs!Init
  BY DEF Main!Init, MainProofs!Init

(* They take the same steps. *)
LEMMA SameMainNext == [Main!Next]_Main!vars => [MainProofs!Next]_MainProofs!vars
  BY ZenonT(30) DEF Main!Next, Main!vars, Main!EnterLoop, Main!Round, Main!BroadcastStats,
     Main!WaitAgain, Main!TransmitReturns, Main!StatsDone, Main!Tick, Main!WatchdogReset,
     Main!Feed, Main!StatsDue, Main!CheckTicks,
     MainProofs!Next, MainProofs!vars, MainProofs!EnterLoop, MainProofs!Round,
     MainProofs!BroadcastStats, MainProofs!WaitAgain, MainProofs!TransmitReturns,
     MainProofs!StatsDone, MainProofs!Tick, MainProofs!WatchdogReset, MainProofs!Feed,
     MainProofs!StatsDue, MainProofs!CheckTicks

(* They promise the same of the watchdog. *)
LEMMA SameMainPromise == MainProofs!ResetNeedsWakeups => Main!ResetNeedsWakeups
  BY DEF Main!ResetNeedsWakeups, Main!RoundTicks, Main!CheckTicks,
     MainProofs!ResetNeedsWakeups, MainProofs!RoundTicks, MainProofs!CheckTicks

-----------------------------------------------------------------------------
(* The transmit path keeps the invariant of CanTxProofs *)

TxProofs == INSTANCE CanTxProofs

(* The assumptions CanTxProofs makes hold of the constants of the board. *)
LEMMA TxAssumptions == TxProofs!CanTxAssumption /\ TxProofs!CanLldAssumption
  BY BoardAssumption DEF TxProofs!CanTxAssumption, TxProofs!CanLldAssumption

(* Tx and TxProofs are the same specification under two names. *)
LEMMA SameInvariant == Tx!IInv <=> TxProofs!IInv
  BY ZenonT(30) DEF Tx!IInv, Tx!TypeOK, Tx!CanRegs, Tx!RxFrame, Tx!TxFrame, Tx!Off, Tx!NoLostTxWakeup,
     Tx!InOneQueueOnce, Tx!NoEarlyTimeout, Tx!TimersCoverWaits, Tx!InCall,
     Tx!can_lld_is_tx_empty, Tx!Range, Tx!IsInjective,
     TxProofs!IInv, TxProofs!TypeOK, TxProofs!CanRegs, TxProofs!RxFrame,
     TxProofs!TxFrame, TxProofs!Off,
     TxProofs!NoLostTxWakeup, TxProofs!InOneQueueOnce, TxProofs!NoEarlyTimeout,
     TxProofs!TimersCoverWaits, TxProofs!InCall, TxProofs!can_lld_is_tx_empty,
     TxProofs!Range, TxProofs!IsInjective

(* They start alike. *)
LEMMA SameInit == Tx!Init => TxProofs!Init
  BY DEF Tx!Init, Tx!can_lld_start, Tx!can_lld_init, Tx!Off,
     TxProofs!Init, TxProofs!can_lld_start, TxProofs!can_lld_init, TxProofs!Off

(* They take the same steps. *)
LEMMA SameNext == [Tx!Next]_Tx!vars => [TxProofs!Next]_TxProofs!vars
  BY ZenonT(30) DEF Tx!Next, Tx!vars, Tx!Scheduler, Tx!Transmit, Tx!Enqueue, Tx!ReturnTimeout,
     Tx!CanIrq, Tx!Tick, Tx!TransmissionEnds, Tx!BusErrorStatus, Tx!CallTransmit,
     Tx!TimerWakeup, Tx!InCall, Tx!Running, Tx!Off, Tx!Range,
     Tx!can_lld_is_tx_empty, Tx!can_lld_transmit, Tx!IrqLine, Tx!UnifiedHandler,
     Tx!can_lld_tx_handler, Tx!can_lld_rx0_handler, Tx!can_lld_sce_handler,
     Tx!RxBroadcasts, Tx!BusTransmitted, Tx!BusError,
     TxProofs!Next, TxProofs!vars, TxProofs!Scheduler, TxProofs!Transmit, TxProofs!Enqueue,
     TxProofs!ReturnTimeout, TxProofs!CanIrq, TxProofs!Tick, TxProofs!TransmissionEnds,
     TxProofs!BusErrorStatus, TxProofs!CallTransmit, TxProofs!TimerWakeup,
     TxProofs!InCall, TxProofs!Running, TxProofs!Off, TxProofs!Range,
     TxProofs!can_lld_is_tx_empty, TxProofs!can_lld_transmit, TxProofs!IrqLine,
     TxProofs!UnifiedHandler, TxProofs!can_lld_tx_handler, TxProofs!can_lld_rx0_handler,
     TxProofs!can_lld_sce_handler, TxProofs!RxBroadcasts, TxProofs!BusTransmitted,
     TxProofs!BusError

(* The invariant of the transmit path holds at the start. *)
LEMMA TxInit == Tx!Init => Tx!IInv
  BY TxAssumptions, SameInvariant, SameInit, TxProofs!InitIInv

(* And every step of the transmit path keeps it. *)
LEMMA TxNext == Tx!IInv /\ [Tx!Next]_Tx!vars => Tx!IInv'
  <1>1. Tx!IInv' <=> TxProofs!IInv'
    BY SameInvariant, PTL
  <1>2. QED
    BY <1>1, TxAssumptions, SameInvariant, SameNext, TxProofs!NextIInv

(* Reception keeps it too: it is not a step of CanTx, but the mailboxes    *)
(* are left alone.                                                         *)
LEMMA TxReception == Tx!IInv /\ (FrameReceived \/ RxReceives) => Tx!IInv'
  <1> SUFFICES ASSUME Tx!IInv, FrameReceived \/ RxReceives PROVE Tx!IInv'
    OBVIOUS
  <1> DEFINE Regs == TxProofs!CanRegs(TxProofs!RxFrame, TxProofs!TxFrame)
  <1>1. TxProofs!IInv /\ can \in Regs
    BY SameInvariant, ZenonT(30) DEF TxProofs!IInv, TxProofs!TypeOK
  <1>2. UNCHANGED <<ready, txqueue, rdymsg, timer, blocked>>
    BY DEF FrameReceived, RxReceives
  <1>3. can' \in Regs /\ can'.mbx = can.mbx /\ can'.rqcp = can.rqcp
    <2>1. CASE FrameReceived
      <3>1. can' = TxProofs!BusReceive(can, "frame") /\ "frame" \in TxProofs!RxFrame
        BY <2>1 DEF FrameReceived, Tx!BusReceive, TxProofs!BusReceive, TxProofs!RxFrame
      <3>2. QED
        BY <1>1, <3>1, TxAssumptions, TxProofs!ArrivalMailboxes, ZenonT(30)
    <2>2. CASE RxReceives
      <3>1. can' = TxProofs!can_lld_receive(can) /\ TxProofs!can_lld_is_rx_nonempty(can)
        BY <2>2 DEF RxReceives, Tx!can_lld_receive, Tx!can_lld_is_rx_nonempty,
           TxProofs!can_lld_receive, TxProofs!can_lld_is_rx_nonempty
      <3>2. QED
        BY <1>1, <3>1, TxAssumptions, TxProofs!ReceiveMailboxes, ZenonT(30)
    <2>3. QED
      BY <2>1, <2>2
  <1>4. TxProofs!IInv'
    BY <1>1, <1>2, <1>3, TxAssumptions, TxProofs!MailboxesKeepIInv, ZenonT(30)
  <1>5. Tx!IInv' <=> TxProofs!IInv'
    BY SameInvariant, PTL
  <1>6. QED
    BY <1>4, <1>5

(* And so does a thread that is done with its call. *)
LEMMA TxForgotten ==
  Tx!IInv /\ PlacesMatchLists /\ (StatsDone \/ RxLogged) => Tx!IInv'
  <1> SUFFICES ASSUME Tx!IInv, PlacesMatchLists, StatsDone \/ RxLogged PROVE Tx!IInv'
    OBVIOUS
  <1>1. PICK t \in Thread :
          /\ place[t] = "log" /\ blocked' = [blocked EXCEPT ![t] = 0]
          /\ UNCHANGED <<can, ready, txqueue, rdymsg, timer>>
    BY Threads, ZenonT(30) DEF StatsDone, RxLogged, Forgets
  <1>2. t \notin Runnable /\ t \notin Waiting
    BY <1>1 DEF PlacesMatchLists
  <1>3. t \notin TxProofs!Range(ready) /\ t \notin TxProofs!Range(txqueue)
    BY <1>2 DEF Runnable, Waiting, Range, TxProofs!Range
  <1>4. TxProofs!IInv'
    BY <1>1, <1>3, SameInvariant, TxAssumptions, TxProofs!ForgettingKeepsIInv, ZenonT(30)
  <1>5. Tx!IInv' <=> TxProofs!IInv'
    BY SameInvariant, PTL
  <1>6. QED
    BY <1>4, <1>5

(* To the transmit path a step of the board is one of its own, nothing,    *)
(* the start, the reception of a frame, or the end of a call's history.    *)
LEMMA BoardTxStep ==
  [Next]_vars => \/ [Tx!Next]_Tx!vars \/ Tx!Init'
                 \/ FrameReceived \/ RxReceives \/ StatsDone \/ RxLogged
  <1> SUFFICES ASSUME [Next]_vars, ~(FrameReceived \/ RxReceives \/ StatsDone \/ RxLogged)
               PROVE  [Tx!Next]_Tx!vars \/ Tx!Init'
    OBVIOUS
  <1>1. CASE EnterLoop \/ MainRound \/ RxWaits \/ RxServed
    BY <1>1, ZenonT(30) DEF EnterLoop, MainRound, RxWaits, RxServed, Tx!vars
  <1>2. CASE MainCalls \/ AdcCalls \/ RxCalls
    BY <1>2, Threads, ZenonT(30) DEF MainCalls, AdcCalls, RxCalls, Tx!Next
  <1>3. CASE Transmit \/ ReturnTimeout \/ Enqueue
    BY <1>3 DEF Transmit, ReturnTimeout, Enqueue, Tx!Next, Tx!Scheduler
  <1>4. CASE CanIrq \/ TransmissionEnds \/ BusErrorStatus \/ Tick
    BY <1>4, ZenonT(30) DEF CanIrq, TransmissionEnds, BusErrorStatus, Tick, Tx!Next
  <1>5. CASE \E t \in Thread : TimerWakeup(t)
    BY <1>5 DEF TimerWakeup, Tx!Next
  <1>6. CASE WatchdogReset
    BY <1>6 DEF WatchdogReset, Tx!Init
  <1>7. CASE UNCHANGED vars
    BY <1>7 DEF vars, Tx!vars
  <1>8. QED
    BY <1>1, <1>2, <1>3, <1>4, <1>5, <1>6, <1>7 DEF Next

(* The board comes up with the invariant of any bus. *)
LEMMA InitAnyBus == Init => AnyBus
  BY InitLoops, TxInit DEF Init, AnyBus

(* Every step keeps it. *)
LEMMA NextAnyBus == AnyBus /\ [Next]_vars => AnyBus'
  <1> SUFFICES ASSUME AnyBus, [Next]_vars PROVE AnyBus'
    OBVIOUS
  <1>1. /\ Tx!IInv /\ TxFacts /\ TypeOK /\ PlacesMatchLists /\ WorkedIsBlocked
    BY TxInvariantFacts DEF AnyBus
  <1>2. Tx!Init' => Tx!IInv'
    BY TxInit, PTL
  <1>3. Tx!IInv'
    BY <1>1, <1>2, BoardTxStep, TxNext, TxReception, TxForgotten
  <1>4. QED
    BY <1>1, <1>3, NextTypeOK, NextPlaces, NextWorked DEF AnyBus

-----------------------------------------------------------------------------
(* The theorems *)

(* On any bus and for every setting of the timing, the worker sleeps       *)
(* longer than its period only after it has waited for a mailbox for       *)
(* longer than that: the subtraction in system_adc_worker wraps for no     *)
(* other reason.                                                           *)
THEOREM OversleepsNeedFullMailboxes == SafeSpec => []OversleepNeedsFullMailboxes
  <1>1. AnyBus => OversleepNeedsFullMailboxes
    BY ZenonT(30) DEF AnyBus, WorkedIsBlocked
  <1>2. QED
    BY <1>1, InitAnyBus, NextAnyBus, PTL DEF SafeSpec

(* If a frame takes less than the timeout then on a healthy bus no call of *)
(* canTransmit times out, however often the interrupts of received frames  *)
(* wake its thread in vain.                                                *)
THEOREM HealthyBusDropsNothing ==
  ASSUME FrameTicks < CAN_TRANSMIT_TIMEOUT
  PROVE  SafeSpec => []NoFrameDropped
  <1> DEFINE I == AnyBus /\ TimersOutlastFrames /\ NoFrameDropped
  <1>1. Init => I
    BY InitAnyBus, InitLoops
  <1>2. I /\ [Next]_vars => I'
    <2> SUFFICES ASSUME I, [Next]_vars PROVE I'
      OBVIOUS
    <2>1. AnyBus'
      BY NextAnyBus
    <2>2. Tx!IInv /\ TxFacts /\ TypeOK
      BY TxInvariantFacts DEF AnyBus
    <2>3. TimersOutlastFrames' /\ NoFrameDropped'
      BY <2>2, NextTimers
    <2>4. QED
      BY <2>1, <2>3
  <1>3. I => NoFrameDropped
    OBVIOUS
  <1> HIDE DEF I
  <1>4. QED
    BY <1>1, <1>2, <1>3, PTL DEF SafeSpec

(* The invariant of a board whose bus, if it is healthy, is fast enough.   *)
LEMMA FastBusHolds == SafeSpec /\ (healthy => Unhurried) => [](AnyBus /\ FastBus)
  <1>1. Init /\ (healthy => Unhurried) => AnyBus /\ FastBus
    BY InitAnyBus, InitFast
  <1>2. AnyBus /\ FastBus /\ [Next]_vars => AnyBus' /\ FastBus'
    BY NextAnyBus, NextFast
  <1>3. QED
    BY <1>1, <1>2, PTL DEF SafeSpec

(* If three frames are shorter than the timeout and the sleeps of the      *)
(* threads, and six shorter than the period, then on a healthy bus the     *)
(* difference in system_adc_worker never wraps: whatever is received, and  *)
(* in whatever order the threads queue up again, nobody waits for a        *)
(* mailbox for more than three frames.                                     *)
THEOREM HealthyBusNeverOversleeps ==
  SafeSpec /\ (healthy => Unhurried) => []NeverOversleeps
  <1>1. AnyBus /\ FastBus => NeverOversleeps
    BY DEF FastBus
  <1>2. QED
    BY <1>1, FastBusHolds, PTL

(* If besides the watchdog outlasts the boot, a sleep of main, three       *)
(* frames and a line of the log, it never resets the board on a healthy    *)
(* bus, received frames that restart the wait of main included.            *)
THEOREM HealthyBusFeedsWatchdog ==
  ASSUME HealthyRound < WatchdogTicks
  PROVE  SafeSpec /\ (healthy => Unhurried) => []NoWatchdogReset
  <1>1. AnyBus /\ FastBus => NoWatchdogReset
    BY FedInTime, TxInvariantFacts DEF AnyBus, FastBus
  <1>2. QED
    BY <1>1, FastBusHolds, PTL

(* Main behaves as MainLoop says, whatever the other threads do: on any    *)
(* failing bus, and on a healthy one that is fast enough.                  *)
THEOREM MainIsMainLoop ==
  SafeSpec /\ (healthy => Unhurried) => ImplementsMainLoop
  BY FastBusHolds, MainInit, MainNext, PTL DEF SafeSpec, ImplementsMainLoop, Main!SafeSpec

(* So on the board too the watchdog resets only after CAN interrupts woke  *)
(* main in vain for as long as the reload value.                           *)
THEOREM BoardResetsNeedWakeups ==
  SafeSpec /\ (healthy => Unhurried) => []Main!ResetNeedsWakeups
  <1>1. Init => MainProofs!IInv
    BY MainInit, SameMainInit, MainAssumption, MainProofs!InitAccounted
  <1>2. AnyBus /\ FastBus /\ MainProofs!IInv /\ [Next]_vars => MainProofs!IInv'
    BY MainNext, SameMainNext, MainAssumption, MainProofs!NextAccounted
  <1>3. MainProofs!IInv => Main!ResetNeedsWakeups
    BY SameMainPromise, MainAssumption, MainProofs!AccountedEnough
  <1>4. QED
    BY <1>1, <1>2, <1>3, FastBusHolds, PTL DEF SafeSpec
=============================================================================
