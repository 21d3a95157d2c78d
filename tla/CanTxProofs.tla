----------------------------- MODULE CanTxProofs ----------------------------
(***************************************************************************)
(* Proofs about the transmit path, for every set of threads, number of     *)
(* mailboxes and timeout.                                                  *)
(***************************************************************************)
EXTENDS CanTx, ThreadLists, SequenceTheorems

(* The cell after can_lld_start: no request is pending. *)
LEMMA StartMailboxes ==
  /\ can_lld_start(can_lld_init) \in CanRegs(RxFrame, TxFrame)
  /\ can_lld_start(can_lld_init).mbx = <<>>
  <1>1. can_lld_init \in CanRegs(RxFrame, TxFrame) /\ can_lld_init.mbx = <<>>
    BY DEF can_lld_init, CanRegs
  <1>2. QED
    BY <1>1, ZenonT(30) DEF can_lld_start, CanRegs

(* can_lld_transmit takes one mailbox and leaves the interrupt line alone. *)
LEMMA TransmitMailboxes ==
  ASSUME NEW c \in CanRegs(RxFrame, TxFrame), NEW f \in TxFrame
  PROVE  /\ can_lld_transmit(c, f) \in CanRegs(RxFrame, TxFrame)
         /\ Len(can_lld_transmit(c, f).mbx) = Len(c.mbx) + 1
         /\ can_lld_transmit(c, f).rqcp = c.rqcp
         /\ IrqLine(can_lld_transmit(c, f)) <=> IrqLine(c)
  <1>1. c.mbx \in Seq(TxFrame)
    BY DEF CanRegs
  <1>2. Append(c.mbx, f) \in Seq(TxFrame) /\ Len(Append(c.mbx, f)) = Len(c.mbx) + 1
    BY <1>1
  <1>3. QED
    BY <1>2, ZenonT(30) DEF can_lld_transmit, CanRegs, IrqLine

(* The unified handler acknowledges every cause, or disables it, and       *)
(* leaves the pending requests alone: the line goes low.                   *)
LEMMA HandlerMailboxes ==
  ASSUME NEW c \in CanRegs(RxFrame, TxFrame)
  PROVE  /\ UnifiedHandler(c) \in CanRegs(RxFrame, TxFrame)
         /\ UnifiedHandler(c).mbx = c.mbx
         /\ ~IrqLine(UnifiedHandler(c))
  <1> DEFINE d == can_lld_tx_handler(c)
             e == can_lld_rx0_handler(d)
  <1>1. d \in CanRegs(RxFrame, TxFrame) /\ d.mbx = c.mbx /\ d.rqcp = FALSE
    BY ZenonT(30) DEF can_lld_tx_handler, CanRegs
  <1> HIDE DEF d
  <1>2. /\ e \in CanRegs(RxFrame, TxFrame) /\ e.mbx = c.mbx /\ e.rqcp = FALSE
        /\ e.fovr = FALSE
    BY <1>1, ZenonT(30) DEF can_lld_rx0_handler, RxBroadcasts, CanRegs
  <1>3. e.fmpie0 => e.fifo = <<>>
    BY <1>1, ZenonT(30) DEF can_lld_rx0_handler, RxBroadcasts, CanRegs
  <1> HIDE DEF e
  <1>4. UnifiedHandler(c) = can_lld_sce_handler(e)
    BY DEF UnifiedHandler, d, e
  <1>5. QED
    BY <1>2, <1>3, <1>4, ZenonT(30) DEF can_lld_sce_handler, CanRegs, IrqLine

(* Overwriting the newest element of a FIFO, and taking the oldest. *)
LEMMA FifoElements ==
  ASSUME NEW S, NEW s \in Seq(S), s # <<>>, NEW e \in S
  PROVE  /\ [s EXCEPT ![Len(s)] = e] \in Seq(S)
         /\ Tail(s) \in Seq(S)
         /\ Len(s) = 1 => Tail(s) = <<>>
  <1>1. [s EXCEPT ![Len(s)] = e] \in Seq(S)
    OBVIOUS
  <1>2. Tail(s) \in Seq(S) /\ Len(Tail(s)) = Len(s) - 1
    OBVIOUS
  <1>3. Tail(s) # <<>> => Len(Tail(s)) # 0
    BY <1>2, EmptySeq, ZenonT(30)
  <1>4. QED
    BY <1>1, <1>2, <1>3

(* A frame that arrives, and one that is taken from the FIFO, leave the    *)
(* mailboxes alone; taking one does not raise the interrupt line.          *)
LEMMA ArrivalMailboxes ==
  ASSUME NEW c \in CanRegs(RxFrame, TxFrame), NEW f \in RxFrame
  PROVE  /\ BusReceive(c, f) \in CanRegs(RxFrame, TxFrame)
         /\ BusReceive(c, f).mbx = c.mbx
         /\ BusReceive(c, f).rqcp = c.rqcp
  <1>1. c.fifo \in Seq(RxFrame) /\ FifoDepth \in Nat \ {0}
    BY CanLldAssumption DEF CanRegs
  <1>2. CASE Len(c.fifo) < FifoDepth
    <2>1. Append(c.fifo, f) \in Seq(RxFrame)
      BY <1>1
    <2>2. BusReceive(c, f) = [c EXCEPT !.fifo = Append(c.fifo, f)]
      BY <1>2 DEF BusReceive
    <2>3. QED
      BY <2>1, <2>2, ZenonT(30) DEF CanRegs
  <1>3. CASE ~(Len(c.fifo) < FifoDepth)
    <2> DEFINE q == [c.fifo EXCEPT ![Len(c.fifo)] = f]
    <2>1. q \in Seq(RxFrame)
      <3>1. c.fifo # <<>>
        BY <1>1, <1>3
      <3>2. QED
        BY <1>1, <3>1, FifoElements
    <2>2. BusReceive(c, f) = [[c EXCEPT !.fifo = q] EXCEPT !.fovr = TRUE]
      BY <1>3 DEF BusReceive
    <2> HIDE DEF q
    <2>3. QED
      BY <2>1, <2>2, ZenonT(30) DEF CanRegs
  <1>4. QED
    BY <1>2, <1>3

(* See ArrivalMailboxes. *)
LEMMA ReceiveMailboxes ==
  ASSUME NEW c \in CanRegs(RxFrame, TxFrame), can_lld_is_rx_nonempty(c)
  PROVE  /\ can_lld_receive(c) \in CanRegs(RxFrame, TxFrame)
         /\ can_lld_receive(c).mbx = c.mbx
         /\ can_lld_receive(c).rqcp = c.rqcp
         /\ IrqLine(can_lld_receive(c)) => IrqLine(c)
  <1>1. c.fifo \in Seq(RxFrame) /\ c.fifo # <<>>
    BY DEF CanRegs, can_lld_is_rx_nonempty
  <1>2. Tail(c.fifo) \in Seq(RxFrame) /\ (Len(c.fifo) = 1 => Tail(c.fifo) = <<>>)
    BY <1>1, FifoElements DEF RxFrame
  <1> DEFINE t == Tail(c.fifo)
             m == c.fmpie0 \/ Len(c.fifo) = 1
  <1>3. can_lld_receive(c) = [c EXCEPT !.fifo = t, !.fmpie0 = m]
    BY DEF can_lld_receive
  <1>4. t \in Seq(RxFrame) /\ m \in BOOLEAN /\ (m /\ t # <<>> => c.fmpie0)
    BY <1>2
  <1> HIDE DEF t, m
  <1>5. QED
    BY <1>1, <1>3, <1>4, ZenonT(30) DEF CanRegs, IrqLine

(* The history of a call does not matter when the thread is not in one. *)
LEMMA ForgettingKeepsIInv ==
  ASSUME IInv, NEW t \in Thread, t \notin Range(ready), t \notin Range(txqueue),
         blocked' = [blocked EXCEPT ![t] = 0], UNCHANGED <<can, ready, txqueue, rdymsg, timer>>
  PROVE  IInv'
  <1>1. TypeOK'
    BY CanTxAssumption DEF IInv, TypeOK
  <1>2. NoLostTxWakeup' /\ InOneQueueOnce'
    BY ZenonT(30) DEF IInv, NoLostTxWakeup, InOneQueueOnce
  <1>3. \A u \in Thread \ {t} : blocked'[u] = blocked[u]
    BY DEF IInv, TypeOK
  <1>4. Range(ready) \subseteq Thread /\ Range(txqueue) \subseteq Thread
    BY DEF IInv, TypeOK, Range
  <1>5. NoEarlyTimeout' /\ TimersCoverWaits'
    BY <1>3, <1>4, ZenonT(30) DEF IInv, NoEarlyTimeout, TimersCoverWaits, InCall
  <1>6. QED
    BY <1>1, <1>2, <1>5 DEF IInv

(* The invariant depends on the cell by its mailboxes only. *)
LEMMA MailboxesKeepIInv ==
  ASSUME IInv, can' \in CanRegs(RxFrame, TxFrame), can'.mbx = can.mbx,
         can'.rqcp = can.rqcp, UNCHANGED <<ready, txqueue, rdymsg, timer, blocked>>
  PROVE  IInv'
  <1>1. TypeOK'
    BY DEF IInv, TypeOK
  <1>2. NoLostTxWakeup'
    BY DEF IInv, NoLostTxWakeup, can_lld_is_tx_empty
  <1>3. InOneQueueOnce' /\ NoEarlyTimeout' /\ TimersCoverWaits'
    BY DEF IInv, InOneQueueOnce, NoEarlyTimeout, TimersCoverWaits, InCall
  <1>4. QED
    BY <1>1, <1>2, <1>3 DEF IInv

(* A finished attempt frees a mailbox and raises the interrupt line. *)
LEMMA TransmittedMailboxes ==
  ASSUME NEW c \in CanRegs(RxFrame, TxFrame), c.mbx # <<>>
  PROVE  /\ BusTransmitted(c) \in CanRegs(RxFrame, TxFrame)
         /\ Len(BusTransmitted(c).mbx) = Len(c.mbx) - 1
         /\ BusTransmitted(c).rqcp
         /\ IrqLine(BusTransmitted(c))
  <1>1. c.mbx \in Seq(TxFrame)
    BY DEF CanRegs
  <1>2. Tail(c.mbx) \in Seq(TxFrame) /\ Len(Tail(c.mbx)) = Len(c.mbx) - 1
    BY <1>1
  <1>3. QED
    BY <1>2, ZenonT(30) DEF BusTransmitted, CanRegs, IrqLine

(* An error status change raises the interrupt line and nothing else. *)
LEMMA ErrorMailboxes ==
  ASSUME NEW c \in CanRegs(RxFrame, TxFrame)
  PROVE  /\ BusError(c) \in CanRegs(RxFrame, TxFrame)
         /\ BusError(c).mbx = c.mbx
         /\ BusError(c).rqcp = c.rqcp
         /\ IrqLine(BusError(c))
  BY ZenonT(30) DEF BusError, CanRegs, IrqLine

(* The state in which the threads are created satisfies the invariant. *)
LEMMA InitIInv == Init => IInv
  <1> SUFFICES ASSUME Init PROVE IInv
    OBVIOUS
  <1>1. /\ can \in CanRegs(RxFrame, TxFrame) /\ can.mbx = <<>>
    BY StartMailboxes DEF Init
  <1>2. Len(can.mbx) <= CAN_TX_MAILBOXES
    BY <1>1, CanLldAssumption
  <1>3. ready \in Seq(Thread) /\ txqueue \in Seq(Thread)
    BY DEF Init
  <1>4. Off \in 0..Off /\ 0 \in 0..CAN_TRANSMIT_TIMEOUT + 1
    BY CanTxAssumption DEF Off
  <1>5. TypeOK
    BY <1>1, <1>2, <1>3, <1>4 DEF TypeOK, Init
  <1>6. Range(ready) = {} /\ Range(txqueue) = {}
    BY DEF Init, Range
  <1>7. InOneQueueOnce
    BY <1>6 DEF Init, InOneQueueOnce, IsInjective
  <1>8. NoLostTxWakeup /\ NoEarlyTimeout /\ TimersCoverWaits
    BY <1>6 DEF Init, NoLostTxWakeup, NoEarlyTimeout, TimersCoverWaits
  <1>9. QED
    BY <1>5, <1>7, <1>8 DEF IInv

(* Every step of the threads, the interrupts, the clock and the bus keeps  *)
(* the invariant.                                                          *)
LEMMA NextIInv == IInv /\ [Next]_vars => IInv'
  <1> SUFFICES ASSUME IInv, [Next]_vars PROVE IInv'
    OBVIOUS
  <1> USE DEF can_lld_is_tx_empty
  <1>0. /\ can \in CanRegs(RxFrame, TxFrame)
        /\ Len(can.mbx) \in Nat /\ Len(can.mbx) <= CAN_TX_MAILBOXES
        /\ ready \in Seq(Thread) /\ txqueue \in Seq(Thread)
        /\ rdymsg \in [Thread -> {"MSG_OK", "MSG_TIMEOUT"}]
        /\ timer \in [Thread -> 0..Off]
        /\ blocked \in [Thread -> 0..CAN_TRANSMIT_TIMEOUT + 1]
        /\ CAN_TX_MAILBOXES \in Nat /\ CAN_TRANSMIT_TIMEOUT \in Nat \ {0}
        /\ Off = CAN_TRANSMIT_TIMEOUT + 1
    BY CanLldAssumption, CanTxAssumption DEF IInv, TypeOK, CanRegs, Off
  <1>1. Range(ready) \subseteq Thread /\ Range(txqueue) \subseteq Thread
    BY <1>0 DEF Range
  <1>2. ready # <<>> =>
          /\ Running \in Thread /\ Running \in Range(ready) /\ Tail(ready) \in Seq(Thread)
          /\ Range(Tail(ready)) = Range(ready) \ {Running}
          /\ IsInjective(Tail(ready))
          /\ Running \notin Range(txqueue)
    <2> SUFFICES ASSUME ready # <<>>
                 PROVE  /\ Running \in Thread /\ Running \in Range(ready)
                        /\ Tail(ready) \in Seq(Thread)
                        /\ Range(Tail(ready)) = Range(ready) \ {Running}
                        /\ IsInjective(Tail(ready))
                        /\ Running \notin Range(txqueue)
      OBVIOUS
    <2>1. IsInjective(ready) /\ Range(ready) \cap Range(txqueue) = {}
      BY DEF IInv, InOneQueueOnce
    <2>2. Tail(ready) \in Seq(Thread)
      BY <1>0, TailMembers
    <2>3. /\ Running \in Range(ready)
          /\ Range(ready) = {Running} \cup Range(Tail(ready))
          /\ IsInjective(Tail(ready)) /\ Running \notin Range(Tail(ready))
      BY <1>0, <2>1, TailMembers DEF Running
    <2>4. QED
      BY <1>1, <2>1, <2>2, <2>3
  <1>3. ASSUME NEW t \in Thread, CallTransmit(t) PROVE IInv'
    <2>1. /\ t \notin Range(ready) /\ t \notin Range(txqueue)
          /\ ready' = Append(ready, t) /\ txqueue' = txqueue
          /\ rdymsg' = [rdymsg EXCEPT ![t] = "MSG_OK"]
          /\ blocked' = [blocked EXCEPT ![t] = 0]
          /\ can' = can /\ timer' = timer
      BY <1>3 DEF CallTransmit, InCall
    <2>2. /\ ready' \in Seq(Thread) /\ Range(ready') = Range(ready) \cup {t}
          /\ IsInjective(ready) => IsInjective(ready')
      BY <1>0, <2>1, AppendMembers
    <2>3. TypeOK'
      BY <1>0, <2>1, <2>2 DEF IInv, TypeOK
    <2>4. InOneQueueOnce' /\ NoLostTxWakeup'
      BY <2>1, <2>2 DEF IInv, InOneQueueOnce, NoLostTxWakeup
    <2>5. NoEarlyTimeout'
      BY <1>0, <1>1, <2>1, <2>2 DEF IInv, NoEarlyTimeout
    <2>6. TimersCoverWaits'
      BY <1>0, <1>1, <2>1, <2>2 DEF IInv, TimersCoverWaits, InCall
    <2>7. QED
      BY <2>3, <2>4, <2>5, <2>6 DEF IInv
  <1>4. CASE Transmit
    <2> USE <1>4 DEF Transmit
    <2>1. /\ can' \in CanRegs(RxFrame, TxFrame) /\ Len(can'.mbx) = Len(can.mbx) + 1
          /\ can'.rqcp = can.rqcp
      BY <1>0, TransmitMailboxes DEF TxFrame
    <2>2. TypeOK'
      <3>1. Len(can'.mbx) <= CAN_TX_MAILBOXES
        BY <1>0, <2>1, SMTT(30) DEF can_lld_is_tx_empty
      <3>2. QED
        BY <1>0, <1>2, <2>1, <3>1, SMTT(30) DEF IInv, TypeOK
    <2>3. NoLostTxWakeup'
      BY <1>0, <2>1 DEF IInv, NoLostTxWakeup
    <2>4. InOneQueueOnce'
      BY <1>2 DEF IInv, InOneQueueOnce
    <2>5. NoEarlyTimeout'
      BY <1>2 DEF IInv, NoEarlyTimeout
    <2>6. TimersCoverWaits'
      BY <1>0, <1>1, <1>2 DEF IInv, TimersCoverWaits, InCall
    <2>7. QED
      BY <2>2, <2>3, <2>4, <2>5, <2>6 DEF IInv
  <1>5. CASE Enqueue
    <2> USE <1>5 DEF Enqueue
    <2>1. /\ txqueue' \in Seq(Thread) /\ Range(txqueue') = Range(txqueue) \cup {Running}
          /\ IsInjective(txqueue) => IsInjective(txqueue')
      BY <1>0, <1>2, AppendMembers
    <2>2. TypeOK'
      BY <1>0, <1>2, <2>1, SMTT(30) DEF IInv, TypeOK
    <2>3. NoLostTxWakeup'
      BY DEF IInv, NoLostTxWakeup
    <2>4. InOneQueueOnce'
      BY <1>2, <2>1 DEF IInv, InOneQueueOnce
    <2>5. NoEarlyTimeout'
      BY <1>2 DEF IInv, NoEarlyTimeout
    <2>6. TimersCoverWaits'
      BY <1>0, <1>1, <1>2, <2>1, SMTT(30) DEF IInv, TimersCoverWaits, InCall
    <2>7. QED
      BY <2>2, <2>3, <2>4, <2>5, <2>6 DEF IInv
  <1>6. CASE ReturnTimeout
    <2> USE <1>6 DEF ReturnTimeout
    <2>1. TypeOK'
      BY <1>0, <1>2 DEF IInv, TypeOK
    <2>2. NoLostTxWakeup' /\ InOneQueueOnce' /\ NoEarlyTimeout'
      BY <1>2 DEF IInv, NoLostTxWakeup, InOneQueueOnce, NoEarlyTimeout
    <2>3. TimersCoverWaits'
      BY <1>0, <1>1, <1>2, SMTT(30) DEF IInv, TimersCoverWaits, InCall
    <2>4. QED
      BY <2>1, <2>2, <2>3 DEF IInv
  <1>7. CASE CanIrq
    <2>1. /\ can' \in CanRegs(RxFrame, TxFrame) /\ can'.mbx = can.mbx
      <3>1. can' = UnifiedHandler(can)
        BY <1>7 DEF CanIrq
      <3>2. can' \in CanRegs(RxFrame, TxFrame)
        BY <1>0, <3>1, HandlerMailboxes
      <3>3. can'.mbx = can.mbx
        BY <1>0, <3>1, HandlerMailboxes
      <3>4. QED
        BY <3>2, <3>3
    <2> USE <1>7 DEF CanIrq
    <2>2. /\ ready' \in Seq(Thread) /\ Range(ready') = Range(ready) \cup Range(txqueue)
          /\ IsInjective(ready')
      <3>1. /\ IsInjective(ready) /\ IsInjective(txqueue)
            /\ Range(ready) \cap Range(txqueue) = {}
        BY DEF IInv, InOneQueueOnce
      <3>2. ready' = ready \o txqueue
        OBVIOUS
      <3> HIDE <1>7 DEF CanIrq
      <3>3. QED
        BY <1>0, <3>1, <3>2, ConcatMembers
    <2>3. txqueue' \in Seq(Thread) /\ Range(txqueue') = {} /\ IsInjective(txqueue')
      BY DEF Range, IsInjective
    <2>4. TypeOK'
      BY <1>0, <2>1, <2>2, <2>3 DEF IInv, TypeOK
    <2>5. NoLostTxWakeup' /\ InOneQueueOnce'
      BY <2>2, <2>3 DEF IInv, NoLostTxWakeup, InOneQueueOnce
    <2>6. NoEarlyTimeout'
      BY <1>1, <2>2 DEF IInv, NoEarlyTimeout
    <2>7. TimersCoverWaits'
      BY <1>0, <1>1, <2>2, <2>3 DEF IInv, TimersCoverWaits, InCall
    <2>8. QED
      BY <2>4, <2>5, <2>6, <2>7 DEF IInv
  <1>8. ASSUME NEW t \in Thread, TimerWakeup(t) PROVE IInv'
    <2>1. /\ timer[t] = 0 /\ timer' = [timer EXCEPT ![t] = Off]
          /\ can' = can /\ blocked' = blocked
      BY <1>8 DEF TimerWakeup
    <2>2. CASE t \notin Range(txqueue) /\ UNCHANGED <<ready, txqueue, rdymsg>>
      <3>1. TypeOK'
        BY <1>0, <2>1, <2>2 DEF IInv, TypeOK
      <3>2. NoLostTxWakeup' /\ InOneQueueOnce' /\ NoEarlyTimeout'
        BY <2>1, <2>2 DEF IInv, NoLostTxWakeup, InOneQueueOnce, NoEarlyTimeout
      <3>3. TimersCoverWaits'
        BY <1>0, <1>1, <2>1, <2>2 DEF IInv, TimersCoverWaits, InCall
      <3>4. QED
        BY <3>1, <3>2, <3>3 DEF IInv
    <2>3. ASSUME NEW i \in DOMAIN txqueue, txqueue[i] = t,
                 txqueue' = Without(txqueue, i),
                 ready' = Append(ready, t),
                 rdymsg' = [rdymsg EXCEPT ![t] = "MSG_TIMEOUT"]
          PROVE  IInv'
      <3>1. t \in Range(txqueue) /\ t \notin Range(ready)
        BY <2>3 DEF Range, IInv, InOneQueueOnce
      <3>2. /\ txqueue' \in Seq(Thread) /\ Range(txqueue') = Range(txqueue) \ {t}
            /\ IsInjective(txqueue')
        BY <1>0, <2>3, RemoveMembers, SMTT(30) DEF IInv, InOneQueueOnce
      <3>3. /\ ready' \in Seq(Thread) /\ Range(ready') = Range(ready) \cup {t}
            /\ IsInjective(ready')
        BY <1>0, <2>3, <3>1, AppendMembers DEF IInv, InOneQueueOnce
      <3>4. TypeOK'
        BY <1>0, <2>1, <2>3, <3>2, <3>3 DEF IInv, TypeOK
      <3>5. NoLostTxWakeup'
        BY <2>1, <2>3 DEF IInv, NoLostTxWakeup, Range
      <3>6. InOneQueueOnce'
        BY <3>2, <3>3 DEF IInv, InOneQueueOnce
      <3>7. NoEarlyTimeout'
        BY <1>0, <1>1, <2>1, <2>3, <3>1, <3>3
        DEF IInv, NoEarlyTimeout, TimersCoverWaits
      <3>8. TimersCoverWaits'
        BY <1>0, <1>1, <2>1, <2>3, <3>1, <3>2, <3>3, SMTT(30) DEF IInv, TimersCoverWaits, InCall
      <3>9. QED
        BY <3>4, <3>5, <3>6, <3>7, <3>8 DEF IInv
    <2>4. QED
      BY <1>8, <2>2, <2>3, ZenonT(30) DEF TimerWakeup, Without
  <1>9. CASE Tick
    <2> USE <1>9 DEF Tick
    <2>1. TypeOK'
      BY <1>0 DEF IInv, TypeOK
    <2>2. NoLostTxWakeup' /\ InOneQueueOnce'
      BY DEF IInv, NoLostTxWakeup, InOneQueueOnce
    <2>3. NoEarlyTimeout'
      BY <1>0, <1>1 DEF IInv, NoEarlyTimeout
    <2>4. TimersCoverWaits'
      BY <1>0, <1>1 DEF IInv, TimersCoverWaits, InCall
    <2>5. QED
      BY <2>1, <2>2, <2>3, <2>4 DEF IInv
  <1>10. CASE TransmissionEnds
    <2>1. /\ can' \in CanRegs(RxFrame, TxFrame) /\ Len(can'.mbx) = Len(can.mbx) - 1
          /\ can'.rqcp
      BY <1>0, <1>10, TransmittedMailboxes, ZenonT(30) DEF TransmissionEnds
    <2>2. UNCHANGED <<ready, txqueue, rdymsg, timer, blocked>>
      BY <1>10 DEF TransmissionEnds
    <2>3. TypeOK'
      BY <1>0, <2>1, <2>2 DEF IInv, TypeOK
    <2>4. NoLostTxWakeup'
      BY <2>1 DEF NoLostTxWakeup
    <2>5. InOneQueueOnce' /\ NoEarlyTimeout' /\ TimersCoverWaits'
      BY <2>2 DEF IInv, InOneQueueOnce, NoEarlyTimeout, TimersCoverWaits, InCall
    <2>6. QED
      BY <2>3, <2>4, <2>5 DEF IInv
  <1>11. CASE BusErrorStatus
    <2>1. can' \in CanRegs(RxFrame, TxFrame) /\ can'.mbx = can.mbx /\ can'.rqcp = can.rqcp
      BY <1>0, <1>11, ErrorMailboxes DEF BusErrorStatus
    <2>2. UNCHANGED <<ready, txqueue, rdymsg, timer, blocked>>
      BY <1>11 DEF BusErrorStatus
    <2>3. QED
      BY <2>1, <2>2, MailboxesKeepIInv
  <1>12. CASE UNCHANGED vars
    BY <1>12 DEF vars, IInv, TypeOK, NoLostTxWakeup, InOneQueueOnce,
       NoEarlyTimeout, TimersCoverWaits, InCall
  <1>13. QED
    BY <1>3, <1>4, <1>5, <1>6, <1>7, <1>8, <1>9, <1>10, <1>11, <1>12
    DEF Next, Scheduler

(* The transmit path is type correct; in particular the mailboxes are      *)
(* never overfilled by can_lld_transmit.                                   *)
THEOREM TxTypeCorrect == SafeSpec => []TypeOK
  <1>1. IInv => TypeOK
    BY DEF IInv
  <1>2. QED
    BY InitIInv, NextIInv, <1>1, PTL DEF SafeSpec

(* No thread waits in txqueue with a mailbox free and no completion        *)
(* interrupt pending.                                                      *)
THEOREM TxWakeupSafe == SafeSpec => []NoLostTxWakeup
  <1>1. IInv => NoLostTxWakeup
    BY DEF IInv
  <1>2. QED
    BY InitIInv, NextIInv, <1>1, PTL DEF SafeSpec

(* The CAN interrupt and the timeout callback of chSchGoSleepTimeoutS keep *)
(* every thread in one list, once.                                         *)
THEOREM QueuesSafe == SafeSpec => []InOneQueueOnce
  <1>1. IInv => InOneQueueOnce
    BY DEF IInv
  <1>2. QED
    BY InitIInv, NextIInv, <1>1, PTL DEF SafeSpec

(* canTransmit gives a frame up only after a full timeout in txqueue. *)
THEOREM TimeoutSafe == SafeSpec => []NoEarlyTimeout
  <1>1. IInv => NoEarlyTimeout
    BY DEF IInv
  <1>2. QED
    BY InitIInv, NextIInv, <1>1, PTL DEF SafeSpec
=============================================================================
