----------------------------- MODULE CanRxProofs ----------------------------
(***************************************************************************)
(* Proofs about the receive path, for every depth of the FIFO, number of   *)
(* mailboxes, set of frames and set of jumper settings.                    *)
(***************************************************************************)
EXTENDS CanRx, SequenceTheorems, TLAPS

-----------------------------------------------------------------------------
(* What each operation of the CAN driver does to the registers.  The       *)
(* proofs about threads cite these lemmas and never open the operations.   *)

(* Overwriting the newest element keeps a sequence's type and length. *)
LEMMA OverwriteLast ==
  ASSUME NEW S, NEW s \in Seq(S), s # <<>>, NEW e \in S
  PROVE  /\ [s EXCEPT ![Len(s)] = e] \in Seq(S)
         /\ Len([s EXCEPT ![Len(s)] = e]) = Len(s)
         /\ [s EXCEPT ![Len(s)] = e] # <<>>
  OBVIOUS

(* Taking the oldest element of a sequence. *)
LEMMA TakeFirst ==
  ASSUME NEW S, NEW s \in Seq(S), s # <<>>
  PROVE  /\ Head(s) \in S
         /\ Tail(s) \in Seq(S)
         /\ Len(Tail(s)) = Len(s) - 1
         /\ Tail(s) = <<>> => Len(s) = 1
  <1>1. Head(s) \in S /\ Tail(s) \in Seq(S)
    OBVIOUS
  <1>2. Len(Tail(s)) = Len(s) - 1 /\ Len(s) \in Nat
    OBVIOUS
  <1>3. Tail(s) = <<>> => Len(Tail(s)) = 0
    BY <1>1, EmptySeq, ZenonT(30)
  <1>4. QED
    BY <1>1, <1>2, <1>3

(* The registers after reset (can_lld_init): empty and silent. *)
LEMMA InitRegs ==
  ASSUME NEW R, NEW T
  PROVE  /\ can_lld_init \in CanRegs(R, T)
         /\ can_lld_init.mbx = <<>>
         /\ can_lld_init.fifo = <<>>
         /\ ~can_lld_init.started
  BY DEF can_lld_init, CanRegs

(* can_lld_start enables the FIFO interrupt and touches no frame. *)
LEMMA StartRegs ==
  ASSUME NEW R, NEW T, NEW c \in CanRegs(R, T)
  PROVE  /\ can_lld_start(c) \in CanRegs(R, T)
         /\ can_lld_start(c).mbx = c.mbx
         /\ can_lld_start(c).rqcp = c.rqcp
         /\ can_lld_start(c).fifo = c.fifo
         /\ can_lld_start(c).fmpie0
         /\ can_lld_start(c).started
  BY ZenonT(30) DEF can_lld_start, CanRegs

(* can_lld_transmit adds one request and touches nothing else. *)
LEMMA TransmitRegs ==
  ASSUME NEW R, NEW T, NEW c \in CanRegs(R, T), NEW f \in T
  PROVE  /\ can_lld_transmit(c, f) \in CanRegs(R, T)
         /\ can_lld_transmit(c, f).mbx = Append(c.mbx, f)
         /\ Len(can_lld_transmit(c, f).mbx) = Len(c.mbx) + 1
         /\ can_lld_transmit(c, f).rqcp = c.rqcp
         /\ can_lld_transmit(c, f).fifo = c.fifo
         /\ can_lld_transmit(c, f).fmpie0 = c.fmpie0
         /\ can_lld_transmit(c, f).started = c.started
  <1>1. c.mbx \in Seq(T)
    BY DEF CanRegs
  <1>2. Append(c.mbx, f) \in Seq(T) /\ Len(Append(c.mbx, f)) = Len(c.mbx) + 1
    BY <1>1
  <1>3. QED
    BY <1>2, ZenonT(30) DEF can_lld_transmit, CanRegs

(* can_lld_receive takes the oldest frame; after the last one the          *)
(* interrupt is enabled, otherwise it stays as it was.                     *)
LEMMA ReceiveRegs ==
  ASSUME NEW R, NEW T, NEW c \in CanRegs(R, T), can_lld_is_rx_nonempty(c)
  PROVE  /\ can_lld_receive(c) \in CanRegs(R, T)
         /\ Head(c.fifo) \in R
         /\ can_lld_receive(c).mbx = c.mbx
         /\ can_lld_receive(c).rqcp = c.rqcp
         /\ can_lld_receive(c).fifo = Tail(c.fifo)
         /\ Len(can_lld_receive(c).fifo) = Len(c.fifo) - 1
         /\ can_lld_receive(c).fifo = <<>> => can_lld_receive(c).fmpie0
         /\ can_lld_receive(c).started = c.started
  <1> USE DEF can_lld_is_rx_nonempty
  <1>1. c.fifo \in Seq(R) /\ c.fifo # <<>>
    BY DEF CanRegs
  <1>2. /\ Tail(c.fifo) \in Seq(R)
        /\ Head(c.fifo) \in R
        /\ Len(Tail(c.fifo)) = Len(c.fifo) - 1
        /\ Tail(c.fifo) = <<>> => Len(c.fifo) = 1
    BY <1>1, TakeFirst
  <1> DEFINE enabled == c.fmpie0 \/ Len(c.fifo) = 1
             rest == Tail(c.fifo)
  <1>3. enabled \in BOOLEAN /\ (Len(c.fifo) = 1 => enabled)
    OBVIOUS
  <1>4. can_lld_receive(c) = [c EXCEPT !.fifo = rest, !.fmpie0 = enabled]
    BY DEF can_lld_receive
  <1> HIDE DEF enabled, rest
  <1>5. /\ can_lld_receive(c) \in CanRegs(R, T)
        /\ can_lld_receive(c).mbx = c.mbx
        /\ can_lld_receive(c).rqcp = c.rqcp
        /\ can_lld_receive(c).fifo = rest
        /\ can_lld_receive(c).fmpie0 = enabled
        /\ can_lld_receive(c).started = c.started
    BY <1>2, <1>3, <1>4, ZenonT(30) DEF CanRegs, rest
  <1>6. QED
    BY <1>2, <1>3, <1>5 DEF rest

(* The unified handler acknowledges every source, and disables the FIFO    *)
(* interrupt exactly when frames are stored.                               *)
LEMMA HandlerRegs ==
  ASSUME NEW R, NEW T, NEW c \in CanRegs(R, T)
  PROVE  /\ UnifiedHandler(c) \in CanRegs(R, T)
         /\ UnifiedHandler(c).mbx = c.mbx
         /\ UnifiedHandler(c).rqcp = FALSE
         /\ UnifiedHandler(c).fifo = c.fifo
         /\ c.fifo = <<>> => UnifiedHandler(c).fmpie0 = c.fmpie0
         /\ UnifiedHandler(c).started = c.started
  <1> DEFINE d == can_lld_tx_handler(c)
             e == can_lld_rx0_handler(d)
  <1>1. /\ d \in CanRegs(R, T)
        /\ d.mbx = c.mbx /\ d.rqcp = FALSE /\ d.fifo = c.fifo
        /\ d.fmpie0 = c.fmpie0 /\ d.started = c.started
    BY ZenonT(30) DEF can_lld_tx_handler, CanRegs
  <1> HIDE DEF d
  <1>2. /\ e \in CanRegs(R, T)
        /\ e.mbx = d.mbx /\ e.rqcp = d.rqcp /\ e.fifo = d.fifo
        /\ d.fifo = <<>> => e.fmpie0 = d.fmpie0
        /\ e.started = d.started
    BY <1>1, ZenonT(30) DEF can_lld_rx0_handler, RxBroadcasts, CanRegs
  <1> HIDE DEF e
  <1>3. /\ can_lld_sce_handler(e) \in CanRegs(R, T)
        /\ can_lld_sce_handler(e).mbx = e.mbx
        /\ can_lld_sce_handler(e).rqcp = e.rqcp
        /\ can_lld_sce_handler(e).fifo = e.fifo
        /\ can_lld_sce_handler(e).fmpie0 = e.fmpie0
        /\ can_lld_sce_handler(e).started = e.started
    BY <1>2, ZenonT(30) DEF can_lld_sce_handler, CanRegs
  <1>4. UnifiedHandler(c) = can_lld_sce_handler(e)
    BY DEF UnifiedHandler, d, e
  <1>5. QED
    BY <1>1, <1>2, <1>3, <1>4

(* A frame from the bus is stored, or replaces the newest one; the FIFO    *)
(* never exceeds its depth.                                                *)
LEMMA BusReceiveRegs ==
  ASSUME NEW R, NEW T, NEW c \in CanRegs(R, T), NEW f \in R,
         Len(c.fifo) <= FifoDepth
  PROVE  /\ BusReceive(c, f) \in CanRegs(R, T)
         /\ BusReceive(c, f).mbx = c.mbx
         /\ BusReceive(c, f).rqcp = c.rqcp
         /\ BusReceive(c, f).fifo # <<>>
         /\ Len(BusReceive(c, f).fifo) <= FifoDepth
         /\ BusReceive(c, f).fmpie0 = c.fmpie0
         /\ BusReceive(c, f).started = c.started
  <1>1. c.fifo \in Seq(R)
    BY DEF CanRegs
  <1>2. CASE Len(c.fifo) < FifoDepth
    <2>1. /\ Append(c.fifo, f) \in Seq(R)
          /\ Append(c.fifo, f) # <<>>
          /\ Len(Append(c.fifo, f)) <= FifoDepth
      <3>1. /\ Append(c.fifo, f) \in Seq(R) /\ Append(c.fifo, f) # <<>>
            /\ Len(Append(c.fifo, f)) = Len(c.fifo) + 1 /\ Len(c.fifo) \in Nat
        BY <1>1
      <3>2. FifoDepth \in Nat
        BY CanLldAssumption
      <3>3. QED
        BY <1>2, <3>1, <3>2
    <2>2. BusReceive(c, f) = [c EXCEPT !.fifo = Append(c.fifo, f)]
      BY <1>2 DEF BusReceive
    <2>3. QED
      BY <1>2, <2>1, <2>2, ZenonT(30) DEF CanRegs
  <1>3. CASE ~(Len(c.fifo) < FifoDepth)
    <2> DEFINE s == [c.fifo EXCEPT ![Len(c.fifo)] = f]
    <2>1. c.fifo # <<>> /\ Len(c.fifo) = FifoDepth
      BY <1>1, <1>3, CanLldAssumption
    <2>2. s \in Seq(R) /\ Len(s) = FifoDepth /\ s # <<>>
      BY <1>1, <2>1, OverwriteLast
    <2>3. BusReceive(c, f) = [c EXCEPT !.fifo = s, !.fovr = TRUE]
      BY <1>3 DEF BusReceive, CanRegs
    <2> HIDE DEF s
    <2>4. /\ BusReceive(c, f) \in CanRegs(R, T)
          /\ BusReceive(c, f).mbx = c.mbx
          /\ BusReceive(c, f).rqcp = c.rqcp
          /\ BusReceive(c, f).fifo = s
          /\ BusReceive(c, f).fmpie0 = c.fmpie0
          /\ BusReceive(c, f).started = c.started
      BY <2>2, <2>3, ZenonT(30) DEF CanRegs
    <2>5. QED
      BY <1>3, <2>2, <2>4, CanLldAssumption DEF s
  <1>4. QED
    BY <1>2, <1>3

(* Which frame is replaced, and that the others keep their order. *)
LEMMA BusReceiveFifo ==
  ASSUME NEW R, NEW T, NEW c \in CanRegs(R, T), NEW f
  PROVE  BusReceive(c, f).fifo = IF Len(c.fifo) < FifoDepth
                                 THEN Append(c.fifo, f)
                                 ELSE [c.fifo EXCEPT ![Len(c.fifo)] = f]
  BY DEF BusReceive, CanRegs

(* A finished attempt frees the oldest request's mailbox and flags it. *)
LEMMA BusTransmittedRegs ==
  ASSUME NEW R, NEW T, NEW c \in CanRegs(R, T), c.mbx # <<>>
  PROVE  /\ BusTransmitted(c) \in CanRegs(R, T)
         /\ BusTransmitted(c).mbx = Tail(c.mbx)
         /\ Len(BusTransmitted(c).mbx) = Len(c.mbx) - 1
         /\ BusTransmitted(c).rqcp
         /\ BusTransmitted(c).fifo = c.fifo
         /\ BusTransmitted(c).fmpie0 = c.fmpie0
         /\ BusTransmitted(c).started = c.started
  <1>1. c.mbx \in Seq(T)
    BY DEF CanRegs
  <1>2. Tail(c.mbx) \in Seq(T) /\ Len(Tail(c.mbx)) = Len(c.mbx) - 1
    BY <1>1, TakeFirst
  <1>3. QED
    BY <1>2, ZenonT(30) DEF BusTransmitted, CanRegs

(* An error status change only raises its own flag. *)
LEMMA BusErrorRegs ==
  ASSUME NEW R, NEW T, NEW c \in CanRegs(R, T)
  PROVE  /\ BusError(c) \in CanRegs(R, T)
         /\ BusError(c).mbx = c.mbx
         /\ BusError(c).rqcp = c.rqcp
         /\ BusError(c).fifo = c.fifo
         /\ BusError(c).fmpie0 = c.fmpie0
         /\ BusError(c).started = c.started
  BY ZenonT(30) DEF BusError, CanRegs

-----------------------------------------------------------------------------
(* The addresses, the dispatcher and the receive path. *)

(* Boards with different jumper settings share a bus: none of the          *)
(* identifiers one of them transmits on or listens to is another's         *)
(* (init_can_operating_parameters, ANALOGX_CAN_API_RANGE).                 *)
THEOREM BoardsDisjoint ==
  ASSUME NEW j \in JumperSettings, NEW k \in JumperSettings, j # k
  PROVE  ApiIds(BaseAddress(j)) \cap ApiIds(BaseAddress(k)) = {}
  <1>1. j.adr1 # k.adr1 \/ j.adr2 # k.adr2
    BY DEF JumperSettings
  <1>2. j.adr1 \in BOOLEAN /\ j.adr2 \in BOOLEAN /\ k.adr1 \in BOOLEAN /\ k.adr2 \in BOOLEAN
    BY DEF JumperSettings
  <1>3. BaseOffset(j) \in 0..3 /\ BaseOffset(k) \in 0..3 /\ BaseOffset(j) # BaseOffset(k)
    BY <1>1, <1>2 DEF BaseOffset
  <1>4. /\ \A id \in ApiIds(BaseAddress(j)) :
             \E n \in 0..20 : id = BaseAddress(j) + n
        /\ \A id \in ApiIds(BaseAddress(k)) :
             \E n \in 0..20 : id = BaseAddress(k) + n
    BY SMT DEF ApiIds, API_ANNOUNCEMENT, API_STATS, API_SET_CONFIG_GROUP_1, API_BROADCAST_SENSORS
  <1>5. \A m, n \in 0..20 : BaseAddress(j) + m # BaseAddress(k) + n
    BY <1>3, SMT DEF BaseAddress, ANALOGX_CAN_BASE_ID, ANALOGX_CAN_API_RANGE
  <1>6. QED
    BY <1>4, <1>5

(* What a message leaves in the settings is again a setting: an 8-bit rate *)
(* and a flag that no message clears (dispatch_can_rx).                    *)
LEMMA DispatchType ==
  ASSUME NEW b, NEW f \in CANRxFrame, NEW s \in Settings
  PROVE  /\ dispatch_can_rx(b, f, s) \in Settings
         /\ s.provisioned => dispatch_can_rx(b, f, s).provisioned
  BY DEF dispatch_can_rx, api_set_config_group_1, Settings, CANRxFrame, UInt8

(* The initial settings and the empty message are well formed. *)
LEMMA InitialValues ==
  /\ InitialSettings \in Settings
  /\ ~InitialSettings.provisioned
  /\ NoFrame \in CANRxFrame
  <1>1. ANALOGX_DEFAULT_SAMPLE_RATE \in UInt8
    BY SMT DEF ANALOGX_DEFAULT_SAMPLE_RATE, UInt8
  <1>2. 0 \in Nat /\ 0 \in 0..8 /\ 0 \in UInt8
    BY SMT DEF UInt8
  <1>3. QED
    BY <1>1, <1>2 DEF InitialSettings, Settings, NoFrame, CANRxFrame

(* The state main() starts from satisfies the inductive invariant. *)
LEMMA InitIInv == Init => IInv
  <1> SUFFICES ASSUME Init PROVE IInv
    OBVIOUS
  <1>1. /\ can \in CanRegs(CANRxFrame, TxFrame)
        /\ can.mbx = <<>> /\ can.fifo = <<>> /\ ~can.started
    BY InitRegs DEF Init
  <1>2. Len(can.mbx) = 0 /\ Len(can.fifo) = 0
    BY <1>1, EmptySeq
  <1>3. cfg \in Settings /\ ~cfg.provisioned /\ rx_msg \in CANRxFrame
    BY InitialValues DEF Init
  <1>4. TypeOK
    <2>1. base \in {ANALOGX_CAN_BASE_ID} \cup {BaseAddress(j) : j \in JumperSettings}
      BY DEF Init
    <2>2. wk \in WorkerPlace
      BY DEF Init, WorkerPlace
    <2>3. Len(can.mbx) <= CAN_TX_MAILBOXES /\ Len(can.fifo) <= FifoDepth
      BY <1>2, CanLldAssumption
    <2>4. listening \in BOOLEAN /\ epending \in BOOLEAN /\ served \in BOOLEAN
      BY ZenonT(30) DEF Init
    <2>5. QED
      BY <1>1, <1>3, <2>1, <2>2, <2>3, <2>4 DEF TypeOK
  <1>5. QED
    BY <1>1, <1>3, <1>4 DEF Init, IInv, NoLostRxWakeup, NeverSleepsOnSignal,
       AnnouncesOnlyUnprovisioned, StartupOrder, ArmedWhenEmpty

(* Every step of main, the worker, the interrupt and the bus keeps it. *)
LEMMA NextIInv == IInv /\ [Next]_vars => IInv'
  <1> SUFFICES ASSUME IInv, [Next]_vars PROVE IInv'
    OBVIOUS
  <1> USE DEF IInv, TypeOK, NoLostRxWakeup, NeverSleepsOnSignal,
              AnnouncesOnlyUnprovisioned, StartupOrder, ArmedWhenEmpty,
              can_lld_is_tx_empty, can_lld_is_rx_nonempty, WorkerPlace
  <1>0. /\ can \in CanRegs(CANRxFrame, TxFrame)
        /\ Len(can.mbx) \in Nat /\ Len(can.fifo) \in Nat
        /\ CAN_TX_MAILBOXES \in Nat /\ FifoDepth \in Nat
        /\ can.fifo \in Seq(CANRxFrame)
        /\ "announcement" \in TxFrame /\ "other" \in TxFrame
    BY CanLldAssumption DEF CanRegs, TxFrame
  <1>1. CASE system_can_init
    <2>1. PICK j \in Jumpers : base' = BaseAddress(j)
      BY <1>1 DEF system_can_init
    <2>2. base' \in {BaseAddress(jj) : jj \in JumperSettings}
      BY <2>1, CanRxAssumption
    <2>3. QED
      BY <1>0, <1>1, <2>2, StartRegs DEF system_can_init
  <1>2. CASE CreateWorker
    BY <1>0, <1>2 DEF CreateWorker
  <1>3. CASE RegisterListener
    BY <1>0, <1>3 DEF RegisterListener, Goto
  <1>4. CASE StartupDelayOver
    BY <1>0, <1>4 DEF StartupDelayOver, Goto
  <1>5. CASE LoadAnnouncement
    BY <1>0, <1>5, TransmitRegs DEF LoadAnnouncement, Goto
  <1>6. CASE QueueForMailbox
    BY <1>0, <1>6 DEF QueueForMailbox, Goto
  <1>7. CASE TransmitTimeout
    BY <1>0, <1>7 DEF TransmitTimeout, Goto
  <1>8. CASE WaitEvent
    BY <1>0, <1>8, ZenonT(30) DEF WaitEvent
  <1>9. CASE WaitTimer
    BY <1>0, <1>9 DEF WaitTimer, Goto
  <1>10. CASE WaitReturnsEvent
    BY <1>0, <1>10, ZenonT(30) DEF WaitReturnsEvent, Goto
  <1>11. CASE WaitReturnsTimeout
    BY <1>0, <1>11 DEF WaitReturnsTimeout
  <1>12. CASE Receive
    BY <1>0, <1>12, ReceiveRegs DEF Receive, Goto
  <1>13. CASE ReceiveNothing
    BY <1>0, <1>13 DEF ReceiveNothing, Goto
  <1>14. CASE Dispatch
    BY <1>0, <1>14, InitialValues, DispatchType DEF Dispatch, Goto
  <1>15. CASE CanIrq
    <2>1. /\ can' \in CanRegs(CANRxFrame, TxFrame)
          /\ can'.mbx = can.mbx /\ can'.fifo = can.fifo
          /\ can'.started = can.started
          /\ can.fifo = <<>> => can'.fmpie0 = can.fmpie0
      BY <1>0, <1>15, HandlerRegs, ZenonT(30) DEF CanIrq
    <2>2. /\ epending' = (epending \/ (listening /\ can.fifo # <<>>))
          /\ wk' \in WorkerPlace \ {"txwait"}
          /\ wk' = "evtwait" => wk = "evtwait" /\ ~(listening /\ can.fifo # <<>>)
          /\ wk' = wk \/ (wk = "txwait" /\ wk' = "transmit")
                     \/ (wk = "evtwait" /\ wk' = "evtready")
      BY <1>15 DEF CanIrq, RxBroadcasts
    <2>3. UNCHANGED <<base, cfg, rx_msg, listening, served>>
      BY <1>15 DEF CanIrq
    <2>4. TypeOK'
      BY <1>0, <2>1, <2>2, <2>3
    <2>5. NoLostRxWakeup' /\ ArmedWhenEmpty'
      BY <2>1, <2>2, <2>3
    <2>6. NeverSleepsOnSignal' /\ AnnouncesOnlyUnprovisioned' /\ StartupOrder'
      BY <2>1, <2>2, <2>3
    <2>7. QED
      BY <2>4, <2>5, <2>6
  <1>16. ASSUME NEW f \in RxFrame, FrameArrives(f) PROVE IInv'
    <2>1. f \in CANRxFrame
      BY CanRxAssumption
    <2>2. can' = BusReceive(can, f) /\ Len(can.fifo) <= FifoDepth
      BY <1>16 DEF FrameArrives
    <2> DEFINE d == BusReceive(can, f)
    <2>3. /\ d \in CanRegs(CANRxFrame, TxFrame)
          /\ d.mbx = can.mbx /\ d.rqcp = can.rqcp
          /\ d.fifo # <<>> /\ Len(d.fifo) <= FifoDepth
          /\ d.fmpie0 = can.fmpie0 /\ d.started = can.started
      <3> HIDE DEF IInv, TypeOK
      <3> QED
        BY <1>0, <2>1, <2>2, BusReceiveRegs
    <2> HIDE DEF d
    <2>4. QED
      BY <1>0, <1>16, <2>3 DEF FrameArrives, d
  <1>17. CASE TransmissionEnds
    BY <1>0, <1>17, BusTransmittedRegs DEF TransmissionEnds
  <1>18. CASE BusErrorStatus
    BY <1>0, <1>18, BusErrorRegs DEF BusErrorStatus
  <1>19. CASE OtherTransmit
    BY <1>0, <1>19, TransmitRegs DEF OtherTransmit
  <1>20. CASE UNCHANGED vars
    BY <1>20 DEF vars
  <1>21. QED
    BY <1>1, <1>2, <1>3, <1>4, <1>5, <1>6, <1>7, <1>8, <1>9, <1>10, <1>11,
       <1>12, <1>13, <1>14, <1>15, <1>16, <1>17, <1>18, <1>19, <1>20
    DEF Next, Main, Worker, Environment

(* The receive path is type correct: in particular the FIFO and the        *)
(* mailboxes never exceed the cell's capacity and the sample rate is an    *)
(* 8-bit value.                                                            *)
THEOREM TypeCorrect == SafeSpec => []TypeOK
  <1>1. IInv => TypeOK
    BY DEF IInv
  <1>2. QED
    BY InitIInv, NextIInv, <1>1, PTL DEF SafeSpec

(* After its first event the worker is never asleep with a frame in the    *)
(* FIFO and the FIFO's interrupt disabled.                                 *)
THEOREM RxWakeupSafe == SafeSpec => []NoLostRxWakeup
  <1>1. IInv => NoLostRxWakeup
    BY DEF IInv
  <1>2. QED
    BY InitIInv, NextIInv, <1>1, PTL DEF SafeSpec

(* The worker never sleeps on a pending event, nor on txqueue with a       *)
(* mailbox free and no completion interrupt to wake it.                    *)
THEOREM SleepSafe == SafeSpec => []NeverSleepsOnSignal
  <1>1. IInv => NeverSleepsOnSignal
    BY DEF IInv
  <1>2. QED
    BY InitIInv, NextIInv, <1>1, PTL DEF SafeSpec

(* A provisioned board is never announcing itself. *)
THEOREM AnnounceSafe == SafeSpec => []AnnouncesOnlyUnprovisioned
  <1>1. IInv => AnnouncesOnlyUnprovisioned
    BY DEF IInv
  <1>2. QED
    BY InitIInv, NextIInv, <1>1, PTL DEF SafeSpec

-----------------------------------------------------------------------------
(* The frame in rx_msg in front of those in the FIFO. *)
LEMMA InFront ==
  ASSUME NEW S, NEW s \in Seq(S), NEW m \in S
  PROVE  /\ <<m>> \o s \in Seq(S)
         /\ <<m>> \o s # <<>>
         /\ Len(<<m>> \o s) = Len(s) + 1
         /\ Head(<<m>> \o s) = m
         /\ Tail(<<m>> \o s) = s
  OBVIOUS

(* A frame that arrives behind it. *)
LEMMA ArrivesBehind ==
  ASSUME NEW S, NEW s \in Seq(S), NEW m \in S, NEW f \in S
  PROVE  <<m>> \o Append(s, f) = Append(<<m>> \o s, f)
  OBVIOUS

(* A frame that overwrites the newest one behind it. *)
LEMMA OverwritesBehind ==
  ASSUME NEW S, NEW s \in Seq(S), s # <<>>, NEW m \in S, NEW f \in S
  PROVE  <<m>> \o [s EXCEPT ![Len(s)] = f]
           = [<<m>> \o s EXCEPT ![Len(<<m>> \o s)] = f]
  <1> DEFINE t == [s EXCEPT ![Len(s)] = f]
             u == <<m>> \o s
             v == [u EXCEPT ![Len(u)] = f]
  <1>1. /\ t \in Seq(S) /\ Len(t) = Len(s) /\ Len(s) \in Nat \ {0}
        /\ \A i \in 1..Len(s) : t[i] = IF i = Len(s) THEN f ELSE s[i]
    BY OverwriteLast
  <1>2. /\ u \in Seq(S) /\ Len(u) = Len(s) + 1
        /\ \A i \in 1..Len(u) : u[i] = IF i = 1 THEN m ELSE s[i - 1]
    BY <1>1
  <1>3. /\ <<m>> \o t \in Seq(S) /\ Len(<<m>> \o t) = Len(s) + 1
        /\ \A i \in 1..(Len(s) + 1) :
             (<<m>> \o t)[i] = IF i = 1 THEN m ELSE t[i - 1]
    <2> HIDE DEF t
    <2> QED
      BY <1>1
  <1>4. /\ v \in Seq(S) /\ Len(v) = Len(u)
        /\ \A i \in 1..Len(u) : v[i] = IF i = Len(u) THEN f ELSE u[i]
    <2> HIDE DEF u
    <2> QED
      BY <1>1, <1>2
  <1> DEFINE w == <<m>> \o t
  <1> HIDE DEF t, u, v, w
  <1>5. ASSUME NEW i \in 1..(Len(s) + 1) PROVE w[i] = v[i]
    <2>1. w[i] = IF i = 1 THEN m ELSE t[i - 1]
      BY <1>3 DEF w
    <2>2. v[i] = IF i = Len(s) + 1 THEN f ELSE u[i]
      BY <1>2, <1>4
    <2>3. u[i] = IF i = 1 THEN m ELSE s[i - 1]
      BY <1>2
    <2>4. i # 1 => t[i - 1] = IF i - 1 = Len(s) THEN f ELSE s[i - 1]
      BY <1>1
    <2>5. QED
      BY <1>1, <2>1, <2>2, <2>3, <2>4
  <1>6. w = v
    <2>1. w \in Seq(S) /\ Len(w) = Len(s) + 1
      BY <1>3 DEF w
    <2>2. v \in Seq(S) /\ Len(v) = Len(s) + 1
      BY <1>2, <1>4
    <2>3. QED
      BY <1>5, <2>1, <2>2, SeqEqual
  <1>7. QED
    BY <1>6 DEF t, u, v, w

(* A list is its head followed by its tail. *)
LEMMA HeadInFront ==
  ASSUME NEW S, NEW s \in Seq(S), s # <<>>
  PROVE  <<Head(s)>> \o Tail(s) = s
  OBVIOUS

(* No frame in hand adds nothing. *)
LEMMA NothingInFront ==
  ASSUME NEW S, NEW s \in Seq(S)
  PROVE  <<>> \o s = s
  OBVIOUS

(* Every step of the receive path is one of the inbox or leaves it alone. *)
LEMMA StepOfInbox == IInv /\ [Next]_vars => [Inbox!Next]_(Inbox!vars)
  <1> SUFFICES ASSUME IInv, [Next]_vars PROVE [Inbox!Next]_(Inbox!vars)
    OBVIOUS
  <1>0. /\ can \in CanRegs(CANRxFrame, TxFrame)
        /\ can.fifo \in Seq(CANRxFrame) /\ rx_msg \in CANRxFrame
        /\ Len(can.fifo) \in Nat /\ Len(can.fifo) <= FifoDepth /\ FifoDepth \in Nat \ {0}
        /\ "announcement" \in TxFrame /\ "other" \in TxFrame
    BY CanLldAssumption DEF IInv, TypeOK, CanRegs, TxFrame
  <1>1. Pending = IF wk = "dispatch" THEN <<rx_msg>> \o can.fifo ELSE can.fifo
    BY <1>0, NothingInFront, ZenonT(30) DEF Pending
  <1>2. ASSUME can'.fifo = can.fifo, can'.started = can.started, rx_msg' = rx_msg,
               (wk' = "dispatch") <=> (wk = "dispatch"), UNCHANGED <<base, cfg>>
        PROVE  UNCHANGED Inbox!vars
    BY <1>2, ZenonT(30) DEF Inbox!vars, Pending
  <1>3. CASE system_can_init
    <2>1. /\ ~can.started /\ can'.started /\ can'.fifo = can.fifo
          /\ UNCHANGED <<cfg, wk, rx_msg>>
      BY <1>0, <1>3, StartRegs DEF system_can_init
    <2>2. Pending' = Pending
      BY <2>1 DEF Pending
    <2>3. PICK j \in JumperSettings : base' = BaseAddress(j)
      BY <1>3, CanRxAssumption DEF system_can_init
    <2>4. j \in Inbox!JumperSettings /\ base' = Inbox!BaseAddress(j)
      BY <2>3 DEF Inbox!JumperSettings, Inbox!BaseAddress, Inbox!BaseOffset,
                  Inbox!ANALOGX_CAN_BASE_ID, Inbox!ANALOGX_CAN_API_RANGE,
                  JumperSettings, BaseAddress, BaseOffset, ANALOGX_CAN_BASE_ID,
                  ANALOGX_CAN_API_RANGE
    <2>5. Inbox!Open
      BY <2>1, <2>2, <2>4 DEF Inbox!Open
    <2>6. QED
      BY <2>5 DEF Inbox!Next
  <1>4. CASE Receive
    <2>1. /\ wk = "receive" /\ wk' = "dispatch" /\ rx_msg' = Head(can.fifo)
          /\ can.fifo # <<>> /\ can'.fifo = Tail(can.fifo) /\ can'.started = can.started
          /\ UNCHANGED <<base, cfg>>
      BY <1>0, <1>4, ReceiveRegs DEF Receive, Goto, can_lld_is_rx_nonempty
    <2>2. Pending' = <<Head(can.fifo)>> \o Tail(can.fifo)
      BY <2>1 DEF Pending
    <2>3. Pending' = Pending
      BY <1>0, <1>1, <2>1, <2>2, HeadInFront
    <2>4. QED
      BY <2>1, <2>3 DEF Inbox!vars
  <1>5. CASE Dispatch
    <2>1. /\ wk = "dispatch" /\ wk' = "receive" /\ cfg' = dispatch_can_rx(base, rx_msg, cfg)
          /\ UNCHANGED <<can, base>>
      BY <1>5 DEF Dispatch, Goto
    <2>2. Pending = <<rx_msg>> \o can.fifo /\ Pending' = <<>> \o can.fifo
      BY <1>1, <2>1 DEF Pending
    <2>3. Pending # <<>> /\ Head(Pending) = rx_msg /\ Pending' = Tail(Pending)
      BY <1>0, <2>2, InFront, NothingInFront
    <2>4. cfg' = Inbox!dispatch_can_rx(base, Head(Pending), cfg)
      BY <2>1, <2>3, ZenonT(30)
      DEF dispatch_can_rx, IsConfigGroup1, api_set_config_group_1, API_SET_CONFIG_GROUP_1,
          Inbox!dispatch_can_rx, Inbox!IsConfigGroup1, Inbox!api_set_config_group_1,
          Inbox!API_SET_CONFIG_GROUP_1
    <2>5. Inbox!Handle
      BY <2>1, <2>3, <2>4 DEF Inbox!Handle
    <2>6. QED
      BY <2>5 DEF Inbox!Next
  <1>6. ASSUME NEW f \in RxFrame, FrameArrives(f) PROVE Inbox!Next
    <2>1. f \in CANRxFrame
      BY CanRxAssumption
    <2>2. /\ can.started /\ can'.started = can.started
          /\ can'.fifo = IF Len(can.fifo) < FifoDepth
                         THEN Append(can.fifo, f)
                         ELSE [can.fifo EXCEPT ![Len(can.fifo)] = f]
          /\ UNCHANGED <<base, cfg, wk, rx_msg>>
      <3>1. /\ can.started /\ can' = BusReceive(can, f)
            /\ UNCHANGED <<base, cfg, wk, rx_msg>>
        BY <1>6 DEF FrameArrives
      <3>2. BusReceive(can, f).started = can.started
        BY <1>0, <2>1, BusReceiveRegs
      <3>3. BusReceive(can, f).fifo = IF Len(can.fifo) < FifoDepth
                                      THEN Append(can.fifo, f)
                                      ELSE [can.fifo EXCEPT ![Len(can.fifo)] = f]
        BY <1>0, BusReceiveFifo
      <3>4. QED
        BY <3>1, <3>2, <3>3
    <2>3. Pending' = IF wk = "dispatch" THEN <<rx_msg>> \o can'.fifo ELSE <<>> \o can'.fifo
      BY <2>2, ZenonT(30) DEF Pending
    <2>4. Len(Pending) = IF wk = "dispatch" THEN Len(can.fifo) + 1 ELSE Len(can.fifo)
      BY <1>0, <1>1, InFront
    <2>5. CASE Len(can.fifo) < FifoDepth
      <3>1. Append(can.fifo, f) \in Seq(CANRxFrame)
        BY <1>0, <2>1
      <3>2. Pending' = Append(Pending, f)
        <4>1. can'.fifo = Append(can.fifo, f)
          BY <2>2, <2>5
        <4>2. CASE wk = "dispatch"
          BY <1>0, <1>1, <2>1, <2>3, <4>1, <4>2, ArrivesBehind
        <4>3. CASE wk # "dispatch"
          BY <1>1, <2>3, <3>1, <4>1, <4>3, NothingInFront
        <4>4. QED
          BY <4>2, <4>3
      <3>3. Inbox!Arrive(f)
        BY <1>0, <2>2, <2>4, <2>5, <3>2 DEF Inbox!Arrive
      <3>4. QED
        BY <3>3 DEF Inbox!Next
    <2>6. CASE ~(Len(can.fifo) < FifoDepth)
      <3>1. can.fifo # <<>>
        BY <1>0, <2>6, EmptySeq
      <3>2. [can.fifo EXCEPT ![Len(can.fifo)] = f] \in Seq(CANRxFrame)
        BY <1>0, <2>1, <3>1, OverwriteLast
      <3>3. Pending' = [Pending EXCEPT ![Len(Pending)] = f]
        <4>1. CASE wk = "dispatch"
          BY <1>0, <1>1, <2>1, <2>2, <2>3, <2>6, <3>1, <4>1, OverwritesBehind
        <4>2. CASE wk # "dispatch"
          BY <1>0, <1>1, <2>2, <2>3, <2>6, <3>2, <4>2, NothingInFront
        <4>3. QED
          BY <4>1, <4>2
      <3>4. Inbox!Overrun(f)
        BY <1>0, <2>2, <2>4, <2>6, <3>3 DEF Inbox!Overrun
      <3>5. QED
        BY <3>4 DEF Inbox!Next
    <2>7. QED
      BY <2>5, <2>6
  <1>7. CASE LoadAnnouncement \/ OtherTransmit
    BY <1>0, <1>2, <1>7, TransmitRegs DEF LoadAnnouncement, OtherTransmit, Goto
  <1>8. CASE CanIrq
    <2>1. can'.fifo = can.fifo /\ can'.started = can.started
      BY <1>0, <1>8, HandlerRegs, ZenonT(30) DEF CanIrq
    <2>2. (wk' = "dispatch" <=> wk = "dispatch") /\ UNCHANGED <<base, cfg, rx_msg>>
      BY <1>8 DEF CanIrq
    <2>3. QED
      BY <1>2, <2>1, <2>2
  <1>9. CASE TransmissionEnds
    BY <1>0, <1>2, <1>9, BusTransmittedRegs DEF TransmissionEnds
  <1>10. CASE BusErrorStatus
    BY <1>0, <1>2, <1>10, BusErrorRegs, ZenonT(30) DEF BusErrorStatus
  <1>11. CASE \/ CreateWorker \/ RegisterListener \/ StartupDelayOver \/ QueueForMailbox
              \/ TransmitTimeout \/ WaitEvent \/ WaitTimer \/ WaitReturnsEvent
              \/ WaitReturnsTimeout \/ ReceiveNothing
    BY <1>2, <1>11
    DEF CreateWorker, RegisterListener, StartupDelayOver, QueueForMailbox, TransmitTimeout,
        WaitEvent, WaitTimer, WaitReturnsEvent, WaitReturnsTimeout, ReceiveNothing, Goto
  <1>12. CASE UNCHANGED vars
    BY <1>2, <1>12 DEF vars
  <1>13. QED
    BY <1>3, <1>4, <1>5, <1>6, <1>7, <1>8, <1>9, <1>10, <1>11, <1>12
    DEF Next, Main, Worker, Environment

(* The receive path implements the inbox, as far as safety goes: for every *)
(* depth of the FIFO and every set of frames, what can_worker dispatches   *)
(* is what arrived and was not overwritten, once each and in order.        *)
THEOREM InboxImplemented == SafeSpec => HandlesInOrder
  <1>1. Init => Inbox!Init
    <2> SUFFICES ASSUME Init PROVE Inbox!Init
      OBVIOUS
    <2>1. can.fifo = <<>> /\ ~can.started /\ can.started \in BOOLEAN
      BY DEF Init, can_lld_init
    <2>2. Pending = <<>>
      BY <2>1, NothingInFront DEF Init, Pending
    <2>3. QED
      BY <2>1, <2>2
      DEF Init, Inbox!Init, InitialSettings, Inbox!InitialSettings, ANALOGX_CAN_BASE_ID,
          Inbox!ANALOGX_CAN_BASE_ID, ANALOGX_DEFAULT_SAMPLE_RATE,
          Inbox!ANALOGX_DEFAULT_SAMPLE_RATE
  <1>2. QED
    BY <1>1, InitIInv, NextIInv, StepOfInbox, PTL DEF SafeSpec, HandlesInOrder, Inbox!SafeSpec
=============================================================================
