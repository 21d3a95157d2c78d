------------------------------- MODULE CanLld -------------------------------
(***************************************************************************)
(* The bxCAN low-level driver of ChibiOS (os/hal/.../CANv1/can_lld.c) and  *)
(* the part of the bxCAN cell it drives, as operators on one record of     *)
(* registers:                                                              *)
(*                                                                         *)
(*   started  the cell has left initialisation mode (MCR.INRQ cleared)     *)
(*   mbx      pending transmit requests, oldest first (MCR.TXFP is set)    *)
(*   rqcp     some TSR.RQCPx is set: a request completed, not yet serviced *)
(*   fifo     receive FIFO 0, oldest first (RF0R.FMP0 = Len(fifo))         *)
(*   fovr     RF0R.FOVR0, a frame was lost to a full FIFO                  *)
(*   fmpie0   IER.FMPIE0, "FIFO 0 not empty" may raise the interrupt       *)
(*   erri     MSR.ERRI, an error status change not yet serviced            *)
(*                                                                         *)
(* FIFO 1 is not modelled: the default filter bank installed by            *)
(* can_lld_init assigns every frame to FIFO 0.  TMEIE, FOVIE0 and ERRIE    *)
(* are set by can_lld_start and never cleared, so they are implicit.       *)
(***************************************************************************)
EXTENDS Naturals, Sequences

CONSTANTS
  CAN_TX_MAILBOXES,   \* transmit mailboxes (3 in the STM32 cell)
  FifoDepth           \* depth of receive FIFO 0 (3 in the STM32 cell)

ASSUME CanLldAssumption ==
  /\ CAN_TX_MAILBOXES \in Nat \ {0}
  /\ FifoDepth \in Nat \ {0}

CanRegs(RxFrame, TxFrame) ==
  [started : BOOLEAN, mbx : Seq(TxFrame), rqcp : BOOLEAN, fifo : Seq(RxFrame),
   fovr : BOOLEAN, fmpie0 : BOOLEAN, erri : BOOLEAN]

(* Reset values: interrupts off, everything empty. *)
can_lld_init ==
  [started |-> FALSE, mbx |-> <<>>, rqcp |-> FALSE, fifo |-> <<>>,
   fovr |-> FALSE, fmpie0 |-> FALSE, erri |-> FALSE]

can_lld_start(c) == [c EXCEPT !.started = TRUE, !.fmpie0 = TRUE]

can_lld_is_tx_empty(c) == Len(c.mbx) < CAN_TX_MAILBOXES

can_lld_transmit(c, frame) == [c EXCEPT !.mbx = Append(@, frame)]

can_lld_is_rx_nonempty(c) == c.fifo # <<>>

(* Releases the oldest frame of the FIFO; the interrupt is re-enabled only *)
(* when that was the last one.                                             *)
can_lld_receive(c) ==
  [c EXCEPT !.fifo = Tail(@), !.fmpie0 = @ \/ Len(c.fifo) = 1]

-----------------------------------------------------------------------------
(* The handlers.  Waking threads and signalling listeners is left to the   *)
(* modules that have threads: the TX handler always dequeues all waiters   *)
(* of txqueue, the RX handler broadcasts rxfull_event when RxBroadcasts.   *)

can_lld_tx_handler(c) == [c EXCEPT !.rqcp = FALSE]

(* Mutant of RxBroadcasts: the handler serves its own interrupt only, as   *)
(* with one vector per source.                                             *)
RxBroadcastsIfEnabled(c) == c.fmpie0 /\ c.fifo # <<>>

(* Looks at FMP0, never at FMPIE0. *)
RxBroadcasts(c) == c.fifo # <<>>

can_lld_rx0_handler(c) ==
  [c EXCEPT !.fmpie0 = @ /\ ~RxBroadcasts(c), !.fovr = FALSE]

can_lld_sce_handler(c) == [c EXCEPT !.erri = FALSE]

(* STM32_CAN1_UNIFIED_HANDLER: one vector runs all the handlers. *)
UnifiedHandler(c) ==
  can_lld_sce_handler(can_lld_rx0_handler(can_lld_tx_handler(c)))

-----------------------------------------------------------------------------
(* The cell itself, as the driver relies on it. *)

IrqLine(c) ==
  \/ c.rqcp
  \/ c.fmpie0 /\ c.fifo # <<>>
  \/ c.fovr
  \/ c.erri

(* A frame accepted by the filter.  MCR.RFLM is clear: when the FIFO is    *)
(* full the newest stored frame is overwritten.                            *)
BusReceive(c, frame) ==
  IF Len(c.fifo) < FifoDepth
  THEN [c EXCEPT !.fifo = Append(@, frame)]
  ELSE [c EXCEPT !.fifo[Len(c.fifo)] = frame, !.fovr = TRUE]

(* MCR.NART: the oldest request ends after one attempt, whatever its       *)
(* outcome (sent, arbitration lost, transmission error).                   *)
BusTransmitted(c) == [c EXCEPT !.mbx = Tail(@), !.rqcp = TRUE]

BusError(c) == [c EXCEPT !.erri = TRUE]
=============================================================================
