------------------------------- MODULE CanTx --------------------------------
(***************************************************************************)
(* The transmit path: canTransmit (os/hal/src/can.c) as main, can_rx and   *)
(* adc_worker call it, the threads queue it waits on, the kernel's ready   *)
(* list and timeout timers, and the CAN interrupt (CanLld).                *)
(*                                                                         *)
(* The three threads have the same priority and there are no time slices:  *)
(* the thread at the head of the ready list runs until it blocks, threads  *)
(* that become ready go to its end, and interrupts do not change who runs. *)
(* canTransmit works under the kernel lock, so one action is one stretch   *)
(* of it up to the next point where the thread blocks or returns.          *)
(*                                                                         *)
(* CAN_SLEEP is never entered (canSleep is not called), so canTransmit     *)
(* waits for a mailbox only.  Receive interrupts act on txqueue exactly as *)
(* error interrupts do, so FIFO 0 stays empty here; Board fills it, and    *)
(* CanRx has what becomes of the frames.                                   *)
(***************************************************************************)
EXTENDS CanLld, Functions

CONSTANTS
  Thread,                \* the threads that transmit
  CAN_TRANSMIT_TIMEOUT   \* the timeout of every call, in ticks

ASSUME CanTxAssumption == CAN_TRANSMIT_TIMEOUT \in Nat \ {0}

VARIABLES
  can,       \* the registers of CAND1
  ready,     \* threads in a call that can run, in the order of the ready list
  txqueue,   \* threads waiting for a mailbox, oldest first
  rdymsg,    \* per thread: the message it was last made ready with
  timer,     \* per thread: ticks left on its timeout timer, Off if not armed
  blocked    \* history, per thread: ticks spent in txqueue during this call,
             \* counted up to CAN_TRANSMIT_TIMEOUT + 1

vars == <<can, ready, txqueue, rdymsg, timer, blocked>>

Off == CAN_TRANSMIT_TIMEOUT + 1

(* Nothing here depends on whose frame is in a mailbox, or on what a       *)
(* received one says.                                                      *)
RxFrame == {"frame"}
TxFrame == {"frame"}

(* A thread in neither list is outside canTransmit. *)
InCall(t) == t \in Range(ready) \cup Range(txqueue)

Init ==
  /\ can = can_lld_start(can_lld_init)
  /\ ready = <<>>
  /\ txqueue = <<>>
  /\ rdymsg = [t \in Thread |-> "MSG_OK"]
  /\ timer = [t \in Thread |-> Off]
  /\ blocked = [t \in Thread |-> 0]

-----------------------------------------------------------------------------
(* The threads *)

(* A thread that slept, or waited for an event, becomes ready and will     *)
(* call canTransmit when it runs: broadcast_stats, api_send_announcement   *)
(* or the loop of system_adc_worker.                                       *)
CallTransmit(t) ==
  /\ ~InCall(t)
  /\ ready' = Append(ready, t)
  /\ rdymsg' = [rdymsg EXCEPT ![t] = "MSG_OK"]
  /\ blocked' = [blocked EXCEPT ![t] = 0]
  /\ UNCHANGED <<can, txqueue, timer>>

Running == Head(ready)

(* Mutant of Transmit: the mailboxes are not tested again after a wake-up. *)
TransmitUntested ==
  /\ ready # <<>>
  /\ rdymsg[Running] = "MSG_OK"
  /\ can_lld_is_tx_empty(can) \/ timer[Running] # Off
  /\ can' = can_lld_transmit(can, "frame")
  /\ ready' = Tail(ready)
  /\ timer' = [timer EXCEPT ![Running] = Off]
  /\ UNCHANGED <<txqueue, rdymsg, blocked>>

(* The running thread finds a free mailbox, at its first test or after     *)
(* having been woken: the timer of its wait is reset, and it returns       *)
(* MSG_OK.                                                                 *)
Transmit ==
  /\ ready # <<>>
  /\ rdymsg[Running] = "MSG_OK"
  /\ can_lld_is_tx_empty(can)
  /\ can' = can_lld_transmit(can, "frame")
  /\ ready' = Tail(ready)
  /\ timer' = [timer EXCEPT ![Running] = Off]
  /\ UNCHANGED <<txqueue, rdymsg, blocked>>

(* Mutants of Enqueue: the test of the mailboxes is left out; the timer is *)
(* one tick short.                                                         *)
EnqueueUntested ==
  /\ ready # <<>>
  /\ rdymsg[Running] = "MSG_OK"
  /\ ready' = Tail(ready)
  /\ txqueue' = Append(txqueue, Running)
  /\ timer' = [timer EXCEPT ![Running] = CAN_TRANSMIT_TIMEOUT]
  /\ UNCHANGED <<can, rdymsg, blocked>>

EnqueueShort ==
  /\ ready # <<>>
  /\ rdymsg[Running] = "MSG_OK"
  /\ ~can_lld_is_tx_empty(can)
  /\ ready' = Tail(ready)
  /\ txqueue' = Append(txqueue, Running)
  /\ timer' = [timer EXCEPT ![Running] = CAN_TRANSMIT_TIMEOUT - 1]
  /\ UNCHANGED <<can, rdymsg, blocked>>

(* No mailbox is free: the thread queues, with a timer of the full timeout *)
(* also when it comes from an earlier wait of the same call.               *)
Enqueue ==
  /\ ready # <<>>
  /\ rdymsg[Running] = "MSG_OK"
  /\ ~can_lld_is_tx_empty(can)
  /\ ready' = Tail(ready)
  /\ txqueue' = Append(txqueue, Running)
  /\ timer' = [timer EXCEPT ![Running] = CAN_TRANSMIT_TIMEOUT]
  /\ UNCHANGED <<can, rdymsg, blocked>>

(* canTransmit returns MSG_TIMEOUT; no caller looks at it, the frame is    *)
(* lost.                                                                   *)
ReturnTimeout ==
  /\ ready # <<>>
  /\ rdymsg[Running] = "MSG_TIMEOUT"
  /\ ready' = Tail(ready)
  /\ UNCHANGED <<can, txqueue, rdymsg, timer, blocked>>

-----------------------------------------------------------------------------
(* Interrupts, time and the bus *)

(* Mutant of CanIrq: the handler serves the cell and wakes nobody. *)
CanIrqSilent ==
  /\ IrqLine(can)
  /\ can' = UnifiedHandler(can)
  /\ UNCHANGED <<ready, txqueue, rdymsg, timer, blocked>>

(* The TX handler makes every waiter ready, in order, whatever the cause   *)
(* of the interrupt; their timers stay armed until they run.               *)
CanIrq ==
  /\ IrqLine(can)
  /\ can' = UnifiedHandler(can)
  /\ ready' = ready \o txqueue
  /\ rdymsg' = [t \in Thread |-> IF t \in Range(txqueue) THEN "MSG_OK" ELSE rdymsg[t]]
  /\ txqueue' = <<>>
  /\ UNCHANGED <<timer, blocked>>

(* Mutants of TimerWakeup: a thread that is already ready is made ready    *)
(* once more; the callback is dropped.                                     *)
TimerWakeupUntested(t) ==
  /\ timer[t] = 0
  /\ timer' = [timer EXCEPT ![t] = Off]
  /\ txqueue' = SelectSeq(txqueue, LAMBDA u : u # t)
  /\ ready' = Append(ready, t)
  /\ rdymsg' = [rdymsg EXCEPT ![t] = "MSG_TIMEOUT"]
  /\ UNCHANGED <<can, blocked>>

TimerWakeupLost(t) ==
  /\ timer[t] = 0
  /\ timer' = [timer EXCEPT ![t] = Off]
  /\ UNCHANGED <<can, ready, txqueue, rdymsg, blocked>>

(* The callback wakeup of chSchGoSleepTimeoutS.  The thread leaves the     *)
(* queue; nothing happens to one that the CAN interrupt made ready first.  *)
TimerWakeup(t) ==
  /\ timer[t] = 0
  /\ timer' = [timer EXCEPT ![t] = Off]
  /\ \/ /\ t \notin Range(txqueue)
        /\ UNCHANGED <<ready, txqueue, rdymsg>>
     \/ /\ \E i \in DOMAIN txqueue :
             /\ txqueue[i] = t
             /\ txqueue' = SubSeq(txqueue, 1, i - 1) \o SubSeq(txqueue, i + 1, Len(txqueue))
        /\ ready' = Append(ready, t)
        /\ rdymsg' = [rdymsg EXCEPT ![t] = "MSG_TIMEOUT"]
  /\ UNCHANGED <<can, blocked>>

(* One system tick; a timer that has run out is served before the next. *)
Tick ==
  /\ \A t \in Thread : timer[t] # 0
  /\ timer' = [t \in Thread |-> IF timer[t] = Off THEN Off ELSE timer[t] - 1]
  /\ blocked' = [t \in Thread |->
       IF t \in Range(txqueue) /\ blocked[t] <= CAN_TRANSMIT_TIMEOUT
       THEN blocked[t] + 1
       ELSE blocked[t]]
  /\ UNCHANGED <<can, ready, txqueue, rdymsg>>

TransmissionEnds ==
  /\ can.mbx # <<>>
  /\ can' = BusTransmitted(can)
  /\ UNCHANGED <<ready, txqueue, rdymsg, timer, blocked>>

BusErrorStatus ==
  /\ ~can.erri
  /\ can' = BusError(can)
  /\ UNCHANGED <<ready, txqueue, rdymsg, timer, blocked>>

-----------------------------------------------------------------------------
Scheduler == Transmit \/ Enqueue \/ ReturnTimeout

Next ==
  \/ Scheduler
  \/ CanIrq
  \/ Tick
  \/ TransmissionEnds
  \/ BusErrorStatus
  \/ \E t \in Thread : CallTransmit(t) \/ TimerWakeup(t)

SafeSpec == Init /\ [][Next]_vars

(* The processor runs the threads that are ready, time passes, and pending *)
(* interrupts are taken.  Nothing is assumed of the bus: transmissions may *)
(* never end, and the threads need not call.                               *)
Fairness ==
  /\ WF_vars(Scheduler)
  /\ WF_vars(CanIrq)
  /\ WF_vars(Tick)
  /\ \A t \in Thread : WF_vars(TimerWakeup(t))

Spec == SafeSpec /\ Fairness

-----------------------------------------------------------------------------
TypeOK ==
  /\ can \in CanRegs(RxFrame, TxFrame)
  /\ Len(can.mbx) <= CAN_TX_MAILBOXES
  /\ ready \in Seq(Thread)
  /\ txqueue \in Seq(Thread)
  /\ rdymsg \in [Thread -> {"MSG_OK", "MSG_TIMEOUT"}]
  /\ timer \in [Thread -> 0..Off]
  /\ blocked \in [Thread -> 0..CAN_TRANSMIT_TIMEOUT + 1]

(* No thread waits for a mailbox while one is free, unless the completion  *)
(* interrupt that wakes it is pending: canTransmit tests and queues under  *)
(* one lock, and the TX handler wakes every waiter.                        *)
NoLostTxWakeup ==
  txqueue # <<>> /\ can_lld_is_tx_empty(can) => can.rqcp

(* A thread is in the ready list or in txqueue, and there once: the CAN    *)
(* interrupt and the timeout callback never both make it ready.            *)
InOneQueueOnce ==
  /\ IsInjective(ready)
  /\ IsInjective(txqueue)
  /\ Range(ready) \cap Range(txqueue) = {}

(* A frame is dropped only after its thread was blocked for the whole      *)
(* timeout: no timer left over from an earlier wait, or from an earlier    *)
(* call, ends a wait early.                                                *)
NoEarlyTimeout ==
  \A t \in Range(ready) :
    rdymsg[t] = "MSG_TIMEOUT" => blocked[t] >= CAN_TRANSMIT_TIMEOUT

(* A waiting thread always has a timer running, set for this wait. *)
TimersCoverWaits ==
  \A t \in Thread :
    /\ t \in Range(txqueue) =>
         timer[t] # Off /\ blocked[t] + timer[t] >= CAN_TRANSMIT_TIMEOUT
    /\ timer[t] # Off => InCall(t)
    /\ t \in Range(ready) /\ rdymsg[t] = "MSG_TIMEOUT" => timer[t] = Off

(* The inductive invariant behind the properties above. *)
IInv ==
  /\ TypeOK
  /\ NoLostTxWakeup
  /\ InOneQueueOnce
  /\ NoEarlyTimeout
  /\ TimersCoverWaits

(* A call ends, with a mailbox or with the timeout, even on a bus where    *)
(* nothing moves, unless CAN interrupts keep coming: each of them wakes    *)
(* the waiters and starts their timeouts again.                            *)
CallEndsUnlessInterrupted ==
  \A t \in Thread : []<>~InCall(t) \/ []<><<CanIrq>>_vars

(* What the interface of canTransmit says of its timeout, "the number of   *)
(* ticks before the operation timeouts": a call does not block for longer. *)
BlockedNoLongerThanTimeout ==
  \A t \in Thread : blocked[t] <= CAN_TRANSMIT_TIMEOUT
=============================================================================
