------------------------------- MODULE CanRx --------------------------------
(***************************************************************************)
(* The receive path: the CAN cell and its interrupt (CanLld), the event    *)
(* source rxfull_event, and the thread can_worker of system_CAN.c, from    *)
(* power-up on.  Threads of the firmware have equal priority and the       *)
(* kernel has no time slices, so the worker's code between two kernel      *)
(* calls runs without another thread in between; the CAN interrupt can     *)
(* come at any place where the kernel lock is not held.  One action is one *)
(* locked section of the worker, with the thread-local code around it.     *)
(*                                                                         *)
(* The other two threads appear as OtherTransmit, which occupies           *)
(* mailboxes; they are modelled in detail in CanTx.                        *)
(***************************************************************************)
EXTENDS CanLld, AnalogXApi

CONSTANTS
  RxFrame,   \* frames that may arrive from the bus
  Jumpers    \* jumper settings considered

ASSUME CanRxAssumption ==
  /\ RxFrame \subseteq CANRxFrame
  /\ Jumpers \subseteq JumperSettings
  /\ Jumpers # {}

VARIABLES
  can,         \* the registers of CAND1
  base,        \* g_can_base_address
  cfg,         \* g_config_group_1 and g_provisioned
  wk,          \* where can_worker is
  rx_msg,      \* the frame can_worker is processing
  listening,   \* the worker's listener is on rxfull_event
  epending,    \* the worker's p_epending
  served       \* history: the worker has been given an event before

vars == <<can, base, cfg, wk, rx_msg, listening, epending, served>>

NoFrame == [id |-> 0, dlc |-> 0, data0 |-> 0]

TxFrame == {"announcement", "other"}

(* none, created: before and after chThdCreateStatic; startup: in the      *)
(* start-up sleep; transmit: in canTransmit, testing for a free mailbox;   *)
(* txwait: in its queue; loop: calling chEvtWaitAnyTimeout; evtwait:       *)
(* asleep in it; evtready, evttimeout: woken by the event, by the timer;   *)
(* receive: calling canReceive; dispatch: rx_msg holds a frame.            *)
WorkerPlace ==
  {"none", "created", "startup", "transmit", "txwait", "loop", "evtwait",
   "evtready", "evttimeout", "receive", "dispatch"}

Init ==
  /\ can = can_lld_init
  /\ base = ANALOGX_CAN_BASE_ID
  /\ cfg = InitialSettings
  /\ wk = "none"
  /\ rx_msg = NoFrame
  /\ listening = FALSE
  /\ epending = FALSE
  /\ served = FALSE

-----------------------------------------------------------------------------
(* main *)

(* Reads the jumpers, then starts the cell: frames are accepted from here  *)
(* on, before any thread listens.                                          *)
system_can_init ==
  /\ ~can.started
  /\ \E j \in Jumpers : base' = BaseAddress(j)
  /\ can' = can_lld_start(can)
  /\ UNCHANGED <<cfg, wk, rx_msg, listening, epending, served>>

CreateWorker ==
  /\ can.started
  /\ wk = "none"
  /\ wk' = "created"
  /\ UNCHANGED <<can, base, cfg, rx_msg, listening, epending, served>>

-----------------------------------------------------------------------------
(* can_worker *)

Goto(from, to) == wk = from /\ wk' = to

(* chEvtRegister, then the start-up sleep. *)
RegisterListener ==
  /\ Goto("created", "startup")
  /\ listening' = TRUE
  /\ UNCHANGED <<can, base, cfg, rx_msg, epending, served>>

(* The sleep ends; the first announcement is sent unconditionally. *)
StartupDelayOver ==
  /\ Goto("startup", "transmit")
  /\ UNCHANGED <<can, base, cfg, rx_msg, listening, epending, served>>

(* Mutant of LoadAnnouncement: a mailbox is loaded without the test. *)
LoadAnnouncementUntested ==
  /\ Goto("transmit", "loop")
  /\ can' = can_lld_transmit(can, "announcement")
  /\ UNCHANGED <<base, cfg, rx_msg, listening, epending, served>>

(* canTransmit in api_send_announcement: a free mailbox is loaded under    *)
(* the lock that tested for it, else the thread queues on txqueue.         *)
LoadAnnouncement ==
  /\ can_lld_is_tx_empty(can)
  /\ Goto("transmit", "loop")
  /\ can' = can_lld_transmit(can, "announcement")
  /\ UNCHANGED <<base, cfg, rx_msg, listening, epending, served>>

QueueForMailbox ==
  /\ ~can_lld_is_tx_empty(can)
  /\ Goto("transmit", "txwait")
  /\ UNCHANGED <<can, base, cfg, rx_msg, listening, epending, served>>

(* The announcement is dropped; nobody looks at the result. *)
TransmitTimeout ==
  /\ Goto("txwait", "loop")
  /\ UNCHANGED <<can, base, cfg, rx_msg, listening, epending, served>>

(* Mutants of WaitEvent: discards old events before it sleeps; sleeps      *)
(* without looking at p_epending.                                          *)
WaitEventDiscards ==
  /\ Goto("loop", "evtwait")
  /\ epending' = FALSE
  /\ UNCHANGED <<can, base, cfg, rx_msg, listening, served>>

WaitEventAlwaysSleeps ==
  /\ Goto("loop", "evtwait")
  /\ UNCHANGED <<can, base, cfg, rx_msg, listening, epending, served>>

(* chEvtWaitAnyTimeout: a pending event is taken at once. *)
WaitEvent ==
  /\ wk = "loop"
  /\ IF epending
     THEN wk' = "receive" /\ epending' = FALSE /\ served' = TRUE
     ELSE wk' = "evtwait" /\ UNCHANGED <<epending, served>>
  /\ UNCHANGED <<can, base, cfg, rx_msg, listening>>

(* The one-second timer of chSchGoSleepTimeoutS. *)
WaitTimer ==
  /\ Goto("evtwait", "evttimeout")
  /\ UNCHANGED <<can, base, cfg, rx_msg, listening, epending, served>>

WaitReturnsEvent ==
  /\ Goto("evtready", "receive")
  /\ epending' = FALSE
  /\ served' = TRUE
  /\ UNCHANGED <<can, base, cfg, rx_msg, listening>>

(* Mutants of WaitReturnsTimeout: without the test of api_is_provisoned;   *)
(* without the announcement.                                               *)
WaitReturnsTimeoutUntested ==
  /\ Goto("evttimeout", "transmit")
  /\ UNCHANGED <<can, base, cfg, rx_msg, listening, epending, served>>

WaitReturnsTimeoutSilent ==
  /\ Goto("evttimeout", "loop")
  /\ UNCHANGED <<can, base, cfg, rx_msg, listening, epending, served>>

(* The wait returned 0; an event signalled since the timer fired stays     *)
(* pending for the next call.                                              *)
WaitReturnsTimeout ==
  /\ wk = "evttimeout"
  /\ wk' = IF cfg.provisioned THEN "loop" ELSE "transmit"
  /\ UNCHANGED <<can, base, cfg, rx_msg, listening, epending, served>>

(* canReceive with TIME_IMMEDIATE: a frame, or MSG_TIMEOUT at once. *)
Receive ==
  /\ can_lld_is_rx_nonempty(can)
  /\ Goto("receive", "dispatch")
  /\ rx_msg' = Head(can.fifo)
  /\ can' = can_lld_receive(can)
  /\ UNCHANGED <<base, cfg, listening, epending, served>>

(* Mutant of ReceiveNothing: the result of canReceive is not looked at. *)
ReceiveNothingUntested ==
  /\ ~can_lld_is_rx_nonempty(can)
  /\ Goto("receive", "dispatch")
  /\ UNCHANGED <<can, base, cfg, rx_msg, listening, epending, served>>

ReceiveNothing ==
  /\ ~can_lld_is_rx_nonempty(can)
  /\ Goto("receive", "loop")
  /\ UNCHANGED <<can, base, cfg, rx_msg, listening, epending, served>>

(* rx_msg is dead after dispatch_can_rx; the model clears it. *)
Dispatch ==
  /\ Goto("dispatch", "receive")
  /\ cfg' = dispatch_can_rx(base, rx_msg, cfg)
  /\ rx_msg' = NoFrame
  /\ UNCHANGED <<can, base, listening, epending, served>>

-----------------------------------------------------------------------------
(* Interrupt, bus and the other threads *)

(* The unified CAN handler: every waiter of txqueue becomes ready; if a    *)
(* frame is stored, rxfull_event is broadcast to the listener, if any, and *)
(* a thread waiting for the event becomes ready.                           *)
CanIrq ==
  /\ IrqLine(can)
  /\ can' = UnifiedHandler(can)
  /\ LET signal == listening /\ RxBroadcasts(can)
     IN /\ epending' = (epending \/ signal)
        /\ wk' = CASE wk = "txwait"              -> "transmit"
                   [] wk = "evtwait" /\ signal -> "evtready"
                   [] OTHER                    -> wk
  /\ UNCHANGED <<base, cfg, rx_msg, listening, served>>

FrameArrives(f) ==
  /\ can.started
  /\ can' = BusReceive(can, f)
  /\ UNCHANGED <<base, cfg, wk, rx_msg, listening, epending, served>>

TransmissionEnds ==
  /\ can.mbx # <<>>
  /\ can' = BusTransmitted(can)
  /\ UNCHANGED <<base, cfg, wk, rx_msg, listening, epending, served>>

BusErrorStatus ==
  /\ can.started
  /\ ~can.erri
  /\ can' = BusError(can)
  /\ UNCHANGED <<base, cfg, wk, rx_msg, listening, epending, served>>

(* adc_worker or main loads a mailbox; they exist once the worker does. *)
OtherTransmit ==
  /\ wk # "none"
  /\ can_lld_is_tx_empty(can)
  /\ can' = can_lld_transmit(can, "other")
  /\ UNCHANGED <<base, cfg, wk, rx_msg, listening, epending, served>>

-----------------------------------------------------------------------------
Worker ==
  \/ RegisterListener
  \/ StartupDelayOver
  \/ LoadAnnouncement
  \/ QueueForMailbox
  \/ TransmitTimeout
  \/ WaitEvent
  \/ WaitTimer
  \/ WaitReturnsEvent
  \/ WaitReturnsTimeout
  \/ Receive
  \/ ReceiveNothing
  \/ Dispatch

Main == system_can_init \/ CreateWorker

Environment ==
  \/ \E f \in RxFrame : FrameArrives(f)
  \/ TransmissionEnds
  \/ BusErrorStatus
  \/ OtherTransmit

Next == Main \/ Worker \/ CanIrq \/ Environment

SafeSpec == Init /\ [][Next]_vars

(* Main and the worker keep running: they share the processor with threads *)
(* that block again and again.  A pending interrupt is taken, and every    *)
(* transmission attempt ends (one attempt per request, automatic bus-off   *)
(* recovery).  The two strong conditions say that the worker is not kept   *)
(* from the mailboxes for ever by the other threads taking every mailbox   *)
(* that is freed, before the completion interrupt or before the worker     *)
(* runs again: those threads make at most one request in 3 ms, and         *)
(* attempts end at the pace of frames on the bus.  Nothing is assumed of   *)
(* arrivals and errors.                                                    *)
Fairness ==
  /\ WF_vars(Main)
  /\ WF_vars(Worker)
  /\ WF_vars(CanIrq)
  /\ WF_vars(TransmissionEnds)
  /\ SF_vars(CanIrq /\ can_lld_is_tx_empty(can))
  /\ SF_vars(LoadAnnouncement)

Spec == SafeSpec /\ Fairness

-----------------------------------------------------------------------------
TypeOK ==
  /\ can \in CanRegs(CANRxFrame, TxFrame)
  /\ Len(can.mbx) <= CAN_TX_MAILBOXES
  /\ Len(can.fifo) <= FifoDepth
  /\ base \in {ANALOGX_CAN_BASE_ID} \cup {BaseAddress(j) : j \in JumperSettings}
  /\ cfg \in Settings
  /\ wk \in WorkerPlace
  /\ rx_msg \in CANRxFrame
  /\ listening \in BOOLEAN
  /\ epending \in BOOLEAN
  /\ served \in BOOLEAN

(* Once the worker has been given its first event, a frame cannot wait in  *)
(* the FIFO with the interrupt disabled unless the worker has an event     *)
(* pending or is emptying the FIFO: the hand-over between                  *)
(* can_lld_rx0_handler (disables), chEvtWaitAnyTimeout (clears the event)  *)
(* and can_lld_receive (re-enables) loses no wake-up.                      *)
NoLostRxWakeup ==
  served /\ can.fifo # <<>> /\ ~can.fmpie0
    => epending \/ wk \in {"receive", "dispatch"}

(* The worker never sleeps on an event that is already pending, and never  *)
(* sleeps on txqueue while a mailbox is free unless the completion         *)
(* interrupt that will wake it is pending.                                 *)
NeverSleepsOnSignal ==
  /\ wk = "evtwait" => ~epending
  /\ wk = "txwait" /\ can_lld_is_tx_empty(can) => can.rqcp

(* An announcement is being sent only by a board that is not provisioned:  *)
(* the test of api_is_provisoned still holds when canTransmit has waited   *)
(* for a mailbox, and the unconditional first announcement comes before    *)
(* any message is dispatched.                                              *)
AnnouncesOnlyUnprovisioned ==
  wk \in {"transmit", "txwait"} => ~cfg.provisioned

(* Start-up order: the worker exists only after the cell is started, and   *)
(* is given events only after it listens; nothing is dispatched before the *)
(* first announcement.                                                     *)
StartupOrder ==
  /\ ~can.started => wk = "none" /\ can.fifo = <<>>
  /\ listening <=> wk \notin {"none", "created"}
  /\ served \/ epending => listening
  /\ wk \in {"none", "created", "startup"} => ~cfg.provisioned

(* The driver's own bookkeeping: an empty FIFO has its interrupt enabled. *)
ArmedWhenEmpty == can.started /\ can.fifo = <<>> => can.fmpie0

(* The inductive invariant behind the three properties above. *)
IInv ==
  /\ TypeOK
  /\ NoLostRxWakeup
  /\ NeverSleepsOnSignal
  /\ AnnouncesOnlyUnprovisioned
  /\ StartupOrder
  /\ ArmedWhenEmpty

-----------------------------------------------------------------------------
(* The frames received and not yet handled. *)
Pending == (IF wk = "dispatch" THEN <<rx_msg>> ELSE <<>>) \o can.fifo

Inbox == INSTANCE CanInbox WITH inbox <- Pending, open <- can.started

(* Safety of the receive path: can_worker dispatches what arrived and was  *)
(* not overwritten, each frame once and in order, and nothing else.        *)
HandlesInOrder == Inbox!SafeSpec

(* The receive path implements the inbox, with its liveness: every frame   *)
(* is dispatched once, in order, and none stays in the FIFO for ever, also *)
(* one that came in before the worker listened.                            *)
ImplementsInbox == Inbox!Spec

(* Only traffic can keep an unprovisioned board from announcing itself     *)
(* again and again (the timeout branch of can_worker).                     *)
AnnouncesUnlessTraffic ==
  \/ []<><<\E f \in RxFrame : FrameArrives(f)>>_vars
  \/ []<>(cfg.provisioned \/ wk = "transmit")

(* What the comment in can_worker says: "continue to send announcements    *)
(* until we are provisioned", for a worker that keeps getting back to its  *)
(* wait.                                                                   *)
AnnouncesUntilProvisioned ==
  []<>(wk = "evtwait") => []<>(cfg.provisioned \/ wk = "transmit")
=============================================================================
