-------------------------------- MODULE Board -------------------------------
(***************************************************************************)
(* The whole board in time: the three threads with their loops (main.c,    *)
(* system_CAN.c, system_ADC.c) around the transmit path of CanTx, the      *)
(* watchdog, the restart, and the bus.                                     *)
(*                                                                         *)
(* The stretches of code between two waits are much shorter than a tick,   *)
(* so time passes only when no thread can run and no interrupt is pending. *)
(* Frames are received on any bus: each may raise the interrupt that wakes *)
(* every thread waiting for a mailbox, and their event ends can_rx's wait. *)
(* What they say is in CanRx, what a change of the rate does in AdcPacing. *)
(***************************************************************************)
EXTENDS Integers, Sequences

CONSTANTS
  main, can_rx, adc_worker,        \* the threads
  CAN_TX_MAILBOXES, FifoDepth,     \* see CanLld
  CAN_TRANSMIT_TIMEOUT,            \* in ticks
  MAIN_THREAD_CHECK_INTERVAL_MS,   \* see MainLoop
  MAIN_THREAD_SLEEP_NORMAL_MS,
  TICKS_PER_MS,
  WatchdogTicks, BootTicks, LogTicks,
  StartupTicks,                    \* CAN_WORKER_STARTUP_DELAY
  EventTicks,                      \* the timeout of chEvtWaitAnyTimeout
  PeriodTicks,                     \* the sampling period
  SYSTIME_VALUES,                  \* number of values of systime_t, 2^32
  CH_CFG_ST_TIMEDELTA,             \* shortest delay of a timer
  FrameTicks,                      \* bound: ticks a frame takes on a healthy bus
  FramesPerTick,                   \* bound: frames received and errors, per tick
  MaxWakeups                       \* bound: fruitless wake-ups of a call of main

ASSUME BoardAssumption ==
  /\ main # can_rx /\ main # adc_worker /\ can_rx # adc_worker
  /\ CAN_TX_MAILBOXES \in Nat \ {0}
  /\ FifoDepth \in Nat \ {0}
  /\ CAN_TRANSMIT_TIMEOUT \in Nat \ {0}
  /\ MAIN_THREAD_CHECK_INTERVAL_MS \in Nat
  /\ MAIN_THREAD_SLEEP_NORMAL_MS \in Nat
  /\ TICKS_PER_MS \in Nat
  /\ WatchdogTicks \in Nat \ {0}
  /\ {BootTicks, LogTicks, StartupTicks, EventTicks, FrameTicks,
      FramesPerTick} \subseteq Nat
  /\ SYSTIME_VALUES \in Nat
  /\ PeriodTicks \in 0..(SYSTIME_VALUES - 1)
  /\ CH_CFG_ST_TIMEDELTA \in 0..PeriodTicks
  /\ MaxWakeups \in Nat \ {0}

VARIABLES
  can, ready, txqueue, rdymsg, timer, blocked,   \* see CanTx
  place,         \* per thread: where it is in its loop
  wait,          \* per thread: ticks left of its sleep, or of a bounded delay
  stats_check,   \* see MainLoop
  woken,         \* see MainLoop
  wdg,           \* see MainLoop
  worked,        \* adc_worker: the time since start, as systime_t has it
  event,         \* can_rx: rxfull_event is pending or being served
  arrived,       \* frames received and errors since the last tick
  busy,          \* ticks the oldest request has been on the bus
  healthy        \* the bus ends requests in FrameTicks and has no errors

Thread == {main, can_rx, adc_worker}

Tx == INSTANCE CanTx

loops == <<place, wait, stats_check, woken, wdg, worked>>

bus == <<arrived, busy, healthy>>

vars == <<can, ready, txqueue, rdymsg, timer, blocked, loops, event, bus>>

CheckTicks == MAIN_THREAD_CHECK_INTERVAL_MS * TICKS_PER_MS

TIME_INFINITE == SYSTIME_VALUES - 1

BootPlace == [t \in Thread |-> IF t = main THEN "boot" ELSE "unborn"]

BootWait == [t \in Thread |-> IF t = main THEN BootTicks ELSE 0]

(* The watchdog has been started; main initialises the drivers. *)
Init ==
  /\ Tx!Init
  /\ place = BootPlace
  /\ wait = BootWait
  /\ stats_check = 0
  /\ woken = 0
  /\ wdg = WatchdogTicks
  /\ worked = 0
  /\ event = FALSE
  /\ arrived = 0
  /\ busy = 0
  /\ healthy \in BOOLEAN

(* Thread t goes to place p, for n ticks. *)
Goes(t, p, n) ==
  /\ place' = [place EXCEPT ![t] = p]
  /\ wait' = [wait EXCEPT ![t] = n]

(* main creates the threads and enters its loop. *)
EnterLoop ==
  /\ place[main] = "boot"
  /\ place' = [place EXCEPT ![main] = "asleep", ![can_rx] = "startup", ![adc_worker] = "asleep"]
  /\ wait' = [wait EXCEPT ![main] = CheckTicks, ![can_rx] = StartupTicks]
  /\ UNCHANGED <<can, ready, txqueue, rdymsg, timer, blocked, stats_check, woken, wdg,
                 worked, event, bus>>

-----------------------------------------------------------------------------
(* The loops, up to their call of canTransmit *)

Wakes(t) == place[t] = "asleep" /\ wait[t] = 0

StatsDue == stats_check + MAIN_THREAD_CHECK_INTERVAL_MS > MAIN_THREAD_SLEEP_NORMAL_MS

(* Mutant of Feed: the watchdog is not reset. *)
FeedNever == Goes(main, "asleep", CheckTicks) /\ UNCHANGED wdg

(* wdgReset, and the next sleep. *)
Feed == Goes(main, "asleep", CheckTicks) /\ wdg' = WatchdogTicks

(* Mutant of MainRound: the interval is not counted. *)
MainRoundUncounted ==
  /\ Wakes(main)
  /\ ~StatsDue
  /\ stats_check' = stats_check
  /\ Feed
  /\ UNCHANGED <<can, ready, txqueue, rdymsg, timer, blocked, woken, worked, event, bus>>

MainRound ==
  /\ Wakes(main)
  /\ ~StatsDue
  /\ stats_check' = stats_check + MAIN_THREAD_CHECK_INTERVAL_MS
  /\ Feed
  /\ UNCHANGED <<can, ready, txqueue, rdymsg, timer, blocked, woken, worked, event, bus>>

MainCalls ==
  /\ Wakes(main)
  /\ StatsDue
  /\ Tx!CallTransmit(main)
  /\ Goes(main, "calling", 0)
  /\ UNCHANGED <<stats_check, woken, wdg, worked, event, bus>>

(* Mutant of AdcCalls: start is not taken anew. *)
AdcCallsStale ==
  /\ Wakes(adc_worker)
  /\ Tx!CallTransmit(adc_worker)
  /\ Goes(adc_worker, "calling", 0)
  /\ UNCHANGED <<worked, stats_check, woken, wdg, event, bus>>

(* A new cycle: start is taken, the samples are read. *)
AdcCalls ==
  /\ Wakes(adc_worker)
  /\ Tx!CallTransmit(adc_worker)
  /\ Goes(adc_worker, "calling", 0)
  /\ worked' = 0
  /\ UNCHANGED <<stats_check, woken, wdg, event, bus>>

(* The first announcement, and those after a second without an event as    *)
(* long as the board is not provisioned.                                   *)
RxCalls ==
  /\ place[can_rx] \in {"startup", "asleep"} /\ wait[can_rx] = 0
  /\ Tx!CallTransmit(can_rx)
  /\ Goes(can_rx, "calling", 0)
  /\ UNCHANGED <<stats_check, woken, wdg, worked, event, bus>>

(* A second without an event ends on a provisioned board: can_rx waits     *)
(* anew.                                                                   *)
RxWaits ==
  /\ Wakes(can_rx)
  /\ Goes(can_rx, "asleep", EventTicks)
  /\ UNCHANGED <<can, ready, txqueue, rdymsg, timer, blocked, stats_check, woken, wdg,
                 worked, event, bus>>

(* The event ended the wait: canReceive takes a frame and it is            *)
(* dispatched, which transmits nothing and logs a configuration that is    *)
(* not valid.                                                              *)
RxReceives ==
  /\ place[can_rx] = "asleep" /\ event
  /\ Tx!can_lld_is_rx_nonempty(can)
  /\ can' = Tx!can_lld_receive(can)
  /\ Goes(can_rx, "log", LogTicks) \/ UNCHANGED <<place, wait>>
  /\ UNCHANGED <<ready, txqueue, rdymsg, timer, blocked, stats_check, woken, wdg, worked,
                 event, bus>>

(* canReceive finds the FIFO empty; can_rx waits anew.  An event of a      *)
(* frame that came during the drain is over too: in the code it would      *)
(* start a drain that finds nothing.                                       *)
RxServed ==
  /\ place[can_rx] = "asleep" /\ event
  /\ ~Tx!can_lld_is_rx_nonempty(can)
  /\ Goes(can_rx, "asleep", EventTicks)
  /\ event' = FALSE
  /\ UNCHANGED <<can, ready, txqueue, rdymsg, timer, blocked, stats_check, woken, wdg,
                 worked, bus>>

-----------------------------------------------------------------------------
(* canTransmit and what follows it *)

(* Mutant of SleepTicks: the operands are swapped. *)
SleepTicksSwapped == (worked - PeriodTicks) % SYSTIME_VALUES

(* chThdSleep(MS2ST(1000 / rate) - work_time) in unsigned arithmetic. *)
SleepTicks ==
  LET time == (PeriodTicks - worked) % SYSTIME_VALUES
  IN IF time < CH_CFG_ST_TIMEDELTA THEN CH_CFG_ST_TIMEDELTA ELSE time

(* The running thread has returned from canTransmit. *)
Returns ==
  \/ /\ Head(ready) = main
     /\ Goes(main, "log", LogTicks)
     /\ IF place[main] = "calling"
        THEN stats_check' = stats_check + MAIN_THREAD_CHECK_INTERVAL_MS /\ woken' = 0
        ELSE UNCHANGED <<stats_check, woken>>
     /\ UNCHANGED <<wdg, worked>>
  \/ /\ Head(ready) = can_rx
     /\ Goes(can_rx, "log", LogTicks)
     /\ UNCHANGED <<stats_check, woken, wdg, worked>>
  \/ /\ Head(ready) = adc_worker
     /\ Goes(adc_worker, "asleep", SleepTicks)
     /\ UNCHANGED <<stats_check, woken, wdg, worked>>

(* The running thread waits for a mailbox, for the first time or again. *)
Waits ==
  /\ Goes(Head(ready), "transmit", 0)
  /\ IF Head(ready) # main
     THEN UNCHANGED <<stats_check, woken>>
     ELSE IF place[main] = "calling"
     THEN stats_check' = stats_check + MAIN_THREAD_CHECK_INTERVAL_MS /\ woken' = 0
     ELSE stats_check' = stats_check /\ woken' = woken + 1
  /\ UNCHANGED <<wdg, worked>>

Transmit == Tx!Transmit /\ Returns /\ UNCHANGED <<event, bus>>

ReturnTimeout == Tx!ReturnTimeout /\ Returns /\ UNCHANGED <<event, bus>>

Enqueue == Tx!Enqueue /\ Waits /\ UNCHANGED <<event, bus>>

(* Thread t is done with its call: its history of it ends. *)
Forgets(t) == blocked' = [blocked EXCEPT ![t] = 0]

(* broadcast_stats has logged; main goes on in its loop. *)
StatsDone ==
  /\ place[main] = "log"
  /\ stats_check' = 0
  /\ woken' = 0
  /\ Forgets(main)
  /\ Feed
  /\ UNCHANGED <<can, ready, txqueue, rdymsg, timer, worked, event, bus>>

(* api_send_announcement or the dispatch has logged; can_rx waits for an   *)
(* event, or goes on with the one it serves.                               *)
RxLogged ==
  /\ place[can_rx] = "log"
  /\ Forgets(can_rx)
  /\ Goes(can_rx, "asleep", EventTicks)
  /\ UNCHANGED <<can, ready, txqueue, rdymsg, timer, stats_check, woken, wdg, worked,
                 event, bus>>

-----------------------------------------------------------------------------
(* Interrupts, the bus, time, and the watchdog *)

(* The receive handler signals the listener, once can_rx has registered. *)
CanIrq ==
  /\ Tx!CanIrq
  /\ event' = (event \/ (Tx!RxBroadcasts(can) /\ place[can_rx] # "unborn"))
  /\ UNCHANGED <<loops, bus>>

TimerWakeup(t) == Tx!TimerWakeup(t) /\ UNCHANGED <<loops, event, bus>>

TransmissionEnds ==
  /\ healthy \/ woken < MaxWakeups
  /\ Tx!TransmissionEnds
  /\ busy' = 0
  /\ UNCHANGED <<loops, event, arrived, healthy>>

(* Another node's frame, on a healthy bus as on any other. *)
FrameReceived ==
  /\ arrived < FramesPerTick
  /\ healthy \/ woken < MaxWakeups
  /\ can' = Tx!BusReceive(can, "frame")
  /\ arrived' = arrived + 1
  /\ UNCHANGED <<ready, txqueue, rdymsg, timer, blocked, loops, event, busy, healthy>>

(* An error status change, which a healthy bus does not have. *)
BusErrorStatus ==
  /\ ~healthy
  /\ woken < MaxWakeups
  /\ arrived < FramesPerTick
  /\ Tx!BusErrorStatus
  /\ arrived' = arrived + 1
  /\ UNCHANGED <<loops, event, busy, healthy>>

Tick ==
  /\ ready = <<>> /\ ~Tx!IrqLine(can)
  /\ \A t \in Thread : place[t] \in {"boot", "startup", "asleep", "log"} => wait[t] > 0
  /\ ~(place[can_rx] = "asleep" /\ event)
  /\ healthy /\ can.mbx # <<>> => busy < FrameTicks
  /\ wdg > 0
  /\ Tx!Tick
  /\ wait' = [t \in Thread |->
       IF wait[t] = 0 \/ (t = adc_worker /\ wait[t] = TIME_INFINITE) THEN wait[t]
       ELSE wait[t] - 1]
  /\ wdg' = wdg - 1
  /\ worked' = IF place[adc_worker] = "transmit"
               THEN (worked + 1) % SYSTIME_VALUES ELSE worked
  /\ busy' = IF healthy /\ can.mbx # <<>> THEN busy + 1 ELSE 0
  /\ arrived' = 0
  /\ UNCHANGED <<place, stats_check, woken, event, healthy>>

(* Everything starts again: the state is that of Init. *)
WatchdogReset ==
  /\ wdg = 0
  /\ can' = Tx!can_lld_start(Tx!can_lld_init)
  /\ ready' = <<>>
  /\ txqueue' = <<>>
  /\ rdymsg' = [t \in Thread |-> "MSG_OK"]
  /\ timer' = [t \in Thread |-> Tx!Off]
  /\ blocked' = [t \in Thread |-> 0]
  /\ place' = BootPlace
  /\ wait' = BootWait
  /\ stats_check' = 0
  /\ woken' = 0
  /\ wdg' = WatchdogTicks
  /\ worked' = 0
  /\ event' = FALSE
  /\ arrived' = 0
  /\ busy' = 0
  /\ UNCHANGED healthy

Next ==
  \/ EnterLoop
  \/ MainRound
  \/ MainCalls
  \/ AdcCalls
  \/ RxCalls
  \/ RxWaits
  \/ RxReceives
  \/ RxServed
  \/ Transmit
  \/ ReturnTimeout
  \/ Enqueue
  \/ StatsDone
  \/ RxLogged
  \/ CanIrq
  \/ \E t \in Thread : TimerWakeup(t)
  \/ TransmissionEnds
  \/ FrameReceived
  \/ BusErrorStatus
  \/ Tick
  \/ WatchdogReset

SafeSpec == Init /\ [][Next]_vars

(* What the board does by itself, and what a healthy bus does for it. *)
Own ==
  \/ EnterLoop
  \/ MainRound \/ MainCalls \/ StatsDone
  \/ AdcCalls
  \/ RxCalls \/ RxWaits \/ RxReceives \/ RxServed \/ RxLogged
  \/ Transmit \/ ReturnTimeout \/ Enqueue
  \/ CanIrq
  \/ \E t \in Thread : TimerWakeup(t)
  \/ healthy /\ TransmissionEnds
  \/ Tick
  \/ WatchdogReset

(* The processor does not stand still: it serves the interrupts and runs   *)
(* the threads, and time passes when there is nothing to do.  The bus need *)
(* receive nothing, and only a healthy one ends the requests.              *)
Fairness == WF_vars(Own)

Spec == SafeSpec /\ Fairness

-----------------------------------------------------------------------------
(* The view main has of the board. *)
Main ==
  INSTANCE MainLoop WITH
    at <- IF place[main] = "calling" THEN "asleep" ELSE place[main],
    left <- IF place[main] # "transmit" THEN wait[main]
            ELSE IF timer[main] = Tx!Off THEN 0 ELSE timer[main],
    MaxWoken <- MaxWakeups + 3 + FramesPerTick * (3 * FrameTicks + 1)

(* Whatever the other threads and the bus do, main behaves as MainLoop     *)
(* says, and what is shown there of the watchdog holds of the board.       *)
ImplementsMainLoop == Main!SafeSpec

(* On a healthy bus no call of canTransmit times out and none of the       *)
(* threads' frames is dropped, although there are fewer mailboxes than     *)
(* threads.                                                                *)
NoFrameDropped == healthy => \A t \in Thread : rdymsg[t] = "MSG_OK"

(* On a healthy bus the worker never sleeps longer than its period: the    *)
(* unsigned difference in system_adc_worker does not go below zero.        *)
NeverOversleeps ==
  healthy /\ place[adc_worker] = "asleep" =>
    wait[adc_worker] <= PeriodTicks \/ wait[adc_worker] <= CH_CFG_ST_TIMEDELTA

(* On any bus, the worker sleeps longer than its period only after it has  *)
(* waited for a mailbox for longer than that.                              *)
OversleepNeedsFullMailboxes ==
  place[adc_worker] = "asleep" /\ wait[adc_worker] > PeriodTicks =>
    blocked[adc_worker] > PeriodTicks \/ blocked[adc_worker] > CAN_TRANSMIT_TIMEOUT

(* On a healthy bus the watchdog does not reset the board. *)
NoWatchdogReset == healthy => wdg > 0

(* On a healthy bus the samples and the statistics keep coming: no thread  *)
(* starves another in the cooperative scheduling.                          *)
SamplesAndStatsGoOn ==
  healthy => []<>(place[adc_worker] = "calling") /\ []<>(place[main] = "log")
=============================================================================
