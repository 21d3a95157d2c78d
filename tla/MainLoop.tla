------------------------------ MODULE MainLoop ------------------------------
(***************************************************************************)
(* The loop of main (main.c) and the independent watchdog it feeds: sleep, *)
(* every so often broadcast the statistics, feed.  The statistics are sent *)
(* with canTransmit, so the feeding waits for a mailbox; the other threads *)
(* and the bus appear here only as CAN interrupts, after which a mailbox   *)
(* is free or is not.  Board puts the threads and the bus in their place.  *)
(*                                                                         *)
(* A watchdog that is not fed in time restarts the board: RAM, and with it *)
(* the configuration and the provisioning, starts anew.                    *)
(***************************************************************************)
EXTENDS Integers

CONSTANTS
  MAIN_THREAD_CHECK_INTERVAL_MS,   \* the sleep of the loop, in ms
  MAIN_THREAD_SLEEP_NORMAL_MS,     \* the statistics are sent after this, in ms
  TICKS_PER_MS,                    \* CH_CFG_ST_FREQUENCY / 1000
  CAN_TRANSMIT_TIMEOUT,            \* in ticks
  WatchdogTicks,                   \* the watchdog's reload value, in ticks
  BootTicks,                       \* bound: from wdgStart to the loop
  LogTicks,                        \* bound: one log_info on the serial line
  MaxWoken                         \* bound: wake-ups counted in one call

ASSUME MainLoopAssumption ==
  /\ MAIN_THREAD_CHECK_INTERVAL_MS \in Nat
  /\ MAIN_THREAD_SLEEP_NORMAL_MS \in Nat
  /\ TICKS_PER_MS \in Nat
  /\ CAN_TRANSMIT_TIMEOUT \in Nat
  /\ WatchdogTicks \in Nat \ {0}
  /\ BootTicks \in Nat
  /\ LogTicks \in Nat
  /\ MaxWoken \in Nat

VARIABLES
  at,            \* where main is: "boot", "asleep", "transmit", "log"
  left,          \* ticks until main goes on at the latest
  stats_check,   \* ms counted towards the next statistics
  woken,         \* history: wake-ups without a mailbox during this call
  wdg            \* ticks left on the watchdog

vars == <<at, left, stats_check, woken, wdg>>

(* chThdSleepMilliseconds(MAIN_THREAD_CHECK_INTERVAL_MS), in ticks. *)
CheckTicks == MAIN_THREAD_CHECK_INTERVAL_MS * TICKS_PER_MS

(* The board has been reset and _start_watchdog has returned. *)
Init ==
  /\ at = "boot"
  /\ left = BootTicks
  /\ stats_check = 0
  /\ woken = 0
  /\ wdg = WatchdogTicks

EnterLoop ==
  /\ at = "boot"
  /\ at' = "asleep"
  /\ left' = CheckTicks
  /\ UNCHANGED <<stats_check, woken, wdg>>

StatsDue == stats_check + MAIN_THREAD_CHECK_INTERVAL_MS > MAIN_THREAD_SLEEP_NORMAL_MS

(* Mutant of Feed: the watchdog is not reset. *)
FeedNever ==
  /\ at' = "asleep"
  /\ left' = CheckTicks
  /\ wdg' = wdg

(* wdgReset, and the next sleep. *)
Feed ==
  /\ at' = "asleep"
  /\ left' = CheckTicks
  /\ wdg' = WatchdogTicks

(* Mutant of Round: the interval is stored, not added. *)
RoundUncounted ==
  /\ at = "asleep" /\ left = 0
  /\ ~StatsDue
  /\ stats_check' = MAIN_THREAD_CHECK_INTERVAL_MS
  /\ Feed
  /\ UNCHANGED woken

(* A round without statistics. *)
Round ==
  /\ at = "asleep" /\ left = 0
  /\ ~StatsDue
  /\ stats_check' = stats_check + MAIN_THREAD_CHECK_INTERVAL_MS
  /\ Feed
  /\ UNCHANGED woken

(* broadcast_stats calls canTransmit.  If no mailbox is free main waits. *)
BroadcastStats ==
  /\ at = "asleep" /\ left = 0
  /\ StatsDue
  /\ stats_check' = stats_check + MAIN_THREAD_CHECK_INTERVAL_MS
  /\ woken' = 0
  /\ \/ at' = "log" /\ left' = LogTicks
     \/ at' = "transmit" /\ left' = CAN_TRANSMIT_TIMEOUT
  /\ UNCHANGED wdg

(* A CAN interrupt wakes main, and there is no mailbox for it: it waits    *)
(* again, for the whole timeout.                                           *)
WaitAgain ==
  /\ at = "transmit"
  /\ woken < MaxWoken
  /\ woken' = woken + 1
  /\ left' = CAN_TRANSMIT_TIMEOUT
  /\ UNCHANGED <<at, stats_check, wdg>>

(* canTransmit returns, with a mailbox after an interrupt or after the     *)
(* timeout: no difference to broadcast_stats, which goes on to log.        *)
TransmitReturns ==
  /\ at = "transmit"
  /\ at' = "log"
  /\ left' = LogTicks
  /\ UNCHANGED <<stats_check, woken, wdg>>

(* Mutant of StatsDone: the count goes on. *)
StatsDoneUnreset ==
  /\ at = "log"
  /\ woken' = 0
  /\ Feed
  /\ UNCHANGED stats_check

(* Back in the loop after broadcast_stats. *)
StatsDone ==
  /\ at = "log"
  /\ stats_check' = 0
  /\ woken' = 0
  /\ Feed

Tick ==
  /\ wdg > 0
  /\ left > 0
  /\ left' = left - 1
  /\ wdg' = wdg - 1
  /\ UNCHANGED <<at, stats_check, woken>>

WatchdogReset ==
  /\ wdg = 0
  /\ at' = "boot"
  /\ left' = BootTicks
  /\ stats_check' = 0
  /\ woken' = 0
  /\ wdg' = WatchdogTicks

Next ==
  \/ EnterLoop
  \/ Round
  \/ BroadcastStats
  \/ WaitAgain
  \/ TransmitReturns
  \/ StatsDone
  \/ Tick
  \/ WatchdogReset

SafeSpec == Init /\ [][Next]_vars

(* Main gets the processor, its calls return when their time is up, time   *)
(* passes, and the watchdog does its work.  Nothing is assumed of the CAN  *)
(* interrupts.                                                             *)
Spec ==
  /\ SafeSpec
  /\ WF_vars(EnterLoop)
  /\ WF_vars(Round)
  /\ WF_vars(BroadcastStats)
  /\ WF_vars(TransmitReturns /\ left = 0)
  /\ WF_vars(StatsDone)
  /\ WF_vars(Tick)
  /\ WF_vars(WatchdogReset)

-----------------------------------------------------------------------------
TypeOK ==
  /\ at \in {"boot", "asleep", "transmit", "log"}
  /\ left \in Nat
  /\ stats_check \in 0..(MAIN_THREAD_SLEEP_NORMAL_MS + MAIN_THREAD_CHECK_INTERVAL_MS)
  /\ woken \in 0..MaxWoken
  /\ wdg \in 0..WatchdogTicks

(* What main needs, at most, from one feeding to the next when it is woken *)
(* n times without a mailbox.                                              *)
RoundTicks(n) == BootTicks + CheckTicks + (n + 1) * CAN_TRANSMIT_TIMEOUT + LogTicks

(* The watchdog resets the board only if CAN interrupts kept main waiting: *)
(* their number during one call is what makes the wait outlast the reload  *)
(* value.  A bus on which nothing moves does not reset the board.          *)
ResetNeedsWakeups == wdg = 0 => RoundTicks(woken) >= WatchdogTicks

(* The inductive invariant: what the watchdog has counted since it was fed *)
(* is accounted for by the place main is at.                               *)
Accounted ==
  LET spent == WatchdogTicks - wdg
      asleep == BootTicks + CheckTicks
      waited == asleep + (woken + 1) * CAN_TRANSMIT_TIMEOUT
  IN /\ at = "boot" => spent + left <= BootTicks
     /\ at = "asleep" => spent + left <= asleep
     /\ at = "transmit" => spent + left <= waited
     /\ at = "log" => spent + left <= waited + LogTicks

(* In the loop the count towards the statistics has not passed the limit. *)
Counted == at \in {"boot", "asleep"} => stats_check <= MAIN_THREAD_SLEEP_NORMAL_MS

IInv == TypeOK /\ Accounted /\ Counted

(* The statistics keep coming, on any bus, unless CAN interrupts keep      *)
(* coming that leave main without a mailbox: neither a wait nor a reset    *)
(* comes between for good.                                                 *)
StatsUnlessWoken == []<><<StatsDone>>_vars \/ []<><<WaitAgain>>_vars
=============================================================================
