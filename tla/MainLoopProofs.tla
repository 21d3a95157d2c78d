--------------------------- MODULE MainLoopProofs ---------------------------
(***************************************************************************)
(* The watchdog theorem for every interval, timeout and reload value.  The *)
(* invariant Accounted says that what the watchdog has counted since it    *)
(* was last fed, with what main may still take at its place, is bounded by *)
(* the rounds of waiting that the wake-ups of this call have cost.         *)
(***************************************************************************)
EXTENDS MainLoop, TLAPS

(* One more wake-up costs one more timeout. *)
LEMMA OneMoreTimeout ==
  ASSUME NEW n \in Nat, NEW t \in Nat
  PROVE  /\ (n + 1) * t \in Nat
         /\ ((n + 1) + 1) * t = (n + 1) * t + t
OBVIOUS

(* The sleep of the loop is a number of ticks. *)
LEMMA CheckTicksType == CheckTicks \in Nat
BY MainLoopAssumption DEF CheckTicks

(* The board comes up with a full watchdog and nothing spent. *)
LEMMA InitAccounted == Init => IInv
BY MainLoopAssumption, OneMoreTimeout, CheckTicksType DEF Init, IInv, TypeOK, Accounted, Counted

(* Every step of main, of time and of the watchdog keeps the account. *)
LEMMA NextAccounted == IInv /\ [Next]_vars => IInv'
<1> SUFFICES ASSUME IInv, [Next]_vars PROVE IInv'
  OBVIOUS
<1> USE MainLoopAssumption, CheckTicksType
<1> DEFINE waiting == (woken + 1) * CAN_TRANSMIT_TIMEOUT
<1>1. waiting \in Nat /\ woken \in Nat
  BY OneMoreTimeout DEF IInv, TypeOK
<1>2. ((woken + 1) + 1) * CAN_TRANSMIT_TIMEOUT = waiting + CAN_TRANSMIT_TIMEOUT
  BY OneMoreTimeout, <1>1
<1>3. /\ at \in {"boot", "asleep", "transmit", "log"}
      /\ left \in Nat
      /\ stats_check \in 0..(MAIN_THREAD_SLEEP_NORMAL_MS + MAIN_THREAD_CHECK_INTERVAL_MS)
      /\ woken \in 0..MaxWoken
      /\ wdg \in 0..WatchdogTicks
      /\ at \in {"boot", "asleep"} => stats_check <= MAIN_THREAD_SLEEP_NORMAL_MS
      /\ at = "boot" => WatchdogTicks - wdg + left <= BootTicks
      /\ at = "asleep" => WatchdogTicks - wdg + left <= BootTicks + CheckTicks
      /\ at = "transmit" => WatchdogTicks - wdg + left <= BootTicks + CheckTicks + waiting
      /\ at = "log" =>
           WatchdogTicks - wdg + left <= BootTicks + CheckTicks + waiting + LogTicks
  BY DEF IInv, TypeOK, Accounted, Counted
<1>4. ASSUME woken' = woken PROVE (woken' + 1) * CAN_TRANSMIT_TIMEOUT = waiting
  BY <1>4
<1>5. (0 + 1) * CAN_TRANSMIT_TIMEOUT = CAN_TRANSMIT_TIMEOUT
  OBVIOUS
<1>6. CASE EnterLoop
  BY <1>1, <1>3, <1>4, <1>6 DEF EnterLoop, IInv, TypeOK, Accounted, Counted
<1>7. CASE Round
  BY <1>1, <1>3, <1>4, <1>7 DEF Round, StatsDue, Feed, IInv, TypeOK, Accounted, Counted
<1>8. CASE BroadcastStats
  <2>1. stats_check' \in 0..(MAIN_THREAD_SLEEP_NORMAL_MS + MAIN_THREAD_CHECK_INTERVAL_MS)
    BY <1>3, <1>8 DEF BroadcastStats, StatsDue
  <2>2. QED
    BY <1>3, <1>5, <1>8, <2>1 DEF BroadcastStats, IInv, TypeOK, Accounted, Counted
<1>9. CASE WaitAgain
  <2>1. (woken' + 1) * CAN_TRANSMIT_TIMEOUT = waiting + CAN_TRANSMIT_TIMEOUT
    BY <1>2, <1>9 DEF WaitAgain
  <2>2. QED
    BY <1>1, <1>3, <1>9, <2>1 DEF WaitAgain, IInv, TypeOK, Accounted, Counted
<1>10. CASE TransmitReturns
  BY <1>1, <1>3, <1>4, <1>10 DEF TransmitReturns, IInv, TypeOK, Accounted, Counted
<1>11. CASE StatsDone
  BY <1>1, <1>3, <1>4, <1>11 DEF StatsDone, Feed, IInv, TypeOK, Accounted, Counted
<1>12. CASE Tick
  BY <1>1, <1>3, <1>4, <1>12 DEF Tick, IInv, TypeOK, Accounted, Counted
<1>13. CASE WatchdogReset
  BY <1>5, <1>13 DEF WatchdogReset, IInv, TypeOK, Accounted, Counted
<1>14. CASE UNCHANGED vars
  BY <1>1, <1>3, <1>4, <1>14 DEF vars, IInv, TypeOK, Accounted, Counted
<1>15. QED
  BY <1>6, <1>7, <1>8, <1>9, <1>10, <1>11, <1>12, <1>13, <1>14 DEF Next

(* The account implies the property: when the watchdog reaches zero it has *)
(* counted its whole reload value, which main's waits must cover.          *)
LEMMA AccountedEnough == IInv => ResetNeedsWakeups
<1> SUFFICES ASSUME IInv, wdg = 0 PROVE RoundTicks(woken) >= WatchdogTicks
  BY DEF ResetNeedsWakeups
<1>1. (woken + 1) * CAN_TRANSMIT_TIMEOUT \in Nat
  BY MainLoopAssumption, OneMoreTimeout DEF IInv, TypeOK
<1>2. QED
  BY <1>1, MainLoopAssumption, CheckTicksType DEF IInv, TypeOK, Accounted, RoundTicks

(* The types of the loop's variables, stats_check within one interval of   *)
(* the limit.                                                              *)
THEOREM MainLoopTypeCorrect == SafeSpec => []TypeOK
<1>1. IInv => TypeOK
  BY DEF IInv
<1>2. QED
  BY <1>1, InitAccounted, NextAccounted, PTL DEF SafeSpec

(* The watchdog resets the board only if the CAN interrupts during one     *)
(* canTransmit of main made its waits as long as the reload value, for     *)
(* every setting of the intervals and timeouts in main.c.                  *)
THEOREM WatchdogResetsNeedWakeups == SafeSpec => []ResetNeedsWakeups
BY InitAccounted, NextAccounted, AccountedEnough, PTL DEF SafeSpec
=============================================================================
