----------------------------- MODULE AdcPacing ------------------------------
(***************************************************************************)
(* The pace of system_adc_worker (system_ADC.c): each cycle takes the time *)
(* it started at, samples and broadcasts, and sleeps for the sampling      *)
(* period less the time this took.  System time is an unsigned counter of  *)
(* ticks that wraps around; the subtraction is unsigned too.  The clock is *)
(* read once for the time worked, and once more when the timer is set; a   *)
(* tick may come between.                                                  *)
(*                                                                         *)
(* What the work consists of is left open, only its length matters: it     *)
(* includes the wait for a mailbox in canTransmit (CanTx), which may last  *)
(* CAN_TRANSMIT_TIMEOUT and more.  The sample rate is changed by can_rx    *)
(* while the worker sleeps or waits.                                       *)
(***************************************************************************)
EXTENDS Integers

CONSTANTS
  SYSTIME_VALUES,        \* number of values of systime_t, 2^32
  MS_PER_SECOND,         \* 1000
  TICKS_PER_MS,          \* CH_CFG_ST_FREQUENCY / 1000
  CH_CFG_ST_TIMEDELTA,   \* shortest delay of a timer, in ticks
  Rates,                 \* sample rates that may be configured
  DefaultRate,           \* ANALOGX_DEFAULT_SAMPLE_RATE
  MaxWork,               \* bound on the ticks one cycle's work takes
  MaxSlip                \* bound on the ticks between the two readings

ASSUME AdcPacingAssumption ==
  /\ SYSTIME_VALUES \in Nat \ {0}
  /\ MS_PER_SECOND \in Nat
  /\ TICKS_PER_MS \in Nat
  /\ MS_PER_SECOND * TICKS_PER_MS < SYSTIME_VALUES
  /\ CH_CFG_ST_TIMEDELTA \in 1..(SYSTIME_VALUES - 1)
  /\ Rates \subseteq Nat
  /\ DefaultRate \in Rates
  /\ MaxWork \in 0..(SYSTIME_VALUES - 1)
  /\ MaxSlip \in 0..(SYSTIME_VALUES - 1)

VARIABLES
  now,      \* the system time
  rate,     \* g_config_group_1.update_rate_hz
  st,       \* the worker: "working", "setting" its timer, or "asleep"
  start,    \* its local variable start
  period,   \* history: the period of the last sleep
  left,     \* ticks left of the sleep; before it, the argument of chThdSleep
  worked,   \* history: ticks the work of the cycle really took
  slip      \* history: ticks between the two readings

vars == <<now, rate, st, start, period, left, worked, slip>>

systime_t == 0..(SYSTIME_VALUES - 1)

TIME_INFINITE == SYSTIME_VALUES - 1

(* Mutant of Wrap: arithmetic without a width. *)
WrapNever(x) == x

(* A sum or difference of two system times, as systime_t holds it. *)
Wrap(x) ==
  IF x < 0 THEN x + SYSTIME_VALUES
  ELSE IF x >= SYSTIME_VALUES THEN x - SYSTIME_VALUES
  ELSE x

(* MS2ST(1000 / rate); the quotient of a division by zero is undefined. *)
Periods(r) ==
  IF r = 0 THEN systime_t ELSE {(MS_PER_SECOND \div r) * TICKS_PER_MS}

Init ==
  /\ now = 0
  /\ rate = DefaultRate
  /\ st = "working"
  /\ start = 0
  /\ period = 0
  /\ left = 0
  /\ worked = 0
  /\ slip = 0

(* Mutants of SleepTime: without the compensation, and with the operands   *)
(* swapped.                                                                *)
SleepTimeFull(p, work_time) == p

SleepTimeSwapped(p, work_time) == Wrap(work_time - p)

SleepTime(p, work_time) == Wrap(p - work_time)

(* The work is done: the clock is read, and the sleep computed. *)
Compensate ==
  /\ st = "working"
  /\ st' = "setting"
  /\ period' \in Periods(rate)
  /\ left' = SleepTime(period', Wrap(now - start))
  /\ UNCHANGED <<now, rate, start, worked, slip>>

(* chThdSleep: chVTDoSetI reads the clock, raises a delay that is too      *)
(* short, and the timer runs from now on; chSchGoSleepTimeoutS sets none   *)
(* for TIME_INFINITE.                                                      *)
GoToSleep ==
  /\ st = "setting"
  /\ st' = "asleep"
  /\ left' = IF left < CH_CFG_ST_TIMEDELTA THEN CH_CFG_ST_TIMEDELTA ELSE left
  /\ UNCHANGED <<now, rate, start, period, worked, slip>>

(* The sleep is over and the next cycle begins. *)
StartCycle ==
  /\ st = "asleep"
  /\ left = 0
  /\ st' = "working"
  /\ start' = now
  /\ worked' = 0
  /\ slip' = 0
  /\ UNCHANGED <<now, rate, period, left>>

(* A tick; the work of a cycle is bounded, and a worker whose timer has    *)
(* run out may have to wait for the processor.                             *)
Tick ==
  /\ now' = Wrap(now + 1)
  /\ \/ /\ st = "working"
        /\ worked < MaxWork
        /\ worked' = worked + 1
        /\ UNCHANGED <<left, slip>>
     \/ /\ st = "setting"
        /\ slip < MaxSlip
        /\ slip' = slip + 1
        /\ UNCHANGED <<left, worked>>
     \/ /\ st = "asleep"
        /\ left' = IF left \in {0, TIME_INFINITE} THEN left ELSE left - 1
        /\ UNCHANGED <<worked, slip>>
  /\ UNCHANGED <<rate, st, start, period>>

(* can_rx stores a new rate (api_set_config_group_1); it does not run      *)
(* while the worker goes to sleep.                                         *)
SetRate(r) ==
  /\ st # "setting"
  /\ rate' = r
  /\ UNCHANGED <<now, st, start, period, left, worked, slip>>

Next ==
  \/ Compensate
  \/ GoToSleep
  \/ StartCycle
  \/ Tick
  \/ \E r \in Rates : SetRate(r)

SafeSpec == Init /\ [][Next]_vars

(* The work of a cycle ends, time passes, and a worker whose sleep is over *)
(* gets the processor.                                                     *)
Spec ==
  /\ SafeSpec
  /\ WF_vars(Compensate)
  /\ WF_vars(GoToSleep)
  /\ WF_vars(StartCycle)
  /\ WF_vars(Tick)

-----------------------------------------------------------------------------
TypeOK ==
  /\ now \in systime_t
  /\ rate \in Rates
  /\ st \in {"working", "setting", "asleep"}
  /\ start \in systime_t
  /\ period \in systime_t
  /\ left \in systime_t
  /\ worked \in 0..MaxWork
  /\ slip \in 0..MaxSlip

(* A timer that runs: the worker will be woken. *)
TimerRuns == st = "asleep" /\ left \in 1..(TIME_INFINITE - 1)

(* The compensation works when the work fits into the period: the worker   *)
(* sleeps with a timer that ends one period after the start of its cycle,  *)
(* and later by just the ticks that came between the two readings of the   *)
(* clock, also when the system time wraps around meanwhile.  If less than  *)
(* the shortest timer is left of the period, the sleep is the shortest.    *)
WakesOnPeriod ==
  st = "asleep" /\ left # 0 /\ worked <= period /\ period < TIME_INFINITE =>
    /\ left <= period \/ left <= CH_CFG_ST_TIMEDELTA
    /\ worked + CH_CFG_ST_TIMEDELTA <= period =>
         TimerRuns /\ Wrap(now + left) = Wrap(Wrap(start + period) + slip)

(* The work time computed from the wrapping clock is the real one, and the *)
(* ticks since then are those of the slip.                                 *)
WorkTimeExact ==
  /\ st = "working" => Wrap(now - start) = worked /\ slip = 0
  /\ st = "setting" =>
       /\ left = SleepTime(period, worked)
       /\ now = Wrap(Wrap(start + worked) + slip)

(* The inductive invariant behind WakesOnPeriod. *)
IInv == TypeOK /\ WakesOnPeriod /\ WorkTimeExact

(* The cycle took no longer than a period, which is one that ends. *)
WorkFits == st = "asleep" => worked <= period /\ period < TIME_INFINITE

(* The worker goes on sampling (the loop of system_adc_worker) as long as  *)
(* no cycle takes longer than the period it then computes, whatever rates  *)
(* are set meanwhile.                                                      *)
SamplesForever == []WorkFits => []<>(st = "working") /\ []<>(st = "asleep")

(* What the comment in system_adc_worker says, "Compensate for amount of   *)
(* time needed for sampling and broadcasting CAN message": the time spent  *)
(* shortens the sleep, which never exceeds the period.                     *)
WorkShortensSleep ==
  st = "asleep" => left <= period \/ left <= CH_CFG_ST_TIMEDELTA
=============================================================================
