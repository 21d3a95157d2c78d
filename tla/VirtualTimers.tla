---------------------------- MODULE VirtualTimers ---------------------------
(***************************************************************************)
(* The kernel's virtual timers (os/rt/src/chvt.c, chvt.h) in tickless mode *)
(* on the compare channel of TIM2 (st_lld).  The armed timers are a delta  *)
(* list: each holds its distance from the one before, the first from       *)
(* vt_lasttime.  The compare register holds the time of the next interrupt *)
(* and the hardware compares it with the counter for equality only: an     *)
(* alarm written for a time that has passed comes a whole turn later.      *)
(*                                                                         *)
(* The counter goes on while code runs.  An operation reads it in one step *)
(* and writes the compare register in a later one, under one kernel lock.  *)
(* The callback is wakeup (chschd.c), which sets no timer.                 *)
(***************************************************************************)
EXTENDS Integers, Sequences, Functions

CONSTANTS
  Timer,                 \* the timers, one per waiting thread
  Delays,                \* per timer, the delays it is set to
  Resettable,            \* the timers of waits that can end early
  Periodic,              \* the timers set again as soon as they have expired
  SYSTIME_VALUES,        \* number of values of systime_t, 2^32
  CH_CFG_ST_TIMEDELTA,   \* the shortest delay, in ticks
  MaxSpan,               \* bound: ticks after an expiry until timers are set
  MaxSlip,               \* bound: ticks from reading the counter to the alarm
  MaxLag                 \* bound: ticks an alarm interrupt takes to be served

systime_t == 0..(SYSTIME_VALUES - 1)

ASSUME VirtualTimersAssumption ==
  /\ SYSTIME_VALUES \in Nat \ {0}
  /\ CH_CFG_ST_TIMEDELTA \in 1..(SYSTIME_VALUES - 2)
  /\ MaxSpan \in Nat
  /\ MaxSlip \in 0..(CH_CFG_ST_TIMEDELTA - 1)
  /\ MaxLag \in Nat
  /\ Periodic \subseteq Timer
  /\ Resettable \subseteq Timer \ Periodic
  /\ Delays \in [Timer -> SUBSET (1..(SYSTIME_VALUES - 2))]

VARIABLES
  now,        \* TIM2 CNT, the system time
  vtlist,     \* the armed timers, in the order of the list
  vt_delta,   \* their deltas; 0 for a timer that is not armed
  lasttime,   \* vtlist.vt_lasttime
  tim,        \* TIM2: ccr, the interrupt enable and the compare flag
  latched,    \* the interrupt is pending in the interrupt controller
  cpu,        \* "thread", "isr", or the alarm it is about to write
  lag,        \* ticks since the interrupt became pending
  slip        \* ticks since the counter was read for the alarm

vars == <<now, vtlist, vt_delta, lasttime, tim, latched, cpu, lag, slip>>

(* Mutant of Wrap: arithmetic without a width. *)
WrapNever(x) == x

(* A system time as systime_t holds it. *)
Wrap(x) == x % SYSTIME_VALUES

AtLeastDelta(x) == IF x < CH_CFG_ST_TIMEDELTA THEN CH_CFG_ST_TIMEDELTA ELSE x

(* Mutant of HeaderDelta: it is left at the delta of a short timer. *)
HeaderDeltaShort == CH_CFG_ST_TIMEDELTA

(* The delta in the header of the list. *)
HeaderDelta == SYSTIME_VALUES - 1

FirstDelta == IF vtlist = <<>> THEN HeaderDelta ELSE vt_delta[Head(vtlist)]

Elapsed == Wrap(now - lasttime)

(* The distance from lasttime of the timer at each position of a list, the *)
(* sum of the deltas up to it.                                             *)
Distances(list, delta) ==
  LET sum[k \in 0..Len(list)] == IF k = 0 THEN 0 ELSE sum[k - 1] + delta[list[k]]
  IN sum

Init ==
  /\ now = 0
  /\ vtlist = <<>>
  /\ vt_delta = [t \in Timer |-> 0]
  /\ lasttime = 0
  /\ tim = [ccr |-> 0, cc1ie |-> FALSE, cc1if |-> FALSE]
  /\ latched = FALSE
  /\ cpu = [at |-> "thread"]
  /\ lag = 0
  /\ slip = 0

-----------------------------------------------------------------------------
(* TIM2 *)

StartAlarm(time) == [at |-> "start_alarm", time |-> Wrap(time)]
SetAlarm(time) == [at |-> "set_alarm", time |-> Wrap(time)]
Done == [at |-> "thread"]

StopAlarm == [tim EXCEPT !.cc1ie = FALSE]

WriteAlarm ==
  /\ cpu.at \in {"start_alarm", "set_alarm"}
  /\ tim' = IF cpu.at = "start_alarm"
            THEN [ccr |-> cpu.time, cc1ie |-> TRUE, cc1if |-> FALSE]
            ELSE [tim EXCEPT !.ccr = cpu.time]
  /\ cpu' = Done
  /\ slip' = 0
  /\ UNCHANGED <<now, vtlist, vt_delta, lasttime, latched, lag>>

(* The counter advances; a match sets the flag whether or not it is        *)
(* enabled.  The kernel lock and the interrupt handler take a bounded      *)
(* number of ticks, and so do the threads with periodic timers until they  *)
(* set them again.                                                         *)
Tick ==
  /\ Periodic \subseteq Range(vtlist) \/ Elapsed < MaxSpan
  /\ latched \/ cpu.at = "isr" => lag < MaxLag
  /\ cpu.at \in {"start_alarm", "set_alarm"} => slip < MaxSlip
  /\ now' = Wrap(now + 1)
  /\ LET match == tim.ccr = now'
     IN /\ tim' = [tim EXCEPT !.cc1if = @ \/ match]
        /\ latched' = (latched \/ (match /\ tim.cc1ie))
  /\ lag' = IF latched \/ cpu.at = "isr" THEN lag + 1 ELSE lag
  /\ slip' = IF cpu.at \in {"start_alarm", "set_alarm"} THEN slip + 1 ELSE slip
  /\ UNCHANGED <<vtlist, vt_delta, lasttime, cpu>>

-----------------------------------------------------------------------------
(* Setting and resetting a timer *)

(* The scan of the list from a position on: a timer delta ticks after the  *)
(* one before that position passes timers as long as their deltas are less *)
(* than what is left of its own, and each takes its delta off.             *)
Scan(from, delta) ==
  LET distance == Distances(vtlist, vt_delta)
      Rest(k) == delta - (distance[k - 1] - distance[from - 1])
      at == CHOOSE k \in from..(Len(vtlist) + 1) :
              /\ \A j \in from..(k - 1) : vt_delta[vtlist[j]] < Rest(j)
              /\ k <= Len(vtlist) => vt_delta[vtlist[k]] >= Rest(k)
  IN [at |-> at, delta |-> Rest(at)]

(* Mutant of PlaceBeyondRange: the sum that went over the range is used    *)
(* like any other.                                                         *)
PlaceInRange(delta) == Scan(1, delta)

(* The place of a timer whose distance from lasttime went over the range   *)
(* of systime_t: after the first one, which brings it back.                *)
PlaceBeyondRange(delta) == Scan(2, Wrap(delta - FirstDelta))

(* The delta of a timer is taken off the one it is inserted before. *)
Insert(t, place) ==
  /\ vtlist' = SubSeq(vtlist, 1, place.at - 1) \o <<t>>
               \o SubSeq(vtlist, place.at, Len(vtlist))
  /\ vt_delta' = [u \in Timer |->
       CASE u = t -> place.delta
         [] place.at <= Len(vtlist) /\ u = vtlist[place.at] -> vt_delta[u] - place.delta
         [] OTHER -> vt_delta[u]]

chVTDoSetI(t, requested) ==
  /\ cpu.at = "thread"
  /\ t \notin Range(vtlist)
  /\ LET delay == AtLeastDelta(requested)
         delta == Wrap(Elapsed + delay)
     IN \/ /\ vtlist = <<>>
           /\ lasttime' = now
           /\ Insert(t, [at |-> 1, delta |-> delay])
           /\ cpu' = StartAlarm(now + delay)
        \/ /\ vtlist # <<>> /\ delta < Elapsed
           /\ Insert(t, PlaceBeyondRange(delta))
           /\ UNCHANGED <<lasttime, cpu>>
        \/ /\ vtlist # <<>> /\ delta >= Elapsed
           /\ Insert(t, Scan(1, delta))
           /\ cpu' = IF delta < FirstDelta THEN SetAlarm(lasttime + delta) ELSE cpu
           /\ UNCHANGED lasttime
  /\ UNCHANGED <<now, tim, latched, lag, slip>>

(* The timer leaves the list; its delta goes to the one after it. *)
Unlink(k) ==
  /\ vtlist' = SubSeq(vtlist, 1, k - 1) \o SubSeq(vtlist, k + 1, Len(vtlist))
  /\ vt_delta' = [u \in Timer |->
       CASE u = vtlist[k] -> 0
         [] k < Len(vtlist) /\ u = vtlist[k + 1] -> Wrap(vt_delta[u] + vt_delta[vtlist[k]])
         [] OTHER -> vt_delta[u]]

chVTDoResetI(t) ==
  /\ cpu.at = "thread"
  /\ \E k \in DOMAIN vtlist :
       /\ vtlist[k] = t
       /\ Unlink(k)
       /\ \/ /\ k > 1
             /\ UNCHANGED <<tim, cpu>>
          \/ /\ k = 1 /\ vtlist' = <<>>
             /\ tim' = StopAlarm
             /\ UNCHANGED cpu
          \/ /\ k = 1 /\ vtlist' # <<>>
             /\ LET first == vt_delta'[Head(vtlist')]
                IN cpu' = IF Elapsed >= first
                          THEN cpu
                          ELSE SetAlarm(lasttime + Elapsed + AtLeastDelta(first - Elapsed))
             /\ UNCHANGED tim
  /\ UNCHANGED <<now, lasttime, latched, lag, slip>>

-----------------------------------------------------------------------------
(* The interrupt: ST_HANDLER and chVTDoTickI *)

(* The handler is entered when no lock is held.  An interrupt that stayed  *)
(* latched after the flag was cleared is ignored.                          *)
EnterIsr ==
  /\ cpu.at = "thread"
  /\ latched
  /\ latched' = FALSE
  /\ tim' = [tim EXCEPT !.cc1if = FALSE]
  /\ cpu' = IF tim.cc1if THEN [at |-> "isr"] ELSE Done
  /\ lag' = IF tim.cc1if THEN lag ELSE 0
  /\ UNCHANGED <<now, vtlist, vt_delta, lasttime, slip>>

(* Mutant of Fire: the alarm is stopped although other timers are armed. *)
FireStopsAlarm ==
  /\ cpu.at = "isr"
  /\ vtlist # <<>>
  /\ FirstDelta <= Elapsed
  /\ lasttime' = Wrap(lasttime + FirstDelta)
  /\ vtlist' = Tail(vtlist)
  /\ vt_delta' = [vt_delta EXCEPT ![Head(vtlist)] = 0]
  /\ tim' = StopAlarm
  /\ UNCHANGED <<now, latched, cpu, lag, slip>>

(* One round of the loop: the first timer is due, its callback is called. *)
Fire ==
  /\ cpu.at = "isr"
  /\ vtlist # <<>>
  /\ FirstDelta <= Elapsed
  /\ lasttime' = Wrap(lasttime + FirstDelta)
  /\ vtlist' = Tail(vtlist)
  /\ vt_delta' = [vt_delta EXCEPT ![Head(vtlist)] = 0]
  /\ tim' = IF Len(vtlist) = 1 THEN StopAlarm ELSE tim
  /\ UNCHANGED <<now, latched, cpu, lag, slip>>

(* Mutant of LeaveIsr: the alarm may be closer than the shortest delay. *)
LeaveIsrUnraised ==
  /\ cpu.at = "isr"
  /\ FirstDelta > Elapsed
  /\ cpu' = IF vtlist = <<>> THEN Done ELSE SetAlarm(lasttime + FirstDelta)
  /\ lag' = 0
  /\ UNCHANGED <<now, vtlist, vt_delta, lasttime, tim, latched, slip>>

(* The loop is over: the alarm of the timer that is first now. *)
LeaveIsr ==
  /\ cpu.at = "isr"
  /\ FirstDelta > Elapsed
  /\ cpu' = IF vtlist = <<>>
            THEN Done
            ELSE SetAlarm(now + AtLeastDelta(Wrap(lasttime + FirstDelta - now)))
  /\ lag' = 0
  /\ UNCHANGED <<now, vtlist, vt_delta, lasttime, tim, latched, slip>>

-----------------------------------------------------------------------------
(* lasttime moves when a timer expires or the list is empty.  Threads that *)
(* only ever reset their timers would let it fall behind without bound; on *)
(* the board the sleep of main expires ten times a second.                 *)
RecentExpiry == vtlist = <<>> \/ Elapsed < MaxSpan

SetTimer(t) ==
  /\ t \in Periodic \/ RecentExpiry
  /\ \E delay \in Delays[t] : chVTDoSetI(t, delay)

Next ==
  \/ Tick
  \/ WriteAlarm
  \/ EnterIsr
  \/ Fire
  \/ LeaveIsr
  \/ \E t \in Timer : SetTimer(t)
  \/ \E t \in Resettable : chVTDoResetI(t)

SafeSpec == Init /\ [][Next]_vars

(* The counter runs and a pending interrupt is taken as soon as no lock is *)
(* held, however often threads set and reset their timers meanwhile; the   *)
(* processor leaves its critical sections, and a thread that sleeps        *)
(* periodically does so.                                                   *)
Spec ==
  /\ SafeSpec
  /\ SF_vars(Tick)
  /\ WF_vars(WriteAlarm)
  /\ SF_vars(EnterIsr)
  /\ WF_vars(Fire)
  /\ WF_vars(LeaveIsr)
  /\ \A t \in Periodic : WF_vars(SetTimer(t))

-----------------------------------------------------------------------------
TypeOK ==
  /\ now \in systime_t
  /\ vtlist \in Seq(Timer) /\ IsInjective(vtlist)
  /\ vt_delta \in [Timer -> systime_t]
  /\ lasttime \in systime_t
  /\ tim \in [ccr : systime_t, cc1ie : BOOLEAN, cc1if : BOOLEAN]
  /\ latched \in BOOLEAN
  /\ cpu \in [at : {"thread", "isr"}]
             \cup [at : {"start_alarm", "set_alarm"}, time : systime_t]
  /\ lag \in 0..MaxLag
  /\ slip \in 0..MaxSlip

Position(t) == CHOOSE k \in DOMAIN vtlist : vtlist[k] = t

(* The ticks left to an armed timer, as the list represents them. *)
Left ==
  [t \in Range(vtlist) |-> Distances(vtlist, vt_delta)[Position(t)] - Elapsed]

(* How late a callback may come: an alarm moved to the shortest delay, and *)
(* an interrupt that had to wait.                                          *)
MaxLate == CH_CFG_ST_TIMEDELTA - 1 + MaxLag

(* The ticks after an expiry at which a timer may still be set: those of a *)
(* thread, or those by which the expiry came late.                         *)
Span == IF MaxSpan < MaxLate THEN MaxLate ELSE MaxSpan

(* From being set to its callback, timer t stays within what lasttime can  *)
(* be behind.                                                              *)
Fits(t) == \A d \in Delays[t] : Span + AtLeastDelta(d) + MaxLate < SYSTIME_VALUES - 1

(* Either every timer fits, or a periodic one does and moves lasttime on   *)
(* for the others.  A delay added to the time since an overdue expiry is   *)
(* in the range.  Behind a timer that may be reset there is none whose     *)
(* distance from lasttime goes over the range.                             *)
DelaysFit ==
  /\ (\A t \in Timer : Fits(t)) \/ (\E t \in Periodic : Fits(t))
  /\ Span + MaxLate < SYSTIME_VALUES - 1
  /\ \A t \in Timer : \A d \in Delays[t] : AtLeastDelta(d) + MaxLate < SYSTIME_VALUES
  /\ \A t \in Resettable : \A u \in Timer \ {t} : \A d \in Delays[u] :
       Span + AtLeastDelta(d) < SYSTIME_VALUES

(* The delta list keeps every timer's own deadline through insertions,     *)
(* removals and expiries around it, and the alarm is never missed: no      *)
(* callback comes early, none later than an interrupt that was moved to    *)
(* the shortest delay and then had to wait.                                *)
Countdown ==
  INSTANCE Timers WITH left <- Left,
                       MinDelay <- CH_CFG_ST_TIMEDELTA,
                       MaxDelay <- SYSTIME_VALUES - 2,
                       MaxLate <- MaxLate

ImplementsTimers == Countdown!Spec

(* The header is never taken for a timer that is due: the comment in       *)
(* chVTDoTickI relies on its delta being greater than all others.          *)
HeaderNeverDue ==
  cpu.at = "isr" /\ vtlist = <<>> => Elapsed < HeaderDelta

(* Every armed timer is served or reset. *)
ArmedTimersEnd ==
  \A t \in Timer : t \in Range(vtlist) ~> t \notin Range(vtlist)

(* What chVTDoSetI says of delay, "the number of ticks before the          *)
(* operation timeouts", with the largest values "interpreted as a normal   *)
(* time specification": the time left to a timer changes with time only,   *)
(* whatever is done to the others.                                         *)
TimersIndependent ==
  [][\A t \in Range(vtlist) \cap Range(vtlist)' :
       Left[t]' = Left[t] - Wrap(now' - now)]_vars
=============================================================================
