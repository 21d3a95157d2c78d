------------------------------ MODULE AdcProofs -----------------------------
(***************************************************************************)
(* Proofs about the ADC worker: its pace, for every width of systime_t,    *)
(* set of rates, tick frequency, length of the work and slip between the   *)
(* two readings of the clock, and its sample buffer, for every number of   *)
(* channels.                                                               *)
(***************************************************************************)
EXTENDS AdcPacing, AdcSampler, TLAPS

-----------------------------------------------------------------------------
(* The pace *)

(* MS2ST(1000 / rate) fits a systime_t. *)
LEMMA PeriodsFit ==
  ASSUME NEW r \in Nat
  PROVE  Periods(r) \subseteq systime_t
  <1>1. CASE r = 0
    BY <1>1 DEF Periods
  <1>2. CASE r # 0
    <2> DEFINE q == MS_PER_SECOND \div r
    <2>1. q \in Nat /\ q <= MS_PER_SECOND
      BY <1>2, AdcPacingAssumption
    <2> HIDE DEF q
    <2>2. q * TICKS_PER_MS \in Nat /\ q * TICKS_PER_MS <= MS_PER_SECOND * TICKS_PER_MS
      BY <2>1, AdcPacingAssumption
    <2>3. q * TICKS_PER_MS \in systime_t
      BY <2>2, AdcPacingAssumption DEF systime_t
    <2>4. QED
      BY <1>2, <2>3 DEF Periods, q
  <1>3. QED
    BY <1>1, <1>2

(* A sum or difference of system times wraps to a system time, and adding  *)
(* a tick and taking one from a delay cancel out.                          *)
LEMMA WrapFacts ==
  ASSUME NEW a \in systime_t, NEW b \in systime_t
  PROVE  /\ Wrap(a + b) \in systime_t
         /\ Wrap(a - b) \in systime_t
         /\ Wrap(a + 1) \in systime_t
         /\ b >= 1 => Wrap(Wrap(a + 1) + (b - 1)) = Wrap(a + b)
  BY AdcPacingAssumption DEF Wrap, systime_t

(* The first cycle starts with the invariant. *)
LEMMA InitIInv == Init => IInv
  BY AdcPacingAssumption DEF Init, IInv, TypeOK, WakesOnPeriod, WorkTimeExact,
     Wrap, systime_t

(* Every step of the worker, the clock and can_rx keeps it. *)
LEMMA NextIInv == IInv /\ [Next]_vars => IInv'
  <1> SUFFICES ASSUME IInv, [Next]_vars PROVE IInv'
    OBVIOUS
  <1>0. /\ TypeOK /\ WakesOnPeriod /\ WorkTimeExact
        /\ SYSTIME_VALUES \in Nat \ {0} /\ TIME_INFINITE = SYSTIME_VALUES - 1
        /\ CH_CFG_ST_TIMEDELTA \in 1..(SYSTIME_VALUES - 1)
        /\ MaxWork \in 0..(SYSTIME_VALUES - 1) /\ MaxSlip \in 0..(SYSTIME_VALUES - 1)
    BY AdcPacingAssumption DEF IInv, TIME_INFINITE
  <1> USE DEF TypeOK, systime_t
  <1>1. CASE Compensate
    <2>1. /\ st = "working" /\ st' = "setting" /\ period' \in Periods(rate)
          /\ left' = SleepTime(period', Wrap(now - start))
          /\ UNCHANGED <<now, rate, start, worked, slip>>
      BY <1>1 DEF Compensate
    <2>2. period' \in systime_t
      BY <1>0, <2>1, PeriodsFit, AdcPacingAssumption
    <2>3. Wrap(now - start) = worked /\ slip = 0
      BY <1>0, <2>1 DEF WorkTimeExact
    <2>4. left' \in systime_t /\ left' = SleepTime(period', worked)
      <3>1. left' = SleepTime(period', worked)
        BY <2>1, <2>3
      <3>2. SleepTime(period', worked) \in systime_t
        <4>1. worked \in systime_t
          BY <1>0
        <4>2. Wrap(period' - worked) \in systime_t
          BY <2>2, <4>1, WrapFacts
        <4>3. QED
          BY <4>2 DEF SleepTime
      <3>3. QED
        BY <3>1, <3>2
    <2>5. now = Wrap(Wrap(start + worked) + slip)
      BY <1>0, <2>3 DEF Wrap
    <2>6. TypeOK'
      BY <1>0, <2>1, <2>2, <2>4
    <2>7. WakesOnPeriod'
      BY <2>1 DEF WakesOnPeriod
    <2>8. WorkTimeExact'
      <3>1. left' = Wrap(period' - worked')
        BY <2>1, <2>4 DEF SleepTime
      <3>2. now' = Wrap(Wrap(start' + worked') + slip')
        BY <2>1, <2>5
      <3>3. QED
        BY <2>1, <3>1, <3>2 DEF WorkTimeExact, SleepTime
    <2>9. QED
      BY <2>6, <2>7, <2>8 DEF IInv
  <1>2. CASE GoToSleep
    <2>1. /\ st = "setting" /\ st' = "asleep"
          /\ left' = IF left < CH_CFG_ST_TIMEDELTA THEN CH_CFG_ST_TIMEDELTA ELSE left
          /\ UNCHANGED <<now, rate, start, period, worked, slip>>
      BY <1>2 DEF GoToSleep
    <2>2. /\ left = Wrap(period - worked)
          /\ now = Wrap(Wrap(start + worked) + slip)
      BY <1>0, <2>1 DEF WorkTimeExact, SleepTime
    <2>3. TypeOK' /\ WorkTimeExact'
      BY <1>0, <2>1 DEF WorkTimeExact
    <2>4. ASSUME worked <= period, period < TIME_INFINITE
          PROVE  /\ left' <= period \/ left' <= CH_CFG_ST_TIMEDELTA
                 /\ worked + CH_CFG_ST_TIMEDELTA <= period =>
                      /\ left' \in 1..(TIME_INFINITE - 1)
                      /\ Wrap(now + left') = Wrap(Wrap(start + period) + slip)
      <3>1. left = period - worked
        BY <1>0, <2>2, <2>4 DEF Wrap
      <3>2. Wrap(now + (period - worked)) = Wrap(Wrap(start + period) + slip)
        BY <1>0, <2>2, <2>4 DEF Wrap
      <3>3. QED
        BY <1>0, <2>1, <2>4, <3>1, <3>2
    <2>5. WakesOnPeriod'
      BY <2>1, <2>4 DEF WakesOnPeriod, TimerRuns
    <2>6. QED
      BY <2>3, <2>5 DEF IInv
  <1>3. CASE StartCycle
    BY <1>0, <1>3 DEF StartCycle, IInv, WakesOnPeriod, WorkTimeExact, Wrap
  <1>4. CASE Tick
    <2>1. now' \in systime_t
      BY <1>0, <1>4 DEF Tick, Wrap
    <2>2. CASE st = "working"
      BY <1>0, <1>4, <2>1, <2>2 DEF Tick, IInv, WakesOnPeriod, WorkTimeExact, Wrap
    <2>3. CASE st = "setting"
      <3>1. /\ now' = Wrap(now + 1) /\ slip < MaxSlip /\ slip' = slip + 1
            /\ UNCHANGED <<rate, st, start, period, left, worked>>
        BY <1>4, <2>3 DEF Tick
      <3>2. now' = Wrap(Wrap(start + worked) + slip')
        BY <1>0, <2>3, <3>1 DEF WorkTimeExact, Wrap
      <3>3. QED
        BY <1>0, <2>1, <2>3, <3>1, <3>2 DEF IInv, WakesOnPeriod, WorkTimeExact
    <2>4. CASE st = "asleep"
      <3>1. TypeOK' /\ WorkTimeExact'
        BY <1>0, <1>4, <2>1, <2>4 DEF Tick, WorkTimeExact
      <3>2. CASE left \in {0, TIME_INFINITE}
        BY <1>0, <1>4, <2>4, <3>1, <3>2 DEF Tick, IInv, WakesOnPeriod, TimerRuns
      <3>3. CASE left \notin {0, TIME_INFINITE}
        <4>1. /\ left' = left - 1 /\ now' = Wrap(now + 1)
              /\ UNCHANGED <<st, start, period, worked, slip>>
          BY <1>4, <2>4, <3>3 DEF Tick
        <4>2. Wrap(now' + left') = Wrap(now + left)
          BY <1>0, <3>3, <4>1, WrapFacts
        <4>3. QED
          BY <1>0, <2>4, <3>1, <3>3, <4>1, <4>2 DEF IInv, WakesOnPeriod, TimerRuns
      <3>4. QED
        BY <3>2, <3>3
    <2>5. QED
      BY <1>0, <2>2, <2>3, <2>4
  <1>5. ASSUME NEW r \in Rates, SetRate(r) PROVE IInv'
    BY <1>0, <1>5 DEF SetRate, IInv, WakesOnPeriod, TimerRuns, WorkTimeExact
  <1>6. CASE UNCHANGED vars
    BY <1>0, <1>6 DEF vars, IInv, WakesOnPeriod, TimerRuns, WorkTimeExact
  <1>7. QED
    BY <1>1, <1>2, <1>3, <1>4, <1>5, <1>6 DEF Next

(* The worker's times and delays stay within systime_t. *)
THEOREM PacingTypeCorrect == SafeSpec => []TypeOK
  <1>1. IInv => TypeOK
    BY DEF IInv
  <1>2. QED
    BY InitIInv, NextIInv, <1>1, PTL DEF SafeSpec

(* After a cycle whose work leaves the shortest timer's time of the        *)
(* sampling period, the timer of the sleep ends one period after the cycle *)
(* started, plus the ticks between the two readings of the clock, for      *)
(* every width of the system time and wherever it wraps.                   *)
THEOREM TimerEndsOnPeriod == SafeSpec => []WakesOnPeriod
  <1>1. IInv => WakesOnPeriod
    BY DEF IInv
  <1>2. QED
    BY InitIInv, NextIInv, <1>1, PTL DEF SafeSpec

-----------------------------------------------------------------------------
(* The sample buffer *)

(* The zeroed buffer satisfies the invariant. *)
LEMMA InitSampler == SamplerInit => SamplerIInv
  BY AdcSamplerAssumption
  DEF SamplerInit, SamplerIInv, SamplerTypeOK, TornFrameOrdered, NotOlderThanComplete,
      BufferOrdered, CopyFitsBuffer, Channel, Age

(* Every step of the worker, the DMA and the interrupts keeps it. *)
LEMMA NextSampler == SamplerIInv /\ [SamplerNext]_SamplerVars => SamplerIInv'
  <1> SUFFICES ASSUME SamplerIInv, [SamplerNext]_SamplerVars PROVE SamplerIInv'
    OBVIOUS
  <1>0. /\ SamplerTypeOK /\ TornFrameOrdered /\ NotOlderThanComplete
        /\ BufferOrdered /\ CopyFitsBuffer
        /\ ADC_CHANNELS \in Nat \ {0} /\ MaxAge \in Nat \ {0}
    BY AdcSamplerAssumption DEF SamplerIInv
  <1> USE DEF SamplerTypeOK, Channel, Age
  <1>1. CASE StartConversion
    <2> USE <1>1 DEF StartConversion
    <2>0. /\ internal_samples' = [i \in Channel |-> Older(internal_samples[i])]
          /\ \A i \in Channel : Older(internal_samples[i]) \in Age
          /\ \A k \in Channel : Older(raw_samples[k]) \in Age
          /\ Older(complete) \in Age
          /\ \A i, j \in Channel : internal_samples[i] <= internal_samples[j]
               => Older(internal_samples[i]) <= Older(internal_samples[j])
          /\ \A i \in Channel : internal_samples[i] <= complete
               => Older(internal_samples[i]) <= Older(complete)
      <3>1. /\ \A a \in Age : Older(a) \in Age
            /\ \A a, b \in Age : a <= b => Older(a) <= Older(b)
        BY <1>0 DEF Older
      <3>2. /\ \A i \in Channel : internal_samples[i] \in Age /\ raw_samples[i] \in Age
            /\ complete \in Age
        BY <1>0
      <3> HIDE DEF Age, SamplerTypeOK
      <3>3. QED
        BY <3>1, <3>2
    <2>1. SamplerTypeOK'
      BY <1>0, <2>0
    <2>2. TornFrameOrdered' /\ NotOlderThanComplete' /\ CopyFitsBuffer'
      BY <1>0 DEF TornFrameOrdered, NotOlderThanComplete, CopyFitsBuffer
    <2>3. BufferOrdered'
      BY <1>0, <2>0 DEF BufferOrdered
    <2>4. QED
      BY <2>1, <2>2, <2>3 DEF SamplerIInv
  <1>2. CASE DmaTransfer
    <2> USE <1>2 DEF DmaTransfer
    <2>0. /\ moved \in Channel
          /\ \A i \in Channel :
               internal_samples'[i] = IF i = moved THEN 0 ELSE internal_samples[i]
      BY <1>0
    <2>1. SamplerTypeOK'
      BY <1>0
    <2>2. TornFrameOrdered' /\ NotOlderThanComplete'
      BY <1>0 DEF TornFrameOrdered, NotOlderThanComplete
    <2>3. CopyFitsBuffer'
      BY <1>0, <2>0 DEF CopyFitsBuffer
    <2>4. BufferOrdered'
      BY <1>0, <2>0 DEF BufferOrdered
    <2>5. QED
      BY <2>1, <2>2, <2>3, <2>4 DEF SamplerIInv
  <1>3. CASE TransferComplete
    BY <1>0, <1>3 DEF TransferComplete, SamplerIInv, TornFrameOrdered,
       NotOlderThanComplete, BufferOrdered, CopyFitsBuffer
  <1>4. CASE ConversionError
    BY <1>0, <1>4 DEF ConversionError, SamplerIInv, TornFrameOrdered,
       NotOlderThanComplete, BufferOrdered, CopyFitsBuffer
  <1>5. ASSUME NEW k \in Channel, CopySample(k) PROVE SamplerIInv'
    <2> DEFINE src == ADC_CHANNELS - 1 - k
    <2>0. /\ src \in Channel
          /\ \A j \in Channel :
               raw_samples'[j] = IF j = k THEN internal_samples[src] ELSE raw_samples[j]
          /\ copied' = copied \cup {k} /\ copied \subseteq Channel
          /\ UNCHANGED <<state, moved, internal_samples, pc, complete, previous>>
      BY <1>0, <1>5 DEF CopySample
    <2>1. SamplerTypeOK'
      BY <1>0, <1>5 DEF CopySample
    <2>2. TornFrameOrdered'
      <3>1. ASSUME NEW j \in copied, j # k, raw_samples[j] # 0, internal_samples[src] # 0
            PROVE  /\ j < k => internal_samples[src] <= raw_samples[j]
                   /\ k < j => raw_samples[j] <= internal_samples[src]
        <4>1. /\ j < k => src <= ADC_CHANNELS - 1 - j
              /\ k < j => src >= ADC_CHANNELS - 1 - j
          BY <1>0, <2>0
        <4>2. QED
          BY <1>0, <2>0, <3>1, <4>1 DEF CopyFitsBuffer
      <3>2. ASSUME NEW j \in copied', NEW l \in copied', j < l,
                   raw_samples'[j] # 0, raw_samples'[l] # 0
            PROVE  raw_samples'[l] <= raw_samples'[j]
        <4>1. CASE j = k
          BY <1>0, <2>0, <3>1, <3>2, <4>1
        <4>2. CASE l = k
          BY <1>0, <2>0, <3>1, <3>2, <4>2
        <4>3. CASE j # k /\ l # k
          <5>1. j \in copied /\ l \in copied
            BY <2>0, <4>3
          <5>2. raw_samples'[j] = raw_samples[j] /\ raw_samples'[l] = raw_samples[l]
            BY <2>0, <4>3, <5>1
          <5>3. QED
            BY <1>0, <3>2, <5>1, <5>2 DEF TornFrameOrdered
        <4>4. QED
          BY <4>1, <4>2, <4>3
      <3>3. QED
        BY <3>2 DEF TornFrameOrdered
    <2>3. NotOlderThanComplete'
      <3>1. internal_samples[src] <= previous
        BY <1>0, <2>0 DEF BufferOrdered
      <3>2. QED
        BY <1>0, <2>0, <3>1 DEF NotOlderThanComplete
    <2>4. CopyFitsBuffer'
      <3>1. ASSUME NEW i \in Channel
            PROVE  /\ i <= src => internal_samples[i] <= internal_samples[src]
                   /\ i >= src => internal_samples[src] <= internal_samples[i]
        <4> HIDE DEF src
        <4>1. /\ i <= src => i = src \/ i < src
              /\ i >= src => i = src \/ src < i
          BY <1>0, <2>0
        <4>2. internal_samples[i] <= internal_samples[i]
          BY <1>0
        <4>3. /\ i < src => internal_samples[i] <= internal_samples[src]
              /\ src < i => internal_samples[src] <= internal_samples[i]
          BY <1>0, <2>0 DEF BufferOrdered
        <4>4. QED
          BY <4>1, <4>2, <4>3
      <3>2. QED
        <4>1. ASSUME NEW j \in copied', NEW i \in Channel,
                     raw_samples'[j] # 0, internal_samples[i] # 0
              PROVE  /\ i <= ADC_CHANNELS - 1 - j => internal_samples[i] <= raw_samples'[j]
                     /\ i >= ADC_CHANNELS - 1 - j => raw_samples'[j] <= internal_samples[i]
          <5>1. CASE j = k
            BY <2>0, <3>1, <5>1
          <5>2. CASE j # k
            <6>1. j \in copied /\ raw_samples'[j] = raw_samples[j]
              BY <2>0, <5>2
            <6>2. QED
              BY <1>0, <4>1, <6>1 DEF CopyFitsBuffer
          <5>3. QED
            BY <5>1, <5>2
        <4>2. QED
          BY <2>0, <4>1 DEF CopyFitsBuffer
    <2>5. BufferOrdered'
      BY <1>0, <2>0 DEF BufferOrdered
    <2>6. QED
      BY <2>1, <2>2, <2>3, <2>4, <2>5 DEF SamplerIInv
  <1>6. CASE Broadcast
    BY <1>0, <1>6 DEF Broadcast, SamplerIInv, TornFrameOrdered,
       NotOlderThanComplete, BufferOrdered, CopyFitsBuffer
  <1>7. CASE UNCHANGED SamplerVars
    BY <1>0, <1>7 DEF SamplerVars, SamplerIInv, TornFrameOrdered,
       NotOlderThanComplete, BufferOrdered, CopyFitsBuffer
  <1>8. QED
    BY <1>1, <1>2, <1>3, <1>4, <1>5, <1>6, <1>7 DEF SamplerNext

(* The DMA and the re-mapping stay within their buffers. *)
THEOREM SamplerTypeCorrect == SamplerSpec => []SamplerTypeOK
  <1>1. SamplerIInv => SamplerTypeOK
    BY DEF SamplerIInv
  <1>2. QED
    BY InitSampler, NextSampler, <1>1, PTL DEF SamplerSpec

(* The samples that a torn frame has left over from earlier conversions    *)
(* are in order of age, for every number of channels.                      *)
THEOREM TornFramesOrdered == SamplerSpec => []TornFrameOrdered
  <1>1. SamplerIInv => TornFrameOrdered
    BY DEF SamplerIInv
  <1>2. QED
    BY InitSampler, NextSampler, <1>1, PTL DEF SamplerSpec

(* A frame holds nothing older than the last conversion that completed     *)
(* before its cycle, whatever conversions are aborted.                     *)
THEOREM FramesBounded == SamplerSpec => []NotOlderThanComplete
  <1>1. SamplerIInv => NotOlderThanComplete
    BY DEF SamplerIInv
  <1>2. QED
    BY InitSampler, NextSampler, <1>1, PTL DEF SamplerSpec
=============================================================================
