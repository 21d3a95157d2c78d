----------------------------- MODULE AdcSampler -----------------------------
(***************************************************************************)
(* system_adc_sample (system_ADC.c) and the ADC driver under it: the       *)
(* worker starts a conversion and, without waiting for it, copies the      *)
(* sample buffer, which the DMA fills channel by channel meanwhile.  Each  *)
(* read and each transfer of a sample is a step of its own.  The buffer is *)
(* not volatile, so the compiler may read it in any order.                 *)
(*                                                                         *)
(* A sample is represented by its age: how many conversions ago it was     *)
(* started, 0 for the conversion started last.  Ages are counted up to     *)
(* MaxAge, which also stands for "never converted": the buffer is zero     *)
(* before the first conversion.                                            *)
(***************************************************************************)
EXTENDS Integers

CONSTANTS
  ADC_CHANNELS,   \* channels of the conversion group, 4
  MaxAge          \* bound on the ages that are told apart

ASSUME AdcSamplerAssumption ==
  /\ ADC_CHANNELS \in Nat \ {0}
  /\ MaxAge \in Nat \ {0}

Channel == 0..(ADC_CHANNELS - 1)

Age == 0..MaxAge

VARIABLES
  state,              \* of ADCD1: "ADC_READY" or "ADC_ACTIVE"
  moved,              \* samples the DMA has stored in this conversion
  internal_samples,   \* the DMA buffer
  raw_samples,        \* adc_samples.raw_samples
  pc,                 \* the worker: "start" or "copy"
  copied,             \* entries of raw_samples assigned in this cycle
  complete,           \* history: age of the last conversion that completed
  previous            \* history: the same, as it was when this one started

SamplerVars == <<state, moved, internal_samples, raw_samples, pc, copied, complete, previous>>

Older(age) == IF age < MaxAge THEN age + 1 ELSE MaxAge

SamplerInit ==
  /\ state = "ADC_READY"
  /\ moved = 0
  /\ internal_samples = [i \in Channel |-> MaxAge]
  /\ raw_samples = [k \in Channel |-> MaxAge]
  /\ pc = "start"
  /\ copied = {}
  /\ complete = MaxAge
  /\ previous = MaxAge

(* adcStartConversion.  It does not test the driver's state; a conversion  *)
(* takes some 12 us and the worker slept for two ticks (200 us) or more,   *)
(* so the conversion before has ended.                                     *)
StartConversion ==
  /\ pc = "start"
  /\ state = "ADC_READY"
  /\ state' = "ADC_ACTIVE"
  /\ moved' = 0
  /\ internal_samples' = [i \in Channel |-> Older(internal_samples[i])]
  /\ raw_samples' = [k \in Channel |-> Older(raw_samples[k])]
  /\ complete' = Older(complete)
  /\ previous' = Older(complete)
  /\ pc' = "copy"
  /\ copied' = {}

(* Mutant of DmaTransfer: the transaction size is not minded. *)
DmaTransferUnbounded ==
  /\ state = "ADC_ACTIVE"
  /\ internal_samples' = [internal_samples EXCEPT ![moved] = 0]
  /\ moved' = moved + 1
  /\ UNCHANGED <<state, raw_samples, pc, copied, complete, previous>>

(* The DMA stores the next channel, in ascending order. *)
DmaTransfer ==
  /\ state = "ADC_ACTIVE"
  /\ moved < ADC_CHANNELS
  /\ internal_samples' = [internal_samples EXCEPT ![moved] = 0]
  /\ moved' = moved + 1
  /\ UNCHANGED <<state, raw_samples, pc, copied, complete, previous>>

(* Mutant of TransferComplete: the half-transfer interrupt ends the        *)
(* conversion.                                                             *)
TransferCompleteEarly ==
  /\ state = "ADC_ACTIVE"
  /\ moved >= ADC_CHANNELS \div 2
  /\ state' = "ADC_READY"
  /\ complete' = 0
  /\ UNCHANGED <<moved, internal_samples, raw_samples, pc, copied, previous>>

(* The DMA interrupt, transfer complete.  adccallback assigns the first    *)
(* sample to itself: its buffer is internal_samples.                       *)
TransferComplete ==
  /\ state = "ADC_ACTIVE"
  /\ moved = ADC_CHANNELS
  /\ state' = "ADC_READY"
  /\ complete' = 0
  /\ UNCHANGED <<moved, internal_samples, raw_samples, pc, copied, previous>>

(* The ADC interrupt on an overrun, honoured while transfers are missing,  *)
(* or a DMA error: the conversion is abandoned where it is.  The error     *)
(* callback does nothing, the worker is not told.                          *)
ConversionError ==
  /\ state = "ADC_ACTIVE"
  /\ moved < ADC_CHANNELS
  /\ state' = "ADC_READY"
  /\ UNCHANGED <<moved, internal_samples, raw_samples, pc, copied, complete, previous>>

(* Mutant of CopySample: the order of the buffer is kept. *)
CopySampleInOrder(k) ==
  /\ pc = "copy"
  /\ k \notin copied
  /\ raw_samples' = [raw_samples EXCEPT ![k] = internal_samples[k]]
  /\ copied' = copied \cup {k}
  /\ UNCHANGED <<state, moved, internal_samples, pc, complete, previous>>

(* One assignment of "re-map samples": raw_samples[0] takes the last       *)
(* channel of the buffer, raw_samples[3] the first.                        *)
CopySample(k) ==
  /\ pc = "copy"
  /\ k \notin copied
  /\ raw_samples' = [raw_samples EXCEPT
       ![k] = internal_samples[ADC_CHANNELS - 1 - k]]
  /\ copied' = copied \cup {k}
  /\ UNCHANGED <<state, moved, internal_samples, pc, complete, previous>>

(* The frame is built from raw_samples and sent; the worker sleeps. *)
Broadcast ==
  /\ pc = "copy"
  /\ copied = Channel
  /\ pc' = "start"
  /\ UNCHANGED <<state, moved, internal_samples, raw_samples, copied, complete, previous>>

SamplerNext ==
  \/ StartConversion
  \/ DmaTransfer
  \/ TransferComplete
  \/ ConversionError
  \/ \E k \in Channel : CopySample(k)
  \/ Broadcast

SamplerSpec == SamplerInit /\ [][SamplerNext]_SamplerVars

-----------------------------------------------------------------------------
SamplerTypeOK ==
  /\ state \in {"ADC_READY", "ADC_ACTIVE"}
  /\ moved \in 0..ADC_CHANNELS
  /\ internal_samples \in [Channel -> Age]
  /\ raw_samples \in [Channel -> Age]
  /\ pc \in {"start", "copy"}
  /\ copied \subseteq Channel
  /\ complete \in Age
  /\ previous \in Age

(* A frame may mix samples of several conversions, since nothing waits for *)
(* the DMA, but only in one way: of two samples left over from earlier     *)
(* conversions the one later in raw_samples is not the older one, however  *)
(* many conversions were aborted and in whatever order the buffer is read. *)
(* The DMA fills the buffer upwards and the re-mapping turns it around.    *)
TornFrameOrdered ==
  \A j, k \in copied :
    j < k /\ raw_samples[j] # 0 /\ raw_samples[k] # 0 =>
      raw_samples[k] <= raw_samples[j]

(* No sample of a frame is older than the last conversion that completed   *)
(* before the frame's cycle: without errors a frame lags by one cycle at   *)
(* most, and an aborted conversion lets no older sample reappear.          *)
NotOlderThanComplete ==
  \A k \in copied : raw_samples[k] <= previous

(* The buffer is a staircase: ages rise with the index, the part the DMA   *)
(* has stored is new, and none is older than the last complete conversion. *)
BufferOrdered ==
  /\ \A i, j \in Channel : i < j => internal_samples[i] <= internal_samples[j]
  /\ state = "ADC_ACTIVE" => \A i \in Channel : i < moved => internal_samples[i] = 0
  /\ \A i \in Channel : internal_samples[i] <= complete
  /\ complete <= previous

(* A copied sample of an earlier conversion has its place in the staircase *)
(* among the samples of the buffer that are not replaced yet.              *)
CopyFitsBuffer ==
  \A k \in copied, i \in Channel :
    raw_samples[k] # 0 /\ internal_samples[i] # 0 =>
      /\ i <= ADC_CHANNELS - 1 - k => internal_samples[i] <= raw_samples[k]
      /\ i >= ADC_CHANNELS - 1 - k => raw_samples[k] <= internal_samples[i]

(* The inductive invariant behind the properties above. *)
SamplerIInv ==
  /\ SamplerTypeOK
  /\ TornFrameOrdered
  /\ NotOlderThanComplete
  /\ BufferOrdered
  /\ CopyFitsBuffer
=============================================================================
