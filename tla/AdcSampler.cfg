SPECIFICATION SamplerSpec
CONSTANTS
  ADC_CHANNELS = 4
  MaxAge = 3
INVARIANTS
  SamplerTypeOK
  TornFrameOrdered
  NotOlderThanComplete
