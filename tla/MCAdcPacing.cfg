SPECIFICATION Spec
CONSTANTS
  SYSTIME_VALUES = 20
  MS_PER_SECOND = 8
  TICKS_PER_MS = 1
  CH_CFG_ST_TIMEDELTA = 2
  Rates = {0, 1, 2, 3}
  DefaultRate = 2
  MaxWork = 6
  MaxSlip = 1
INVARIANTS
  TypeOK
  WakesOnPeriod
PROPERTIES
  SamplesForever
