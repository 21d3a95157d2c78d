SPECIFICATION Spec
CONSTANTS
  main = main
  can_rx = can_rx
  adc_worker = adc_worker
  Timer <- MCPair
  Delays <- MCLongPair
  Resettable <- MCReset
  Periodic = {}
  SYSTIME_VALUES = 12
  MaxSpan = 4
  CH_CFG_ST_TIMEDELTA = 2
  MaxSlip = 1
  MaxLag = 1
PROPERTIES
  TimersIndependent
