SPECIFICATION Spec
CONSTANTS
  main = main
  can_rx = can_rx
  adc_worker = adc_worker
  CAN_TX_MAILBOXES = 1
  FifoDepth = 1
  CAN_TRANSMIT_TIMEOUT = 2
  MAIN_THREAD_CHECK_INTERVAL_MS = 1
  MAIN_THREAD_SLEEP_NORMAL_MS = 1
  TICKS_PER_MS = 1
  WatchdogTicks = 5
  BootTicks = 0
  LogTicks = 0
  StartupTicks = 1
  EventTicks = 3
  PeriodTicks = 3
  SYSTIME_VALUES = 6
  CH_CFG_ST_TIMEDELTA = 1
  FrameTicks = 1
  FramesPerTick = 1
  MaxWakeups = 1
INVARIANTS
  NoFrameDropped
  NeverOversleeps
  NoWatchdogReset
  OversleepNeedsFullMailboxes
PROPERTIES
  ImplementsMainLoop
  SamplesAndStatsGoOn
