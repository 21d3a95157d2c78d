SPECIFICATION Spec
CONSTANTS
  MAIN_THREAD_CHECK_INTERVAL_MS = 2
  MAIN_THREAD_SLEEP_NORMAL_MS = 6
  TICKS_PER_MS = 2
  CAN_TRANSMIT_TIMEOUT = 3
  WatchdogTicks = 16
  BootTicks = 2
  LogTicks = 2
  MaxWoken = 6
INVARIANTS
  TypeOK
  ResetNeedsWakeups
PROPERTIES
  StatsUnlessWoken
