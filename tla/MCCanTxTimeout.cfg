SPECIFICATION SafeSpec
CONSTANTS
  main = main
  can_rx = can_rx
  adc_worker = adc_worker
  Thread <- MCTwoThreads
  CAN_TX_MAILBOXES = 1
  FifoDepth = 1
  CAN_TRANSMIT_TIMEOUT = 2
INVARIANTS
  BlockedNoLongerThanTimeout
