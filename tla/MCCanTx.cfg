SPECIFICATION Spec
CONSTANTS
  main = main
  can_rx = can_rx
  adc_worker = adc_worker
  Thread <- MCThread
  CAN_TX_MAILBOXES = 2
  FifoDepth = 1
  CAN_TRANSMIT_TIMEOUT = 2
INVARIANTS
  TypeOK
  NoLostTxWakeup
  InOneQueueOnce
  NoEarlyTimeout
PROPERTIES
  CallEndsUnlessInterrupted
