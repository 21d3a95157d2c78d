SPECIFICATION Spec
CONSTANTS
  CAN_TX_MAILBOXES = 2
  FifoDepth = 2
  RxFrame <- MCRxFrame
  Jumpers <- MCJumpers
INVARIANTS
  TypeOK
  NoLostRxWakeup
  NeverSleepsOnSignal
  AnnouncesOnlyUnprovisioned
PROPERTIES
  HandlesInOrder
  ImplementsInbox
  AnnouncesUnlessTraffic
