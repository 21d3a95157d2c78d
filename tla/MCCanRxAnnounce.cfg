SPECIFICATION Spec
CONSTANTS
  CAN_TX_MAILBOXES = 1
  FifoDepth = 2
  RxFrame <- MCTwoFrames
  Jumpers <- MCOneBoard
PROPERTIES
  AnnouncesUntilProvisioned
