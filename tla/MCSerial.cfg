SPECIFICATION Spec
CONSTANTS
  can_rx = can_rx
  main = main
  Thread <- MCThread
  MaxLine = 2
  SERIAL_BUFFERS_SIZE = 2
  NoByte = NoByte
INVARIANTS
  TypeOK
  OutputEnabled
  NoWriterLeftBehind
PROPERTIES
  ImplementsConsole
  SendsInOrder
  LinesEndUnlessOthersLog
