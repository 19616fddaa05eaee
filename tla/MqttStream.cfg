CONSTANTS
  Base = 4
  RxSize = 11
  LenRange = 13
  BufferSize = 15
  MaxReply = 16
  MaxMessages = 2
  MaxSessions = 2
  MaxFailures = 1
SPECIFICATION Spec
INVARIANTS TypeOK HandledInOrder FramingSound ConnectedIsAccepted
PROPERTIES EveryMessageHandled
CHECK_DEADLOCK FALSE
