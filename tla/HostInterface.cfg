CONSTANTS
  MaxMessages = 3
  MaxSends = 2
  MaxBusErrors = 1
  MaxTimeouts = 1
SPECIFICATION FairSpec
INVARIANTS TypeOK InOrder NoWakeupLost ReadsHeld BuffersAccounted
PROPERTIES EveryMessageReleased
CHECK_DEADLOCK FALSE
