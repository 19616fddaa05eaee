\* One timer and no time beyond the counter's range are enough.
CONSTANTS
  Timers = {t1}
  Dummy = dummy
  RtcMax = 3
  Word = 16
  Timeouts = {0, 1}
  Horizon = 8
  TickInUnlink = FALSE
SPECIFICATION Spec
INVARIANTS ExpiredIsAtHead
