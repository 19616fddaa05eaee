\* Two timers, the second created with a shorter timeout while the first runs.
CONSTANTS
  Timers = {t1, t2}
  Dummy = dummy
  RtcMax = 3
  Word = 16
  Timeouts = {0, 2}
  Horizon = 8
  TickInUnlink = FALSE
SPECIFICATION Spec
PROPERTIES NewHeadOnTime
