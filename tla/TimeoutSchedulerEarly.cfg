\* The counter may advance while delete has the interrupt masked.
CONSTANTS
  Timers = {t1, t2}
  Dummy = dummy
  RtcMax = 3
  Word = 16
  Timeouts = {0, 1}
  Horizon = 8
  TickInUnlink = TRUE
SPECIFICATION Spec
PROPERTIES NeverEarly
