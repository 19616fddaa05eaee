\* Timers are created only while absolute times are far from wrapping.
CONSTANTS
  Timers = {t1, t2}
  Dummy = dummy
  RtcMax = 1
  Word = 16
  Timeouts = {1, 3}
  Horizon = 6
  TickInUnlink = FALSE
SPECIFICATION FairSpec
INVARIANTS SortedByTime
PROPERTIES QuietExpiry
