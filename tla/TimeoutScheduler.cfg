\* Counter range 0..3 and absolute times modulo 16 (in the code 0..65535 and
\* modulo 2^32): the same proportion, Word = (RtcMax + 1)^2.  The timeouts are
\* none, within the counter's range, and beyond it, which needs the dummy.
CONSTANTS
  Timers = {t1, t2}
  Dummy = dummy
  RtcMax = 3
  Word = 16
  Timeouts = {0, 1, 5}
  Horizon = 16
  TickInUnlink = FALSE
SPECIFICATION Spec
INVARIANTS TypeOK LinkedOnce HeadArmed
PROPERTIES ImplementsService
