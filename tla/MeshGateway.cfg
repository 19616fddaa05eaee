CONSTANTS
  Browsers = {b1}
  N = 2
  MaxCommands = 2
  MaxLosses = 1
  MaxInFlight = 1
SPECIFICATION Spec
INVARIANTS TypeOK AloneIsBlamed BlamedOnce
PROPERTIES IconsAgree
CHECK_DEADLOCK FALSE
