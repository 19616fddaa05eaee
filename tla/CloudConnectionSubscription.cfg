CONSTANTS
  Slots = 3
  ResetAfter = 1
  Faults = {"peer"}
  DropStates = {}
  Budget = 1
  MaxSends = 3
SPECIFICATION Spec
INVARIANTS StaysSubscribed
