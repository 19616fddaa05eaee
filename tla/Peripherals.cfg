CONSTANTS
  Chars = {1, 2, 3, 4}
  SIZE = 2
  PrintLength = 4
  MaxPublish = 1
  MaxCommands = 2
  MaxFaults = 2
  MaxRefusals = 1
SPECIFICATION Spec
INVARIANTS TypeOK CountAgrees NoneStranded QuietOutsideCalls WritesOwnBytes TransferComplete AcceptedIsOwn
PROPERTIES ImplementsFifo JobsEnd
CHECK_DEADLOCK FALSE
