CONSTANTS
  Slots = 4
  ResetAfter = 1
  Faults = {"request", "answer", "join", "drop", "peer"}
  DropStates = {"WIFI_CONNECT", "WAIT_FOR_INTERNET", "SENDING"}
  Budget = 3
  MaxSends = 3
SPECIFICATION FairSpec
INVARIANTS SendingInSession OnlyOneSocket
PROPERTIES Recovers KeepsPublishing
