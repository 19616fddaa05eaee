CONSTANTS
  Slots = 2
  ResetAfter = 1
  Faults = {"request", "answer", "mute", "join", "drop", "renew", "peer", "refuse"}
  DropStates = {"INIT", "WIFI_CONNECT", "WAIT_FOR_INTERNET", "DNS_REQUEST", "TLS_CONNECT", "MQTT", "SENDING"}
  Budget = 2
  MaxSends = 3
SPECIFICATION Spec
INVARIANTS TypeOK SendTaskIffSending
