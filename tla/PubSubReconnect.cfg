SPECIFICATION FairSpec
CONSTANTS
  Topics = 1
  MaxConns = 2
  MaxEvents = 1
  WireCap = 1
  Faults = {"reconnect"}
PROPERTIES
  RedemptionNotified
CHECK_DEADLOCK FALSE
