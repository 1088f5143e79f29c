SPECIFICATION FairSpec
CONSTANTS
  MaxConns = 2
  MaxChats = 1
  MaxNoise = 0
  MaxSent = 1
  HandCap = 1
  WireCap = 1
  Faults = {"drop", "cancel"}
PROPERTIES
  ShutdownCompletes
  ChatDelivered
CHECK_DEADLOCK FALSE
