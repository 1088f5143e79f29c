SPECIFICATION RunSpec
CONSTANTS
  Topics = 1
  MaxConns = 2
  MaxEvents = 1
  WireCap = 1
  Faults = {"reconnect", "reject", "broker"}
PROPERTIES
  AckedIsNeverDropped
  ShutdownCompletes
  SilentOnceRenewed
CHECK_DEADLOCK FALSE
