SPECIFICATION Spec
CONSTANTS
  MaxConns = 2
  MaxChats = 1
  MaxNoise = 0
  MaxSent = 1
  HandCap = 1
  WireCap = 1
  Faults = {}
INVARIANTS
  JoinedIsHeard
CHECK_DEADLOCK FALSE
