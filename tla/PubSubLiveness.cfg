SPECIFICATION FairSpec
CONSTANTS
  Topics = 2
  MaxConns = 1
  MaxEvents = 1
  WireCap = 1
  Faults = {"drop"}
PROPERTIES
  AckedIsPublished
  LossIsNoticed
CHECK_DEADLOCK FALSE
