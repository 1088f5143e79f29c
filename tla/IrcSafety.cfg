SPECIFICATION Spec
CONSTANTS
  MaxConns = 2
  MaxChats = 2
  MaxNoise = 1
  MaxSent = 2
  HandCap = 1
  WireCap = 1
  Faults = {"drop", "cancel", "broker"}
  Texts <- ShortTexts
  TagLists <- SomeTags
INVARIANTS
  TypeOK
  ChatOnceInOrder
  LinesUnderstood
  PanicsExplained
PROPERTIES
  LockCycleIsForever
CHECK_DEADLOCK FALSE
