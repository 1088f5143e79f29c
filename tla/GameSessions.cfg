SPECIFICATION Spec
CONSTANTS
  MaxInits = 2
  MaxEvents = 1
  MaxVersion = 1
  Kinds = {"command"}
  ActionCount <- TwoActions
  Reloads = {}
INVARIANTS
  NoPanicBeforeShutdown
  NoRepeatBeforeShutdown
PROPERTIES
  SessionsInOrder
CHECK_DEADLOCK FALSE
