SPECIFICATION FairSpec
CONSTANTS
  MaxInits = 1
  MaxEvents = 2
  MaxVersion = 2
  Kinds = {"command", "reward"}
  ActionCount <- TwoActions
  Reloads = {r1}
INVARIANTS
  TypeOK
  WholeFramesInOrder
PROPERTIES
  CancelledReadEnds
  LoopReconnects
CHECK_DEADLOCK FALSE
