SPECIFICATION FairSpec
CONSTANTS
  Calls = {k1, k2, k3}
  NoCall = NoCall
  Default = Default
INVARIANTS
  OnlyNewestWaits
PROPERTIES
  LastReadIsUsed
  LastSaveIsUsed
CHECK_DEADLOCK FALSE
