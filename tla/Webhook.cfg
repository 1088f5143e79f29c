SPECIFICATION Spec
CONSTANTS
  Subs = {s1, s2}
  Known = {s1}
  Notified = {s1}
  MaxTokens = 1
  MaxNotes = 1
  MaxLost = 1
INVARIANTS
  EnabledWasRecorded
  RefusalExplained
  TokenHasItsExpiry
  BearerExplained
  AckedIsHandled
CHECK_DEADLOCK FALSE
