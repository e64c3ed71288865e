SPECIFICATION Spec
CONSTANTS
  MaxHandles = 1
  PendingLimit = 1
  ResolvedLimit = 1
  CancelClose = TRUE
INVARIANTS OneOutcome
