SPECIFICATION FairSpec
CONSTANTS
  MaxHandles = 3
  PendingLimit = 2
  ResolvedLimit = 1
  CancelClose = FALSE
INVARIANTS TrackerKept
PROPERTIES EveryCommandResolved ImplementsLedger NotTimedOutWhileBuffered
