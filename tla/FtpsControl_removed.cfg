SPECIFICATION Spec
CONSTANTS
  Paths = {p, q}
  Sizes = {0, 1}
  ListingLimit = 2
  MaxOps = 2
INVARIANTS RemovedIsGone
