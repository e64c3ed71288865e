SPECIFICATION Spec
CONSTANTS
  Paths = {p, q}
  Sizes = {0, 1}
  ListingLimit = 1
  MaxOps = 3
INVARIANTS InSync TransferVerified
