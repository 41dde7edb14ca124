CONSTANTS
  Items <- MCItems
  PageSize = 1
  MaxEvents = 1
SPECIFICATION FairSpec
INVARIANTS AppliedExact NotBothRefused
PROPERTIES DestroyedIsDetached Converges
