CONSTANTS
  Items <- MCItems
  PageSize = 1
  MaxEvents = 0
SPECIFICATION FairSpec
PROPERTY CreateLeavesOthersAttached
