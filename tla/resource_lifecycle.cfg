CONSTANTS
  Kinds <- MCKinds
  Ids <- MCIds
  MaxEvents = 2
SPECIFICATION FairSpec
INVARIANTS AppliedAgrees EmptyPlanTruthful OrphansExplained NoSecondCopy
PROPERTIES NeverForgetsExisting ImportKeeps Converges
