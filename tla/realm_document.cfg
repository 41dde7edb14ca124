CONSTANTS
  browser = browser
  registration = registration
  Flows <- MCFlows
  MaxEvents = 2
SPECIFICATION FairSpec
INVARIANTS TypeOK AppliedAgrees DestroyedFlowsAreBuiltIn SettledFlowsKept
PROPERTY Converges
