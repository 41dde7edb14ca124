CONSTANTS
  browser = browser
  registration = registration
  Flows <- MCFlows
  MaxEvents = 1
SPECIFICATION Spec
INVARIANT UnconfiguredFlowsAreDefaults
