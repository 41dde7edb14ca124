SPECIFICATION Spec
CONSTANTS
  o1 = o1
  o2 = o2
  o3 = o3
  Ops = {o1}
  Mixes = {{o1}}
  VersionOps = {}
  Forbidden = {}
  MaxFaults = 2
  MaxTokens = 9
INVARIANT RefreshYieldsCredentials
