SPECIFICATION FairSpec
CONSTANTS
  o1 = o1
  o2 = o2
  o3 = o3
  Ops = {o1, o2, o3}
  Mixes = {{o1, o2}, {o1, o3}}
  VersionOps = {o3}
  Forbidden = {o2}
  MaxFaults = 1
  MaxTokens = 9
INVARIANTS TypeOK AppliedAtMostOnce OutcomeTruthful CallRecovers
PROPERTIES Terminates
