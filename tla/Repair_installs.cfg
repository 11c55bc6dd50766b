SPECIFICATION FairSpec
CONSTANTS
  Shim = "shim"
  Wrapper = "wrapper"
  RealCopy = "claude-real"
  Recovered = "claude-recovered"
  Elsewhere <- MCElsewhere
  Versions <- MCVersions
  World <- MCWorld
  MaxInstalls = 2
  MaxUpdates = 1
  MaxKills = 1
CHECK_DEADLOCK FALSE
INVARIANTS
  ITypeOK
  ClaudeStartsOtherwise
  RealIsNotWrapper
PROPERTIES
  RepairRecordsClaude
  ShimRestored
