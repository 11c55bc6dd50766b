SPECIFICATION Spec
CONSTANTS
  Shim = "shim"
  Wrapper = "wrapper"
  RealCopy = "claude-real"
  Recovered = "claude-recovered"
  Elsewhere <- MCElsewhere
  Versions <- MCVersions
  World <- MCNpm
  MaxInstalls = 1
  MaxUpdates = 0
  MaxKills = 0
CHECK_DEADLOCK FALSE
INVARIANT
  ClaudeStarts
