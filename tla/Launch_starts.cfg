SPECIFICATION FairSpec
CONSTANTS
  Path <- MCPath
  Links <- MCLinks
  Movable <- MCMovable
  VersionsOf <- MCVersionsOf
  NoDir = "none"
  TextRank <- MCTextRank
  VersionRank <- MCVersionRank
  Parts <- MCParts
  Wrapper = "wrapper"
  Meter = "meter"
  RealCopy = "claude-real"
  Recovered = "claude-recovered"
  SavedReal = "2.1.9"
  SavedDir = "versions"
  EnvFallback = ""
  DefaultConfig = "launcher"
  ClaudeBinary <- MCClaudeBinary
  Text <- MCText
  UserArgs <- MCUserArgs
  DirectStarts <- MCDirectStarts
  InPlace = TRUE
  MaxChanges = 3
CHECK_DEADLOCK FALSE
PROPERTIES
  StartEnds
  MeterNeverPrevents
INVARIANTS
  TypeOK
  ReentryCostsMove
  StartsNewest
  ArgsUntouched
  MeteredUnlessBroken
