SPECIFICATION Spec
CONSTANTS
  Event <- MCEvent
  Batches <- MCBatches
  Base = 2
  DaySeconds = 2
  Clock <- MCClock
  RangeText = {"24h", "30d"}
  PersonText = {"", "a"}
  LimitValue = {1, 9}
  DefaultLimit = 2
  MaxLimit = 3
  RetentionDays = 1
  MaxInt64 = 255
INVARIANTS
  RTypeOK
  TotalsToTheSecond
  ListsAreComplete
  PersonPageAgrees
  HistoryToTheSecond
PROPERTIES
  PruneToTheSecond
