SPECIFICATION CSpec
CONSTANTS
  h1 = h1
  h2 = h2
  e1 = e1
  e2 = e2
  e3 = e3
  None = None
  Pruner = Pruner
  Free = Free
  Handler <- MCHandler
  Export <- OneExport
  Persistent = {e1}
  Request <- UnstampedRequest
  Bearer <- MCBearer
  Oversized = {}
  IngestToken = "token"
  Numeral <- MCNumeral
  Decimal <- NoNumbers
  Instant <- NoNumbers
  FormatInt <- NoTexts
  FormatFloat <- NoTexts
  Trimmed <- NoTexts
  MaxInt64 = 100
  TooLarge = 100
  Row <- MCRow
  Batch <- MCBatch
  Retention = 0
  PageLimit = 1
  MaxTime = 1
  MaxFaults = 2
CHECK_DEADLOCK FALSE
INVARIANTS
  NoDoubleCount
