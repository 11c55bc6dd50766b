SPECIFICATION Spec
CONSTANTS
  Numeral <- MCNumeral
  Decimal <- MCDecimal
  Instant <- MCInstant
  FormatInt <- MCFormatInt
  FormatFloat <- MCFormatFloat
  Trimmed <- MCTrimmed
  MaxInt64 <- MCMaxInt64
  TooLarge <- MCTooLarge
  Request <- MCRequest
  MaxTime = 2
CHECK_DEADLOCK FALSE
INVARIANTS
  DecodeIsFaithful
  NumbersAreExact
PROPERTIES
  KeysAreStable
