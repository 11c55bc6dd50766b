SPECIFICATION Spec
CONSTANTS
  h1 = h1
  h2 = h2
  Pruner = Pruner
  Free = Free
  Handler <- MCHandler
  Row <- MCRow
  Batch <- MCBatch
  Retention = 1
  PageLimit = 2
  MaxTime = 2
SYMMETRY Symmetry
INVARIANTS
  TypeOK
  NoOrphanTransaction
  DirtyRowsAreInFlight
  KeysAreUnique
  NoUseAfterClose
PROPERTIES
  InsertedIsExact
  ImplementsUsageLog
