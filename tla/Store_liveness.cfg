SPECIFICATION FairSpec
CONSTANTS
  h1 = h1
  h2 = h2
  Pruner = Pruner
  Free = Free
  Handler <- MCHandler
  Row <- MCSmallRow
  Batch <- MCSmallBatch
  Retention = 1
  PageLimit = 1
  MaxTime = 2
PROPERTIES
  CallsReturn
