CONSTANTS
  BurstCount = 5
  Depth = 8
  BurstAddress <- MCBurstAddress
  ColSize = 20
  Border <- MCBorder
  Pixels <- MCPixels
SPECIFICATION PathsSpec
INVARIANTS
  BurstIntact
  RowFiltered
  BrighterThanMean
  DiffersOnTiesOnly
PROPERTIES
  ImplementsWorker
  JobEnds
