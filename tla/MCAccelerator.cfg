CONSTANTS
  RowCount = 4
  ColCount = 3
  Depth = 3
  Image = 4096
  MaxFrames = 2
  MaxResets = 1
SPECIFICATION FairSpec
INVARIANTS
  RowsIntact
  OneBurstAtATime
PROPERTIES
  ImplementsImageFilter
  ImplementsControlPath
  HostAnswered
