CONSTANTS
  RowCount = 4
  ColCount = 3
  Depth = 3
  Image = 4096
  MaxFrames = 1
  MaxResets = 0
SPECIFICATION Spec
INVARIANT
  LeftNeighbourAdjacent
