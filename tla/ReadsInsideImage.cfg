CONSTANTS
  RowCount = 6
  ColCount = 3
  Address <- MCAddress
SPECIFICATION Spec
INVARIANT
  ReadsInsideImage
