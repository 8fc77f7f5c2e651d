CONSTANTS
  RowCount = 6
  ColCount = 3
  Address <- MCAddress
SPECIFICATION FairSpec
INVARIANTS
  DoneBelongsToJob
  BusOwner
  WriteBehindReads
  AddressesTrackRows
PROPERTIES
  DoneAfterLastRow
  RunEnds
