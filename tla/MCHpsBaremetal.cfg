CONSTANTS
  FifoSize = 4
  Trigger = 2
  ImageSize = 5
  MaxBytes = 10
SPECIFICATION FairSpec
INVARIANTS
  CopyInBounds
  Handshake
  ImageIntact
  ReplyIntact
  SentBeforeNext
PROPERTIES
  TransmissionEnds
  ImageCompletes
