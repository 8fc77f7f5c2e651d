CONSTANTS
  FifoSize = 2
  Trigger = 2
  TxTrigger = 1
  BufferSize = 2
  OutputSize = 3
  LineEnds <- MCLineEnds
  Nuls <- MCNuls
  EchoModes <- MCNoEcho
  Sizes = {1, 2}
  MaxReceived = 3
  MaxWritten = 2
SPECIFICATION FairSpec
INVARIANTS
  RingsIntact
  InterruptsArmed
PROPERTY
  Drained
