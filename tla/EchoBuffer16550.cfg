CONSTANTS
  FifoSize = 2
  Trigger = 2
  TxTrigger = 1
  BufferSize = 2
  OutputSize = 3
  LineEnds <- MCLineEnds
  Nuls <- MCNuls
  EchoModes <- MCEchoModes
  Sizes = {2}
  MaxReceived = 3
  MaxWritten = 0
SPECIFICATION Spec
INVARIANT
  RingsIntact
