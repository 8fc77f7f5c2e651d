CONSTANTS
  FifoSize = 2
  Trigger = 2
  TxTrigger = 1
  BufferSize = 3
  OutputSize = 3
  LineEnds <- MCLineEnds
  Nuls <- MCNuls
  EchoModes <- MCNoEcho
  Sizes = {1, 3}
  MaxReceived = 5
  MaxWritten = 0
SPECIFICATION Spec
INVARIANT
  ReadInOrder
