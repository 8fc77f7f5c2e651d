CONSTANTS
  Images = {ImageA, ImageB}
  ImageSize = 4
  WordSize = 2
  Msels <- MCMsels
  Lengths = {3}
  ChunkSizes = {0, 2}
  ChunkSize = 4
  DataLimit = 6
  Polls = 1
  Bridges = {F2H}
SPECIFICATION Spec
INVARIANT
  RemainderWritten
