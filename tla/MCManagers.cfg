CONSTANTS
  Images = {ImageA, ImageB}
  ImageSize = 4
  WordSize = 2
  Msels <- MCMsels
  Lengths <- MCLengths
  ChunkSizes <- MCChunkSizes
  ChunkSize = 4
  DataLimit = 6
  Polls = 1
  Bridges = {F2H}
  Freq <- MCFreq
  VcoLimits <- MCVcoLimits
  MaxFreq <- MCMaxFreq
  Setting <- MCSetting
  MuxSettings <- MCMuxSettings
  GuardBand = 20
  Word = 4295
  Prediv = 2
  CntMax = 511
  Mults = {20, 36}
  Divs = {0, 2, 4}
  Clocks = {"L4_MP", "NAND_X", "NAND", "USB_MP"}
  Cfgs <- MCCfgs
  ClockPolls = 1
  MaxCalls = 2
  Half = 3
  Times = {5, 6}
  Increments = {2}
  Prescalers = {0, 256}
  MaxTime = 12
  MaxTimerCalls = 4
SPECIFICATION ManagersSpec
INVARIANT NandAfterX
PROPERTIES
  SuccessMeansLoaded
  ControlReleased
  BridgeGuarded
  GatesRestored
  GlitchFree
  SuccessMeansRunning
  HalvesTogether
CHECK_DEADLOCK FALSE
