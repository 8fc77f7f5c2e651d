CONSTANTS
  Provision = 256
  Implemented <- MCImplemented
  Processors = 2
  Preloaders <- MCPreloaders
  Clock = 100000000
  DEFAULT_BAUD = 115200
  FifoBytes = 1
  UART0 = 194
  Others <- MCOthers
  Unknown = 100
  Priorities = {0, 256}
  Targets = {1, 4}
  Divisors = {0, 256}
  Bauds = {0, 115200}
  MaxCalls = 2
SPECIFICATION Spec
INVARIANTS
  SetupSafe
  ContextMatches
  HandleMatches
PROPERTY SetupEnds
CHECK_DEADLOCK FALSE
