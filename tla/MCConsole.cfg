\* The console: rings of two characters, one-character FIFOs, the program
\* writing and reading, the host coming and going.
CONSTANTS
  LEN = 3
  WDepth = 1
  RDepth = 1
  DefaultTimeout = 2
  INT_MAX = 4
  MaxCount = 2
  Flags = {FALSE}
  Timeouts = {2}
  Alphabet = 3
SPECIFICATION Spec
INVARIANT NothingStranded
PROPERTIES TransmitIsAPipe ReceiveIsAPipe RoutineReturns EveryCallReturns
CHECK_DEADLOCK FALSE
