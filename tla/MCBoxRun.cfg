SPECIFICATION Spec
CONSTANTS
  BUF = 1
  FileLength = 1
  SwiFails = FALSE
  ArgsFails = FALSE
  WriteSizes <- OneByte
  MaxHandles = 1
  MaxWritten = 1
  FaultsIn <- AnyLocks
  MaxLine = 1
  MaxDepth = 2
INVARIANTS
  RunsLeaveNothing
  NoStaleMemory
  EscapeAtHooks
  DiesOnlyOfLocks
CHECK_DEADLOCK FALSE
