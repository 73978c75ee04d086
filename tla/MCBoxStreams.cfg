SPECIFICATION StreamsSpec
CONSTANTS
  BUF = 2
  FileLength = 3
  SwiFails = TRUE
  ArgsFails = FALSE
  WriteSizes <- MCWriteSizes
  MaxHandles = 2
  MaxWritten = 4
INVARIANTS
  TableConsistent
  BytesInOrder
