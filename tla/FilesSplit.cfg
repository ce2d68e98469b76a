SPECIFICATION Spec
CONSTANTS
  ChunkSize = 4
  BufSize = 2
  MaxSize = 7
  MaxLine = 7
  MaxReconnects = 0
  Requests <- RangeRequests
INVARIANT
  RangeFromStart
CHECK_DEADLOCK FALSE
