SPECIFICATION LiveSpec
CONSTANTS
  ChunkSize = 4
  BufSize = 2
  MaxSize = 4
  MaxLine = 4
  MaxReconnects = 0
  Requests <- RangeRequests
PROPERTY
  RangeCloses
CHECK_DEADLOCK FALSE
