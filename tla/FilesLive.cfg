SPECIFICATION LiveSpec
CONSTANTS
  ChunkSize = 4
  BufSize = 2
  MaxSize = 6
  MaxLine = 4
  MaxReconnects = 1
  Requests <- LiveRequests
PROPERTY
  EventualDelivery
CHECK_DEADLOCK FALSE
