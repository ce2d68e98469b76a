SPECIFICATION Spec
CONSTANTS
  ChunkSize = 4
  BufSize = 2
  MaxSize = 7
  MaxLine = 7
  MaxReconnects = 1
  Requests <- AllRequests
INVARIANTS
  TypeOK
  NoGap
  ExactlyOnce
  TailExact
  RangeExact
PROPERTY
  ImplementsTail
CHECK_DEADLOCK FALSE
