SPECIFICATION Spec
CONSTANTS
  MaxEntries = 4
  MaxReconnects = 1
  Silent <- SilentEntries
  Requests <- AllRequests
INVARIANTS
  TypeOK
  NoHole
  StartExact
  RangeExact
  OneHandle
PROPERTY
  ImplementsTail
CHECK_DEADLOCK FALSE
