SPECIFICATION Spec
CONSTANTS
  MaxEntries = 4
  MaxReconnects = 0
  Silent <- SilentEntries
  Requests <- PlainStreams
INVARIANT
  ReadFromBeginning
CHECK_DEADLOCK FALSE
