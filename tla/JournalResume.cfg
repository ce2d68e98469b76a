SPECIFICATION Spec
CONSTANTS
  MaxEntries = 3
  MaxReconnects = 1
  Silent <- SilentEntries
  Requests <- ResumeRequests
INVARIANT
  NoDuplicates
CHECK_DEADLOCK FALSE
