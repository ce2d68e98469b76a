SPECIFICATION Spec
CONSTANTS
  MaxEntries = 2
  MaxReconnects = 0
  Silent <- SilentEntries
  Requests <- FilteredComponent
INVARIANT
  NamedOnly
CHECK_DEADLOCK FALSE
