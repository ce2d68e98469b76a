SPECIFICATION LiveSpec
CONSTANTS
  MaxEntries = 4
  MaxReconnects = 1
  Silent <- SilentEntries
  Requests <- LiveRequests
PROPERTY
  EventualDelivery
CHECK_DEADLOCK FALSE
