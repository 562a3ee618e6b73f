SPECIFICATION Spec
CONSTANTS
  a = a
  b = b
  s = s
  None = None
  Async <- OneAsync
  Sync <- OneSync
  Handlers = 2
  Timeout = 1
  LastSecond = 1
  Datagrams = TRUE
CHECK_DEADLOCK FALSE
INVARIANTS
  OwnResponse
  CallsTended
  CompletedOnce
PROPERTIES
  CallsEnd
