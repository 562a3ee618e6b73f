INIT Init
NEXT Next
CONSTANTS
  a = a
  b = b
  s = s
  None = None
  Async <- TwoAsync
  Sync <- NoSync
  Handlers = 1
  Timeout = 1
  LastSecond = 1
  Datagrams = FALSE
CHECK_DEADLOCK FALSE
INVARIANTS
  AllRecorded
