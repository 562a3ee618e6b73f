SPECIFICATION Spec
CONSTANTS
  InitCapacity = 4
  HeadTail = 2
  Requests <- MCRequests
  MaxWritten = 14
INVARIANTS
  StreamIntact
CHECK_DEADLOCK FALSE
