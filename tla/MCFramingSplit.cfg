SPECIFICATION StreamSpec
CONSTANTS
  NumPackets = 2
  Start <- TwoStarts
  PrefixLen = 4
  HeadLen = 20
INVARIANTS
  IncompleteWaits
CHECK_DEADLOCK FALSE
