SPECIFICATION LiveSpec
CONSTANTS
  c1 = c1
  c2 = c2
  c3 = c3
  h1 = h1
  h2 = h2
  None = None
  Conns <- ThreeConns
  Fds <- TwoFds
  Handlers <- TwoHandlers
  Kinds <- BothKinds
  MaxSend = 1
CHECK_DEADLOCK FALSE
PROPERTIES
  EndedCloses
  LoopServes
