INIT AllInit
NEXT AllNext
CONSTANTS
  c1 = c1
  c2 = c2
  h1 = h1
  h2 = h2
  p1 = p1
  p2 = p2
  None = None
  Conns <- TwoConns
  Fds <- TwoFds
  Handlers <- TwoHandlers
  Kinds <- BothKinds
  MaxSend = 2
SYMMETRY Symmetry
CHECK_DEADLOCK FALSE
INVARIANTS
  ChannelsSound
  CallsServed
  
  OneServes
  RepliesOnce
  BufferSignalled
