INIT TcpInit
NEXT TcpNext
CONSTANTS
  c1 = c1
  c2 = c2
  h1 = h1
  h2 = h2
  p1 = p1
  p2 = p2
  None = None
  Conns <- TwoConns
  Fds <- TwoFds
  Handlers <- OneHandler
  Kinds <- Byes
  MaxSend = 1
CHECK_DEADLOCK FALSE
INVARIANTS
  OpenIsListed
