\* c1: reconnects and has heartbeats; c2: reconnects; c3: neither.
SPECIFICATION Spec
CONSTANTS
  c1 = c1
  c2 = c2
  c3 = c3
  None = None
  Clients <- Hosts
  Fds <- ThreeFds
  AutoReconnect <- Pair
  Beating <- First
  MaxBeats = 1
  MaxTimers = 2
\* A process that crashed, or has nothing to connect to, stops.
CHECK_DEADLOCK FALSE
INVARIANTS
  Retrying
  ReaderOnOwn
  OneLife
  Steady
