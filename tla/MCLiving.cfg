\* A process that ended, or a part that has done all its bounds allow, stops.
CHECK_DEADLOCK FALSE
SPECIFICATION AllSpec
CONSTANTS
  route = route
  demo = demo
  Servants <- BothServants
  Route = route
  Hosts = {h1, h2}
  NumOwn = 2
  NumLoops = 1
  TaskLoop <- OneLoop
  ClientLoop <- OneLoop
  MaxUpdates = 2
  Unset = Unset
  c1 = c1
  c2 = c2
  None = None
  MaxBeats = 2
  MaxTimers = 2
INVARIANTS
  StraightHolds
PROPERTIES
  Registers
  Recovers
