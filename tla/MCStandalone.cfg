\* A part that has done all its bounds allow stops.
CHECK_DEADLOCK FALSE
SPECIFICATION AllSpec
CONSTANTS
  NumPackets = 2
  Start <- TwoStarts
  PrefixLen = 4
  HeadLen = 20
  f1 = f1
  f2 = f2
  Main = Main
  Other = Other
  NoLoop = NoLoop
  NumLoops = 1
  Tasks <- TwoTasks
  Timers <- NoTimers
  InitCapacity = 4
  HeadTail = 2
  Requests <- MCRequests
  MaxWritten = 14
  Keys = {k1, k2}
  Values = {x}
  Timeout = 1
  LastNow = 4
  Base = 3
  CallPaths <- MCPaths
  CallKeys <- MCCallKeys
  Appended <- MCAppended
  MaxCalls = 4
  Thrown = Thrown
  Documents <- MCDocuments
  NoPlace = NoPlace
  Users = {u1, u2}
  NumObjects = 2
  Timed = {t1, t2}
  Blocking = {t3}
  Items = {v1, v2, v3}
  None = None
  Statements = {s1, s2}
  NoStatement = NoStatement
  RedisClients = {c1, c2}
  Nothing = Nothing
INVARIANTS
  AllTypesOK
  StreamKept
  PacketsWhole
  EachValueOnce
  NoStranded
  Reported
  Conserved
  LimitHonoured
  TreeRemembers
  ParsedInPlace
  OneInstance
  NoneStranded
PROPERTIES
  TimeoutsRight
  
  Implements
