SPECIFICATION AllSpec
CONSTANTS
  w1 = w1
  w2 = w2
  j1 = j1
  j2 = j2
  NoJob = NoJob
  NoWorker = NoWorker
  Workers <- TwoWorkers
  Jobs <- TwoJobs
  NumThreads = 1
  f1 = f1
  timer = timer
  Main = Main
  Other = Other
  NoLoop = NoLoop
INVARIANTS
  Staffed
  ServedAlive
PROPERTIES
  Implements
  JobsServed
  WaitReturns
  Heeded
