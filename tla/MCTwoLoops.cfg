SPECIFICATION CommSpec
CONSTANTS
  route = route
  Servants <- OneServant
  Route = route
  Hosts = {h1, h2}
  NumOwn = 1
  NumLoops = 2
  TaskLoop <- FirstLoop
  ClientLoop <- SecondLoop
  MaxUpdates = 2
  Unset = Unset
INVARIANTS
  RemovedGone
CHECK_DEADLOCK FALSE
