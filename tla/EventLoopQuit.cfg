CONSTANTS
  Workers = {w1}
  LoopThread = loop
  Quitters = {w1, loop}
  MaxTasks = 1
  MaxHandles = 0
  MaxDepth = 1
  MaxClock = 0
  Delays = {1}
  Intervals = {1}
SPECIFICATION FairSpec
PROPERTIES QuitStopsRun
CHECK_DEADLOCK FALSE
