CONSTANTS
  Workers = {w1}
  LoopThread = loop
  Quitters = {loop}
  MaxTasks = 1
  MaxHandles = 2
  MaxDepth = 2
  MaxClock = 2
  Delays = {1, 2}
  Intervals = {1}
SPECIFICATION FairSpec
PROPERTIES PostedTaskRuns DueTimerFires QuitStopsRun
CHECK_DEADLOCK FALSE
