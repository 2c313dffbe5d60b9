CONSTANTS
  Workers = {}
  LoopThread = loop
  Quitters = {}
  MaxTasks = 0
  MaxHandles = 2
  MaxDepth = 1
  MaxClock = 0
  Delays = {}
  Intervals = {}
SPECIFICATION Spec
PROPERTIES CancelledIdleNeverRuns
CHECK_DEADLOCK FALSE
