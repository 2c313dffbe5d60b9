CONSTANTS
  Workers = {}
  LoopThread = loop
  Quitters = {}
  MaxTasks = 0
  MaxHandles = 2
  MaxDepth = 2
  MaxClock = 1
  Delays = {0, 1}
  Intervals = {1}
SPECIFICATION Spec
PROPERTIES NeverEarly
CHECK_DEADLOCK FALSE
