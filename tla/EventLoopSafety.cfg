CONSTANTS
  Workers = {w1}
  LoopThread = loop
  Quitters = {w1}
  MaxTasks = 3
  MaxHandles = 2
  MaxDepth = 2
  MaxClock = 1
  Delays = {0, 1}
  Intervals = {1}
SPECIFICATION Spec
INVARIANTS
  TypeOK
  NotReentrant
  IntervalStaysScheduled
  NoLostWakeup
PROPERTIES
  OvertakenOnlyByNestedPoll
  CancelledTimerNeverFires
  OneShotFiresOnce
  OneShotNeverEarly
  ImplementsExecutor
CHECK_DEADLOCK FALSE
