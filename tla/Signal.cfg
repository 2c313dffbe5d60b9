CONSTANTS
  Threads = {ui, worker}
  LoopThreads = {ui}
  MaxSlots = 2
  MaxEmits = 2
  MaxNesting = 2
SPECIFICATION FairSpec
INVARIANTS
  TypeOK
  NoneMissed
  RunsAtHome
PROPERTIES
  OwnDisconnectIsFinal
  AtMostOnce
  CallsAreSettled
CHECK_DEADLOCK FALSE
