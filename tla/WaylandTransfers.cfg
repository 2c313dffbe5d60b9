CONSTANTS
  Kinds = {clipboard}
  MaxReads = 2
  MaxEvents = 4
  MaxTransfers = 2
  MaxPieces = 1
  MaxSent = 2
SPECIFICATION Spec
INVARIANTS
  TypeOK
  DragEventsPair
PROPERTIES
  AnswersAreComplete
  TransfersEnd
CHECK_DEADLOCK FALSE
