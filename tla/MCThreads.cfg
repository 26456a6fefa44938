CONSTANTS
  NumWorkers = 2
  MaxLines = 2
  MaxCalls = 3
SPECIFICATION Spec
INVARIANTS
  TypeOK
  StartUpIsSafe
  WorkersLoseNoLine
  LoggerWritesItsOwn
  LinesInOrder
  CallsInOrder
PROPERTIES
  NothingWaitsForever
CHECK_DEADLOCK FALSE
