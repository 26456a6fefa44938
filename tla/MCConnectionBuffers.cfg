CONSTANTS
  InitSize = 2
  CMaxWriteBufferNum = 3
  MaxAppend = 5
  MaxBytes = 8
SPECIFICATION BuffersSpec
INVARIANTS
  BuffersTypeOK
PROPERTIES
  SendsInOrder
  ReceivesInOrder
CHECK_DEADLOCK FALSE
