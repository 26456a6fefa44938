CONSTANTS
  Senders = {s1, s2}
  Worker = w
  MaxSends = 2
SPECIFICATION Spec
INVARIANTS
  TypeOK
  WakeupsMatchTasks
  SenderOrder
PROPERTIES
  ImplementsDelivery
CHECK_DEADLOCK FALSE
