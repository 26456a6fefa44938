CONSTANTS
  Attempts = {a1, a2, a3}
  Groups = {g1, g2}
  Nobody = Nobody
  Limit = 2
SPECIFICATION Spec
INVARIANTS
  TypeOK
  AnsweredOnce
  GroupsWithinLimit
  PoolHoldsOpenConnections
  TracedByDescriptor
PROPERTIES
  StartedIsAnswered
CHECK_DEADLOCK FALSE
