CONSTANTS
  Connections = {c1, c2, c3}
  Groups = {g1, g2}
  Limit = 2
  NumFds = 2
SPECIFICATION Spec
INVARIANTS
  TypeOK
  ConnectionsAccountedFor
PROPERTIES
  PeersAreServed
CHECK_DEADLOCK FALSE
