CONSTANTS
  Connections = {c1, c2}
  Nobody = Nobody
SPECIFICATION Spec
INVARIANTS
  TypeOK
  WaitingMeansWatched
  TwiceOnlyWhenClosed
  RetainedAreMonitored
  ChannelAssertionsHold
PROPERTIES
  SendsEnd
CHECK_DEADLOCK FALSE
