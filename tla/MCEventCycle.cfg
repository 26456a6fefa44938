CONSTANTS
  Channels = {c1, c2, c3}
  Fds = {f1, f2}
  NoChannel = NoChannel
  NoFd = NoFd
SPECIFICATION Spec
INVARIANTS
  TypeOK
  EpollPointersValid
  SetMeansWatched
  EpollCtlSucceeds
  ClosedBeforeDestroyed
  OnlyFailuresAbort
PROPERTIES
  StopEnds
CHECK_DEADLOCK FALSE
