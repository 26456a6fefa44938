CONSTANTS
  Channels = {c1, c2, c3}
  Fds = {f1, f2}
  NoChannel = NoChannel
  NoFd = NoFd
SPECIFICATION SafeSpec
INVARIANTS
  NoAssertionFails
CHECK_DEADLOCK FALSE
