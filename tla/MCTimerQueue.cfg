CONSTANTS
  PoolSize = 2
  UnitsPerMs = 2
  Durations = {1}
  ClockSteps = {1}
  MaxNow = 3
  MaxTimes = 2
  MaxSteps = 1
  MaxEntries = 2
SPECIFICATION SafeSpec
INVARIANTS
  TypeOK
  TimersAreNotLate
  EntriesAreCurrent
PROPERTIES
  CallsAreOwed
CHECK_DEADLOCK FALSE
