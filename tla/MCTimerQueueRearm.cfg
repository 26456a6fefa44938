CONSTANTS
  PoolSize = 2
  UnitsPerMs = 1
  Durations = {2, 3}
  ClockSteps = {}
  MaxNow = 6
  MaxTimes = 2
  MaxSteps = 0
  MaxEntries = 2
SPECIFICATION SafeSpec
INVARIANTS
  ArmedForEarliest
CHECK_DEADLOCK FALSE
