SPECIFICATION Spec
CONSTANTS
  h1 = h1
  Handlers = {h1}
  Configs <- IntervalConfigs
  DayLen = 3
  IntervalDay = 2
  MaxClock = 12
  MaxOps = 1
  MaxCrashes = 0
  None = None
CHECK_DEADLOCK FALSE
INVARIANT IntervalRestarts
