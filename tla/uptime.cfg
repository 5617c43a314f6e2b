SPECIFICATION MCSpec
CONSTANTS
  beat = beat
  push = push
  badge = badge
  c1 = c1
  c2 = c2
  Recorders = {beat}
  Readers = {badge}
  Calcs = {c1, c2}
  Limit <- LimitTwo
  HourLen = 2
  DayLen = 4
  Hasty = FALSE
  Clearing = FALSE
  MaxClock = 3
  MaxBeats = 4
  MaxCrashes = 2
  None = None
SYMMETRY CalcSymmetry
CHECK_DEADLOCK FALSE
INVARIANT TypeOK
INVARIANT StatsAgree
INVARIANT OverlapCountsOnce
PROPERTY StatsNeverShrink
