SPECIFICATION MCSpec
CONSTANTS
  u1 = u1
  u2 = u2
  None = None
  Bad = Bad
  Handlers = {u1}
  Configs <- MixedConfigs
  DayLen = 3
  IntervalDay = 1
  MaxClock = 8
  MaxOps = 3
  MaxCrashes = 1
CHECK_DEADLOCK FALSE
INVARIANT TypesOK
INVARIANT NoticesToldOnce
INVARIANT MaintenanceIsSound
PROPERTY ExpiryIsAnnounced
