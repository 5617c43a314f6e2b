SPECIFICATION MCSpec
CONSTANTS
  s1 = s1
  s2 = s2
  p1 = p1
  MaxRetries = 0
  ResendInterval = 0
  UpsideDown = FALSE
  OnlyStatusCode = FALSE
  Slots = {s1, s2}
  Pushers = {p1}
  Results <- PushResults
  Push = TRUE
  EditMidBeat = TRUE
  MaxRestarts = 1
  MaxFaults = 0
  MaxQuiet = 1
  None = None
INVARIANT TypesOK
INVARIANT CountsAreKept
INVARIANT RoutesAgree
PROPERTY KeepsThePromise
PROPERTY OutageIsNoticed
