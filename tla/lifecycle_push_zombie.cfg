SPECIFICATION Spec
CONSTANTS
  m1 = m1
  h1 = h1
  Monitors = {m1}
  PushMonitors = {m1}
  GroupMembers = {}
  Handlers = {h1}
  MaxInst = 1
  MaxEdits = 0
  MaxCrash = 0
  Pooled = FALSE
  EarlyUsers = FALSE
  Failures = FALSE
  None = None
INVARIANT StoppedMeansNoNextCheck
