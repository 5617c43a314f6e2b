SPECIFICATION FairSpec
CONSTANTS
  m1 = m1
  h1 = h1
  h2 = h2
  Monitors = {m1}
  PushMonitors = {}
  GroupMembers = {}
  Handlers = {h1, h2}
  MaxInst = 2
  MaxEdits = 1
  MaxCrash = 1
  Pooled = FALSE
  EarlyUsers = FALSE
  Failures = FALSE
  None = None
INVARIANT ActiveIsMonitored
PROPERTY KeepsBeating
PROPERTY StoppedEnds
