SPECIFICATION Spec
CONSTANTS
  m1 = m1
  h1 = h1
  h2 = h2
  Monitors = {m1}
  PushMonitors = {}
  GroupMembers = {m1}
  Handlers = {h1, h2}
  MaxInst = 3
  MaxEdits = 1
  MaxCrash = 1
  Pooled = TRUE
  EarlyUsers = FALSE
  Failures = TRUE
  None = None
SYMMETRY HandlerSymmetry
INVARIANT NoOrphan
