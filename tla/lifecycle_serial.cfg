SPECIFICATION Spec
CONSTANTS
  m1 = m1
  m2 = m2
  h1 = h1
  Monitors = {m1, m2}
  PushMonitors = {m2}
  GroupMembers = {m2}
  Handlers = {h1}
  MaxInst = 1
  MaxEdits = 1
  MaxCrash = 1
  Pooled = FALSE
  EarlyUsers = FALSE
  Failures = FALSE
  None = None
INVARIANT TypeOK
INVARIANT InactiveIsQuiet
INVARIANT ConfigFresh
INVARIANT NoNextCheck
