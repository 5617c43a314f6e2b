SPECIFICATION Spec
CONSTANTS
  m1 = m1
  d1 = d1
  d2 = d2
  Monitors = {m1}
  Types = {"SSL"}
  Destinations = {d1, d2}
  Initial = {"A"}
  Watched <- OneWatched
  Targets = {"A", "B"}
  Disabled = "disabled"
  Retries = 2
  MaxRunning = 1
  LostAnswers = TRUE
  MaxEdits = 1
  MaxCrashes = 1
  None = None
INVARIANT TypeOK
PROPERTY AlertsAlternate
PROPERTY ThresholdKept
PROPERTY LastingStateIsTold
PROPERTY SlotsAreFreed
