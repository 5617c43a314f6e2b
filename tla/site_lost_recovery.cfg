SPECIFICATION Spec
CONSTANTS
  m1 = m1
  d1 = d1
  Monitors = {m1}
  Types = {"SSL"}
  Destinations = {d1}
  Initial = {"A"}
  Watched <- OneWatched
  Targets = {"A"}
  Disabled = "disabled"
  Retries = 1
  MaxRunning = 1
  LostAnswers = FALSE
  MaxEdits = 0
  MaxCrashes = 1
  None = None
PROPERTY AlertsAsDocumented
