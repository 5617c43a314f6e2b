SPECIFICATION MCSpec
CONSTANTS
  a = a
  b = b
  c = c
  d = d
  Null = Null
  Servers = {a, b}
  Beats = {a, b, c}
  MonitorOf <- MonitorsOfBeats
  DateOf <- DatesOfBeats
  Kept = {b}
  DevCounted = {b}
  StartsRace = FALSE
  MaxStarts = 4
CHECK_DEADLOCK FALSE
INVARIANT TypesOK
INVARIANT SettingsAreSound
INVARIANT MonitorsAreSound
INVARIANT PagesAreSound
INVARIANT MigrationIsSound
INVARIANT ConditionsAreSound
INVARIANT BrowserFollows
