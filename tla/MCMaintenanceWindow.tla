-------------------------- MODULE MCMaintenanceWindow --------------------------
(* Instances of MaintenanceWindow for TLC. *)
EXTENDS MaintenanceWindow

Conf(strategy, fires, dur, from, until) ==
  [strategy |-> strategy, fires |-> fires, dur |-> dur, from |-> from, until |-> until]

\* Once a day at the same time.
Daily(start) == {f \in 0..MaxClock : f % DayLen = start}

IntervalConfigs == {Conf("recurring-interval", Daily(1), 1, None, None)}
===============================================================================
