-------------------------- MODULE MCMonitorLifecycle --------------------------
(* Instances of MonitorLifecycle for TLC. *)
EXTENDS MonitorLifecycle, TLC

\* Handlers are interchangeable.
HandlerSymmetry == Permutations(Handlers)
===============================================================================
