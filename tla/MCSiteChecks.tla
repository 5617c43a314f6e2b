----------------------------- MODULE MCSiteChecks -----------------------------
(* Instances of SiteChecks for TLC. *)
EXTENDS SiteChecks

\* The destinations are interchangeable, and a target is as good as another.
OneWatched == {<<CHOOSE d \in Destinations : TRUE, "A">>}

\* A lasting failure, and a lasting recovery from one, are told to every destination that accepts
\* it (SiteChecks!FailureIsTold and RecoveryIsTold).
LastingStateIsTold == FailureIsTold /\ RecoveryIsTold
===============================================================================
