-------------------------------- MODULE Alerting --------------------------------
(***************************************************************************)
(* What the subscribers of a monitor are promised, without heartbeats,       *)
(* retries or instances: every change of the confirmed state is announced    *)
(* once, a state announced is confirmed, an outage is repeated only if       *)
(* reminders are asked for, and the end of a maintenance is not announced    *)
(* when the monitor comes out of it UP.                                      *)
(*                                                                           *)
(* Nothing is concluded from a state before the last one is on record.  A    *)
(* fault in between takes it back to what is on record, though the           *)
(* announcement has gone out: until the next announcement, or the next UP,   *)
(* an outage may be announced again and a recovery may pass in silence.      *)
(***************************************************************************)
EXTENDS Naturals

CONSTANT ResendInterval  \* 0 for no reminders

VARIABLES
  confirmed,  \* the confirmed state: "unknown", "up" or "down"
  muted,      \* a maintenance has been seen since the state was confirmed
  told,       \* the last announcement: "nothing", "up" or "down"
  parity,     \* flips at every announcement, so that none is invisible
  kept,       \* <<confirmed, muted>> as on record
  lapses,     \* the faults so far
  unsure      \* there was one since an announcement or an UP

vars == <<confirmed, muted, told, parity, kept, lapses, unsure>>

Init ==
  /\ confirmed = "unknown"
  /\ muted     = FALSE
  /\ told      = "nothing"
  /\ parity    = FALSE
  /\ kept      = <<confirmed, muted>>
  /\ lapses    = 0
  /\ unsure    = FALSE

Announce(state) == told' = state /\ parity' = ~parity /\ unsure' = FALSE
Silent          == UNCHANGED <<told, parity>>

\* The last conclusion is on record, as the next must be after this one.
OnRecord == kept = <<confirmed, muted>> /\ UNCHANGED <<kept, lapses>>

\* An outage is confirmed, for the first time or again after a maintenance.
Alarm ==
  /\ OnRecord
  /\ confirmed # "down" \/ muted
  /\ confirmed' = "down"
  /\ muted' = FALSE
  /\ Announce("down")

\* The outage goes on and is announced again.
Remind ==
  /\ OnRecord
  /\ confirmed = "down" /\ ~muted
  /\ ResendInterval > 0 \/ unsure
  /\ UNCHANGED <<confirmed, muted>>
  /\ Announce("down")

\* The outage is over.
Recover ==
  /\ OnRecord
  /\ confirmed = "down" /\ ~muted
  /\ confirmed' = "up"
  /\ UNCHANGED muted
  /\ Announce("up")

\* The monitor is UP at first, or after a maintenance, or after a fault.
Settle ==
  /\ OnRecord
  /\ confirmed = "unknown" \/ muted \/ unsure
  /\ confirmed' = "up"
  /\ muted' = FALSE
  /\ unsure' = FALSE
  /\ Silent

Maintain ==
  /\ OnRecord
  /\ muted' = TRUE
  /\ UNCHANGED <<confirmed, unsure>>
  /\ Silent

\* The state is put on record.
Keep ==
  /\ kept' = <<confirmed, muted>>
  /\ UNCHANGED <<confirmed, muted, lapses, unsure>>
  /\ Silent

\* A fault takes the state back to the one on record.
Lapse ==
  /\ lapses' = lapses + 1
  /\ confirmed' = kept[1] /\ muted' = kept[2]
  /\ unsure' = TRUE
  /\ UNCHANGED kept
  /\ Silent

Next == Alarm \/ Remind \/ Recover \/ Settle \/ Maintain \/ Keep \/ Lapse

Spec == Init /\ [][Next]_vars
===============================================================================
