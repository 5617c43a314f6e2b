--------------------------- MODULE MCHeartbeatChain ---------------------------
(* Two instances of HeartbeatChain for TLC; `part` says which of them a behaviour is about.
   "push" is the module extended here: a push monitor without retries, pushed and edited in
   the middle of beats.  "alerts" has retries and resends, is edited between beats, and beats
   that throw and crashes fall anywhere. *)
EXTENDS HeartbeatChain, TLC

VARIABLE part

\* Plain checks: they succeed, fail, or find a maintenance.
PlainResults == {UP, "error", MAINTENANCE}

PushResults == {"error"}

Alerts ==
  INSTANCE HeartbeatChain WITH
    MaxRetries <- 2, ResendInterval <- 3, Pushers <- {}, Results <- PlainResults,
    Push <- FALSE, EditMidBeat <- FALSE, MaxRestarts <- 2, MaxFaults <- 2

MCInit ==
  \/ part = "push"   /\ Init
  \/ part = "alerts" /\ Alerts!Init

MCNext ==
  /\ UNCHANGED part
  /\ \/ part = "push"   /\ Next
     \/ part = "alerts" /\ Alerts!Next

\* The fairness of HeartbeatChain, in each part, as TLC evaluates it sooner: a writer that is not
\* off has a step Proceed(w), each such step moves it on, and what else does so (Restart, Fail,
\* Crash) happens a bounded number of times.
Moves(w) ==
  /\ w \in DOMAIN stage /\ stage[w] # "off"
  /\ \E to \in ({"off", "idle", "read"} \cup InFlight) \ {stage[w]} : stage' = [stage EXCEPT ![w] = to]

MCSpec ==
  /\ MCInit /\ [][MCNext]_<<vars, part>>
  /\ \A w \in Writers : WF_stage(Moves(w))

-----------------------------------------------------------------------------
TypesOK == /\ part = "push"   => TypeOK
           /\ part = "alerts" => Alerts!TypeOK

\* A heartbeat is DOWN exactly from the (MaxRetries + 1)st failed check on and resends come
\* every ResendInterval heartbeats, whatever restarts, crashes and exceptions fell between
\* (HeartbeatChain!DownAfterRetries and ReminderSpacing).
CountsAreKept == part = "alerts" => Alerts!DownAfterRetries /\ Alerts!ReminderSpacing

\* beat() and the push route count a failure alike except for a "status=down", which allows no
\* retry, and upside-down mode is the mirror image
\* (HeartbeatChain!PushAgreesWithBeat and MirrorImage).
RoutesAgree == part = "alerts" => Alerts!PushAgreesWithBeat /\ Alerts!MirrorImage

\* beat() implements the promise to the subscribers (HeartbeatChain!ImplementsAlerting): the
\* initial states and every step of the chain are some of the module Alerting, in which an
\* announcement is repeated or a recovery passed over only after a fault.
KeepsThePromise ==
  /\ part = "alerts" => Alerts!A!Init
  /\ [][part = "alerts" => [Alerts!A!Next]_Alerts!A!vars]_<<vars, part>>

\* A lasting outage is announced, and if pushes cease the stored status says so in the end
\* (HeartbeatChain!OutageIsAnnounced and SilenceIsNoticed).
OutageIsNoticed == /\ part = "alerts" => Alerts!OutageIsAnnounced
                   /\ part = "push"   => SilenceIsNoticed
===============================================================================
