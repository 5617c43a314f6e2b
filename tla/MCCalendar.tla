------------------------------ MODULE MCCalendar ------------------------------
(* MaintenanceWindow, the module extended here, and instances of DomainExpiry and CertExpiry for
   TLC, side by side: `part` says which of them a behaviour is about; the variables of the others
   stand still. *)
EXTENDS MaintenanceWindow

CONSTANTS
  u1, u2,  \* two of whatever an instance needs: monitors, calls, destinations
  Bad

VARIABLES
  part,
  day, registered, dRow, check, sender, dCrashes, told, repeated, excused, missed,
  today, leaf, info, history, call, failures, announced, twice, disturbed, overlapped

\* Two monitors' heartbeats look the domain up; one notifies at a time.
DomainShared ==
  INSTANCE DomainExpiry WITH
    Monitors <- {u1, u2}, Senders <- {u1}, Destinations <- {u1}, NotifyDays <- {1},
    Period <- 2, LookupsFail <- TRUE, MaxDay <- 2, MaxCrashes <- 1,
    row <- dRow, crashes <- dCrashes

\* Two notifications overlap.
DomainOverlap ==
  INSTANCE DomainExpiry WITH
    Monitors <- {u1}, Senders <- {u1, u2}, Destinations <- {u1}, NotifyDays <- {1, 2},
    Period <- 3, LookupsFail <- TRUE, MaxDay <- 2, MaxCrashes <- 0,
    row <- dRow, crashes <- dCrashes

\* A chain of two certificates, two deadlines, one call at a time.
CertSerial ==
  INSTANCE CertExpiry WITH
    Calls <- {u1}, CertReceivers <- {u1}, CertNotifyDays <- {1, 2}, Validity <- 3,
    IssuerEnd <- 4, LastDay <- 3, CertCrashes <- 1, Nothing <- None

CertOverlap ==
  INSTANCE CertExpiry WITH
    Calls <- {u1, u2}, CertReceivers <- {u1}, CertNotifyDays <- {1}, Validity <- 2,
    IssuerEnd <- 3, LastDay <- 2, CertCrashes <- 0, Nothing <- None

Conf(strategy, fires, dur, from, until) ==
  [strategy |-> strategy, fires |-> fires, dur |-> dur, from |-> from, until |-> until]

\* Once a day at the same time.
Daily(start) == {f \in 0..MaxClock : f % DayLen = start}

\* Every strategy, windows that overlap and are as long as a day, one across midnight, one cut
\* off by its end date.
MixedConfigs ==
  {Conf("cron", {1, 2, 6}, 3, None, None), Conf("cron", Daily(2), 2, None, None),
   Conf("cron", Daily(1), 2, 2, 5), Conf("recurring-interval", Daily(1), 1, None, None),
   Conf("single", {}, 0, 2, 4), Conf("manual", {}, 0, None, None)}

ASSUME InstanceAssumption ==
  /\ DomainShared!DomainAssumption /\ DomainOverlap!DomainAssumption
  /\ CertSerial!CertAssumption /\ CertOverlap!CertAssumption
  /\ WindowAssumption

domainVars == <<day, registered, dRow, check, sender, dCrashes, told, repeated, excused, missed>>
certVars   == <<today, leaf, info, history, call, failures, announced, twice, disturbed, overlapped>>
mcVars     == <<part, domainVars, certVars, vars>>

MCInit ==
  \/ part = "domain shared"  /\ DomainShared!Init  /\ CertSerial!Init /\ Init
  \/ part = "domain overlap" /\ DomainOverlap!Init /\ CertSerial!Init /\ Init
  \/ part = "cert serial"    /\ CertSerial!Init    /\ DomainShared!Init /\ Init
  \/ part = "cert overlap"   /\ CertOverlap!Init   /\ DomainShared!Init /\ Init
  \/ part = "window"         /\ Init       /\ DomainShared!Init /\ CertSerial!Init

MCNext ==
  /\ UNCHANGED part
  /\ \/ part = "domain shared"  /\ DomainShared!Next  /\ UNCHANGED <<certVars, vars>>
     \/ part = "domain overlap" /\ DomainOverlap!Next /\ UNCHANGED <<certVars, vars>>
     \/ part = "cert serial"    /\ CertSerial!Next    /\ UNCHANGED <<domainVars, vars>>
     \/ part = "cert overlap"   /\ CertOverlap!Next   /\ UNCHANGED <<domainVars, vars>>
     \/ part = "window"         /\ Next        /\ UNCHANGED <<domainVars, certVars>>

\* The fairness of DomainExpiry and CertExpiry, for the parts with liveness properties.
MCSpec ==
  /\ MCInit /\ [][MCNext]_mcVars
  /\ \A m \in {u1, u2} :
       WF_mcVars(part = "domain shared" /\ (DomainShared!Beat(m) \/ DomainShared!Reply(m)) /\ UNCHANGED <<part, certVars, vars>>)
  /\ WF_mcVars(part = "domain shared" /\ DomainShared!Work(u1) /\ UNCHANGED <<part, certVars, vars>>)
  /\ WF_mcVars(part = "cert serial" /\ CertSerial!Connect(u1) /\ UNCHANGED <<part, domainVars, vars>>)
  /\ WF_mcVars(part = "cert serial" /\ CertSerial!Step(u1) /\ UNCHANGED <<part, domainVars, vars>>)

-----------------------------------------------------------------------------
TypesOK ==
  /\ part = "domain shared"  => DomainShared!TypeOK
  /\ part = "domain overlap" => DomainOverlap!TypeOK
  /\ part = "cert serial"    => CertSerial!TypeOK
  /\ part = "cert overlap"   => CertOverlap!TypeOK
  /\ part = "window"         => TypeOK

\* A deadline is told once, and what counts as sent was told for the registration or the
\* certificate it is stored with (DomainExpiry!ToldOnce and SentWasToldUnlessMissed,
\* CertExpiry!CertToldOnce and HistoryIsOfThisCert).
NoticesToldOnce ==
  /\ part = "domain shared"  => DomainShared!ToldOnce /\ DomainShared!SentWasToldUnlessMissed
  /\ part = "domain overlap" => DomainOverlap!ToldOnce /\ DomainOverlap!SentWasToldUnlessMissed
  /\ part = "cert serial"    => CertSerial!CertToldOnce /\ CertSerial!HistoryIsOfThisCert
  /\ part = "cert overlap"   => CertOverlap!CertToldOnce /\ CertOverlap!HistoryIsOfThisCert

\* A domain or a certificate that runs out is announced (DomainExpiry!ExpiryIsAnnounced and
\* CertExpiry!CertIsAnnounced).
ExpiryIsAnnounced ==
  /\ part = "domain shared" => DomainShared!ExpiryIsAnnounced
  /\ part = "cert serial"   => CertSerial!CertIsAnnounced

===============================================================================
