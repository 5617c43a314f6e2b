---------------------------- MODULE HeartbeatChain ----------------------------
(***************************************************************************)
(* The heartbeats of one monitor: who reads which previous heartbeat, what   *)
(* is stored and what the subscribers are told.                              *)
(*                                                                           *)
(* Heartbeats are written by the beat() of the running instance, by that of  *)
(* an instance that was stopped in the middle of a check, and by requests to *)
(* /api/push.  Each reads a previous heartbeat, checks, notifies and stores, *)
(* awaiting between these.  An instance keeps its previous heartbeat and its *)
(* retries in the closure of start() and reads the database only when it has *)
(* none; a push monitor's beat() and a push request read it every time.      *)
(*                                                                           *)
(* A heartbeat is announced before it is stored.  An exception between the   *)
(* two, which safeBeat() catches, or a crash of the process leaves what was  *)
(* announced unknown to the database; both may happen at any point.          *)
(***************************************************************************)
EXTENDS HeartbeatRules

CONSTANTS
  Slots,         \* slots for Monitor instances; one is current, others may be finishing
  Pushers,       \* push requests that may be in progress at the same time
  Results,       \* outcomes of a check that may happen
  Push,          \* TRUE: a monitor of type "push"
  EditMidBeat,   \* TRUE: the monitor may be restarted while a beat is under way
  MaxRestarts,   \* bound: restarts
  MaxFaults,     \* bound: exceptions and crashes
  MaxQuiet,      \* bound: times in a row the push branch finds the last push recent
  None

ASSUME ChainAssumption ==
  /\ Results \subseteq Outcomes
  /\ Push \in BOOLEAN /\ EditMidBeat \in BOOLEAN
  /\ MaxRestarts \in Nat /\ MaxFaults \in Nat /\ MaxQuiet \in Nat
  /\ Slots # {} /\ Slots \cap Pushers = {}
  /\ (Pushers # {}) => Push

VARIABLES
  stage,      \* of a writer: "off", "idle" (timer armed), "read", "check", "alert", "store"
  current,    \* the instance in monitorList
  previous,   \* the previous heartbeat a writer works with
  retries,    \* the retry counter in the closure of start()
  bean,       \* the heartbeat a writer is making
  earlier,    \* the writers whose unfinished heartbeats have an earlier time
  outdated,   \* a heartbeat with a later time has been stored already
  lastByTime, \* the stored heartbeat with the latest time
  lastById,   \* the heartbeat stored last
  quiet,      \* times the push branch may still do so
  restarts, faults,
  confirmed, muted, told, parity,  \* history: what was concluded and announced
  streak,     \* history: consecutive failed checks, up to MaxRetries + 1
  silent,     \* history: DOWN heartbeats since the last announcement
  kept,       \* history: the above, as the heartbeat stored last has them
  unsure      \* history: a fault has fallen since an announcement or an UP

writerVars  == <<stage, previous, retries, bean>>
orderVars   == <<earlier, outdated>>
storedVars  == <<lastByTime, lastById, quiet>>
boundVars   == <<restarts, faults>>
drawnVars   == <<confirmed, muted, silent, unsure>>
historyVars == <<drawnVars, told, parity, streak, kept>>
vars == <<writerVars, current, orderVars, storedVars, boundVars, historyVars>>

Writers  == Slots \cup Pushers
InFlight == {"check", "alert", "store"}
Beats    == [status : Statuses, retries : 0..MaxRetries, downCount : 0..ResendInterval]

\* What a restarted program would go on from.
Memories == [confirmed : {"unknown", "up", "down"}, muted : BOOLEAN,
             silent : 0..ResendInterval, streak : 0..(MaxRetries + 1)]

ASSUME NoneAssumption == None \notin Beats

TypeOK ==
  /\ stage \in [Writers -> {"off", "idle", "read"} \cup InFlight]
  /\ current \in Slots
  /\ previous \in [Writers -> Beats \cup {None}]
  /\ retries \in [Slots -> 0..MaxRetries]
  /\ bean \in [Writers -> Beats \cup {None}]
  /\ earlier \in [Writers -> SUBSET Writers]
  /\ outdated \in [Writers -> BOOLEAN]
  /\ lastByTime \in Beats \cup {None}
  /\ lastById \in Beats \cup {None}
  /\ quiet \in 0..MaxQuiet
  /\ restarts \in 0..MaxRestarts /\ faults \in 0..MaxFaults
  /\ confirmed \in {"unknown", "up", "down"}
  /\ muted \in BOOLEAN /\ parity \in BOOLEAN
  /\ told \in {"nothing", "up", "down"}
  /\ streak \in 0..(MaxRetries + 1)
  /\ silent \in 0..ResendInterval
  /\ kept \in Memories /\ unsure \in BOOLEAN
  /\ \A w \in Writers : stage[w] \in {"alert", "store"} => bean[w] # None

Init ==
  /\ current = CHOOSE s \in Slots : TRUE
  /\ stage = [w \in Writers |-> IF w = current THEN "idle" ELSE "off"]
  /\ previous = [w \in Writers |-> None]
  /\ retries = [s \in Slots |-> 0]
  /\ bean = [w \in Writers |-> None]
  /\ earlier = [w \in Writers |-> {}]
  /\ outdated = [w \in Writers |-> FALSE]
  /\ lastByTime = None /\ lastById = None
  /\ quiet = 0
  /\ restarts = 0 /\ faults = 0
  /\ confirmed = "unknown" /\ muted = FALSE
  /\ told = "nothing" /\ parity = FALSE
  /\ streak = 0 /\ silent = 0
  /\ kept = [confirmed |-> "unknown", muted |-> FALSE, silent |-> 0, streak |-> 0]
  /\ unsure = FALSE

-------------------------------------------------------------------------------
Move(w, to) == stage' = [stage EXCEPT ![w] = to]

\* R.dispense("heartbeat") with the time of now: later than every other
\* heartbeat being made.
Dispense(w) ==
  /\ earlier'  = [earlier EXCEPT ![w] = {v \in Writers : stage[v] \in InFlight}]
  /\ outdated' = [outdated EXCEPT ![w] = FALSE]

\* The timer of the instance fires; beat() needs the database when it has no
\* previous heartbeat, or for a push monitor.
TimerFires(s) ==
  /\ stage[s] = "idle"
  /\ IF previous[s] = None \/ Push
     THEN Move(s, "read") /\ UNCHANGED orderVars
     ELSE Move(s, "check") /\ Dispense(s)
  /\ UNCHANGED <<current, previous, retries, bean, storedVars, boundVars, historyVars>>

\* mutant: the retries of the previous heartbeat are not taken over.
ReadPrevious_ForgetsRetries(s) ==
  /\ stage[s] = "read"
  /\ previous' = [previous EXCEPT ![s] = lastByTime]
  /\ UNCHANGED retries
  /\ streak' = IF lastByTime # None THEN kept.streak ELSE streak
  /\ Move(s, "check")
  /\ Dispense(s)
  /\ UNCHANGED <<current, bean, storedVars, boundVars, drawnVars, told, parity, kept>>

\* beat(): previousBeat by time, and with it the retries: a failed check whose
\* heartbeat was not stored is forgotten.
ReadPrevious(s) ==
  /\ stage[s] = "read"
  /\ previous' = [previous EXCEPT ![s] = lastByTime]
  /\ retries' = [retries EXCEPT ![s] = IF lastByTime # None THEN lastByTime.retries ELSE @]
  /\ streak' = IF lastByTime # None THEN kept.streak ELSE streak
  /\ Move(s, "check")
  /\ Dispense(s)
  /\ UNCHANGED <<current, bean, storedVars, boundVars, drawnVars, told, parity, kept>>

\* A push request arrives and reads the previous heartbeat, by id.
PushArrives(p) ==
  /\ stage[p] = "off"
  /\ previous' = [previous EXCEPT ![p] = lastById]
  /\ Move(p, "check")
  /\ Dispense(p)
  /\ UNCHANGED <<current, retries, bean, storedVars, boundVars, historyVars>>

\* The state a heartbeat confirms, for the history variables.
Confirm(status) ==
  /\ confirmed' = CASE status = UP -> "up" [] status = DOWN -> "down" [] OTHER -> confirmed
  /\ muted' = (status = MAINTENANCE \/ (muted /\ status = PENDING))
  /\ unsure' = (unsure /\ status # UP)

\* The heartbeat is decided.  It is announced before it is stored, or only stored.
Decide(w, verdict, notice) ==
  /\ bean' = [bean EXCEPT ![w] =
        [status |-> verdict.status, retries |-> verdict.retries, downCount |-> notice.downCount]]
  /\ IF notice.notify
     THEN Move(w, "alert") /\ UNCHANGED drawnVars
     ELSE /\ Move(w, "store")
          /\ Confirm(verdict.status)
          /\ silent' = IF verdict.status = DOWN /\ silent < ResendInterval THEN silent + 1
                       ELSE silent

Fails(outcome) == beatResult(outcome, MaxRetries).status = DOWN

\* mutant: a resent notification forgets the heartbeats counted so far.
Conclude_LosesCount(s, outcome) ==
  LET prev    == previous[s]
      verdict == beatResult(outcome, retries[s])
      notice  == beatNotice(prev = None, IF prev = None THEN None ELSE prev.status,
                            verdict.status, 0)
  IN
  /\ stage[s] = "check"
  /\ ~(Push /\ outcome \notin {"error", MAINTENANCE})
  /\ retries' = [retries EXCEPT ![s] = verdict.retries]
  /\ streak' = IF ~Fails(outcome) THEN 0 ELSE IF streak > MaxRetries THEN streak ELSE streak + 1
  /\ Decide(s, verdict, notice)
  /\ UNCHANGED <<current, previous, orderVars, storedVars, boundVars, told, parity, kept>>

\* beat(): the check ends.  A push monitor's own check only ever fails ("No
\* heartbeat in the time window"), finds a maintenance, or ends in PushInTime.
Conclude(s, outcome) ==
  LET prev    == previous[s]
      verdict == beatResult(outcome, retries[s])
      notice  == beatNotice(prev = None, IF prev = None THEN None ELSE prev.status,
                            verdict.status, IF prev = None THEN 0 ELSE prev.downCount)
  IN
  /\ stage[s] = "check"
  /\ ~(Push /\ outcome \notin {"error", MAINTENANCE})
  /\ retries' = [retries EXCEPT ![s] = verdict.retries]
  /\ streak' = IF ~Fails(outcome) THEN 0 ELSE IF streak > MaxRetries THEN streak ELSE streak + 1
  /\ Decide(s, verdict, notice)
  /\ UNCHANGED <<current, previous, orderVars, storedVars, boundVars, told, parity, kept>>

\* mutant: the age of the last heartbeat is not looked at.
PushInTime_AnyAge(s) ==
  /\ Push
  /\ stage[s] = "check"
  /\ previous[s] # None /\ previous[s].status = HealthyStatus
  /\ retries' = [retries EXCEPT ![s] = 0]
  /\ Move(s, "idle")
  /\ UNCHANGED <<current, previous, bean, orderVars, storedVars, boundVars, historyVars>>

\* beat() of a push monitor whose last heartbeat is healthy and recent: nothing is
\* stored and the timer is armed again, stopped or not.
PushInTime(s) ==
  /\ Push
  /\ stage[s] = "check"
  /\ previous[s] # None /\ previous[s].status = HealthyStatus
  /\ quiet > 0
  /\ quiet' = quiet - 1
  /\ retries' = [retries EXCEPT ![s] = 0]
  /\ Move(s, "idle")
  /\ UNCHANGED <<current, previous, bean, orderVars, lastByTime, lastById, boundVars, historyVars>>

\* The push route decides: pushed is UP or DOWN, "status=down" being explicit.
\* The monitor may be under maintenance when the outcomes allow it.
PushConcludes(p, pushed, explicitDown) ==
  LET prev    == previous[p]
      first   == prev = None
      verdict == determineStatus(pushed, explicitDown, ~first,
                   IF first THEN None ELSE prev.status, IF first THEN 0 ELSE prev.retries)
      muffled == [status |-> MAINTENANCE, retries |-> 0]
  IN
  /\ stage[p] = "check"
  /\ \E v \in {verdict} \cup (IF MAINTENANCE \in Results THEN {muffled} ELSE {}) :
       Decide(p, v, pushNotice(first, IF first THEN None ELSE prev.status, v.status,
                               IF first THEN 0 ELSE prev.downCount))
  /\ UNCHANGED <<current, previous, retries, orderVars, storedVars, boundVars, told, parity, streak, kept>>

\* sendNotification() has reached the subscribers.
Announce(w) ==
  /\ stage[w] = "alert"
  /\ told' = IF bean[w].status = UP THEN "up" ELSE "down"
  /\ parity' = ~parity
  /\ confirmed' = told'
  /\ muted' = FALSE /\ unsure' = FALSE
  /\ silent' = 0
  /\ Move(w, "store")
  /\ UNCHANGED <<current, previous, retries, bean, orderVars, storedVars, boundVars, streak, kept>>

\* R.store(bean): the heartbeat is in the database.  The instance takes it for its
\* previous one and re-arms its timer unless it was stopped; a request is done.
Store(w) ==
  /\ stage[w] = "store"
  /\ lastById' = bean[w]
  /\ lastByTime' = IF outdated[w] THEN lastByTime ELSE bean[w]
  /\ outdated' = [v \in Writers |-> v # w /\ (outdated[v] \/ v \in earlier[w])]
  /\ earlier' = [v \in Writers |-> IF v = w THEN {} ELSE earlier[v] \ {w}]
  /\ quiet' = IF w \in Pushers THEN MaxQuiet ELSE quiet
  /\ LET again == w = current IN
     /\ Move(w, IF again THEN "idle" ELSE "off")
     /\ previous' = [previous EXCEPT ![w] = IF again THEN bean[w] ELSE None]
     /\ retries' = [s \in Slots |-> IF s = w /\ ~again THEN 0 ELSE retries[s]]
  /\ bean' = [bean EXCEPT ![w] = None]
  /\ kept' = [confirmed |-> confirmed, muted |-> muted, silent |-> silent, streak |-> streak]
  /\ UNCHANGED <<current, boundVars, drawnVars, told, parity, streak>>

\* startMonitor: the instance is stopped, which ends it at once or after the beat
\* that is under way, and a new one is started.
Restart(s) ==
  /\ restarts < MaxRestarts
  /\ s # current /\ stage[s] = "off"
  /\ stage[current] = "idle" \/ EditMidBeat
  /\ restarts' = restarts + 1
  /\ current' = s
  /\ stage' = [stage EXCEPT ![s] = "idle",
                            ![current] = IF @ = "idle" THEN "off" ELSE @]
  /\ previous' = [previous EXCEPT ![s] = None,
                                  ![current] = IF stage[current] = "idle" THEN None ELSE @]
  /\ retries' = [retries EXCEPT ![s] = 0,
                                ![current] = IF stage[current] = "idle" THEN 0 ELSE @]
  /\ streak' = kept.streak
  /\ UNCHANGED <<bean, orderVars, storedVars, faults, drawnVars, told, parity, kept>>

\* What was concluded from heartbeats that did not get stored counts no more.
Forget ==
  /\ faults < MaxFaults
  /\ faults' = faults + 1
  /\ confirmed' = kept.confirmed /\ muted' = kept.muted /\ silent' = kept.silent
  /\ unsure' = TRUE
  /\ UNCHANGED <<restarts, storedVars, told, parity, kept>>

\* An exception in beat() outside of its own try, in its catch block, or in a query of
\* sendNotification() or R.store(): safeBeat() catches it and arms the timer again
\* unless the instance was stopped.  The closure keeps its previous heartbeat and its
\* retries; the heartbeat is lost, announced or not.  A push request answers 404.
Fail(w) ==
  /\ stage[w] \in {"read"} \cup InFlight
  /\ Forget
  /\ LET again == w = current IN
     /\ Move(w, IF again THEN "idle" ELSE "off")
     /\ previous' = [previous EXCEPT ![w] = IF again THEN @ ELSE None]
     /\ retries' = [s \in Slots |-> IF s = w /\ ~again THEN 0 ELSE retries[s]]
  /\ bean' = [bean EXCEPT ![w] = None]
  /\ outdated' = [outdated EXCEPT ![w] = FALSE]
  /\ earlier' = [v \in Writers |-> IF v = w THEN {} ELSE earlier[v] \ {w}]
  /\ UNCHANGED <<current, streak>>

\* The process dies and is started again (startMonitors).
Crash ==
  /\ Forget
  /\ stage' = [w \in Writers |-> IF w = current THEN "idle" ELSE "off"]
  /\ previous' = [w \in Writers |-> None]
  /\ retries' = [s \in Slots |-> 0]
  /\ bean' = [w \in Writers |-> None]
  /\ earlier' = [w \in Writers |-> {}]
  /\ outdated' = [w \in Writers |-> FALSE]
  /\ streak' = kept.streak
  /\ UNCHANGED current

-------------------------------------------------------------------------------
Finish(s) == (\E o \in Results : Conclude(s, o)) \/ PushInTime(s)

PushFinishes(p) == \E pushed \in {UP, DOWN}, explicit \in BOOLEAN :
                     (explicit => pushed = DOWN) /\ PushConcludes(p, pushed, explicit)

Next ==
  \/ \E s \in Slots : TimerFires(s) \/ ReadPrevious(s) \/ Finish(s) \/ Restart(s)
  \/ \E p \in Pushers : PushArrives(p) \/ PushFinishes(p)
  \/ \E w \in Writers : Announce(w) \/ Store(w) \/ Fail(w)
  \/ Crash

Spec == Init /\ [][Next]_vars

\* A writer goes on: its timer fires, its check ends, its queries are answered.  The
\* steps of one writer exclude each other, so none of them waits forever.
Proceed(w) ==
  \/ w \in Slots /\ (TimerFires(w) \/ ReadPrevious(w) \/ Finish(w))
  \/ w \in Pushers /\ PushFinishes(w)
  \/ Announce(w) \/ Store(w)

\* Whether a check fails, a push arrives, the monitor is edited or something throws is
\* up to the world.
Fairness == \A w \in Writers : WF_vars(Proceed(w))

FairSpec == Spec /\ Fairness

-------------------------------------------------------------------------------
(* Properties *)

\* beat() implements the promise to the subscribers: with the monitor edited only
\* between beats, every change of state is announced, retries and restarts never hide
\* or repeat one, and DOWN -> MAINTENANCE -> UP is silent.  Only an exception or a
\* crash before the heartbeat is stored lets an announcement be made again, or a
\* recovery pass in silence.
A == INSTANCE Alerting WITH kept <- <<kept.confirmed, kept.muted>>, lapses <- faults
ImplementsAlerting == A!Spec

\* A heartbeat is DOWN exactly when it is at least the (MaxRetries + 1)st failed check in a
\* row, whatever restarts, crashes and exceptions fell between them: retries are read back
\* from the database, and only the checks whose heartbeats never got there are not counted.
DownAfterRetries ==
  \A s \in Slots : stage[s] \in {"alert", "store"} =>
     (bean[s].status = DOWN <=> streak = MaxRetries + 1)

\* During an outage fewer than ResendInterval stored heartbeats in a row go unannounced,
\* across restarts, crashes and exceptions.
ReminderSpacing ==
  ResendInterval > 0 /\ confirmed = "down" /\ ~muted => silent < ResendInterval

\* If from some point on every check fails, the subscribers come to know; without
\* reminders not if a fault lost the heartbeat of a recovery they were told of.
OutageIsAnnounced ==
  (<>[](streak > 0)) => <>[](told = "down") \/ <>(ResendInterval = 0 /\ faults > 0)

\* If pushes cease for good, the stored status comes to say so.
SilenceIsNoticed ==
  (<>[](\A p \in Pushers \cap DOMAIN stage : stage[p] = "off"))
    => <>[](lastByTime # None /\ lastByTime.status # HealthyStatus)

Reversed == INSTANCE HeartbeatRules WITH UpsideDown <- TRUE
Straight == INSTANCE HeartbeatRules WITH UpsideDown <- FALSE

\* Upside-down mode is the mirror image for every type that reports by success or
\* error: with the retries an instance has reached, an error then has the status and
\* the retries of a success, and a success those of an error (beat(): "Flip UP to
\* DOWN", CaughtStatus).
MirrorImage ==
  \A s \in Slots :
    /\ Reversed!beatResult(UP, retries[s]) = Straight!beatResult("error", retries[s])
    /\ Reversed!beatResult("error", retries[s]) = Straight!beatResult(UP, retries[s])

\* While the monitor is neither DOWN nor coming out of a maintenance, a failure that a
\* push reports has the status beat() gives one it finds, so both routes allow the same
\* number of retries, with one exception: "status=down" is DOWN at once, whatever
\* maxretries is (any other word than "up" is a failure with retries).  Upside down an
\* "up" is the failure, which no push makes explicit, and "status=down" a success.
PushAgreesWithBeat ==
  LET first   == lastById = None
      counted == IF first THEN 0 ELSE lastById.retries
      known   == IF first THEN None ELSE lastById.status
      found   == Straight!beatResult("error", counted).status
  IN first \/ known \in {UP, PENDING} =>
       /\ \A explicit \in BOOLEAN :
            Straight!determineStatus(DOWN, explicit, ~first, known, counted).status
              = IF explicit THEN DOWN ELSE found
       /\ Reversed!determineStatus(UP, FALSE, ~first, known, counted).status = found
       /\ Reversed!determineStatus(DOWN, TRUE, ~first, known, counted).status = UP

Settled == \A w \in Writers : stage[w] \in {"off", "idle"}

\* "DOWN -> PENDING = this case not exists" (isImportantBeat).
NoDownToPending ==
  \A w \in Writers :
    stage[w] = "store" /\ previous[w] # None /\ previous[w].status = DOWN
      => bean[w].status # PENDING

\* "DOWN -> UP = important" (isImportantForNotification): with all writers at rest,
\* a monitor last seen UP was not last announced DOWN.
RecoveryIsTold == Settled /\ lastByTime # None /\ lastByTime.status = UP => told # "down"

\* "UP -> DOWN = important": a monitor last seen DOWN was last announced DOWN.
OutageIsTold == Settled /\ lastByTime # None /\ lastByTime.status = DOWN => told = "down"
===============================================================================
