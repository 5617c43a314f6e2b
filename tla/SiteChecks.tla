------------------------------ MODULE SiteChecks ------------------------------
(***************************************************************************)
(* server/site-check-runner.js and notifyTransitions of site-checks.js: the  *)
(* inventory checks of a monitor's site and the alerts about them.           *)
(*                                                                           *)
(* A heartbeat starts runSiteChecks() and does not wait for it.  The row     *)
(* `site_check` of a monitor keeps, per check type, how often it failed in a *)
(* row and what every destination was told last; it is stored once, after    *)
(* the last delivery of a run.  The monitor, its maintenance, the            *)
(* destinations and the process may change or end anywhere in between.       *)
(***************************************************************************)
EXTENDS Naturals, FiniteSets

CONSTANTS
  Monitors,
  Types,        \* the check types that are required
  Destinations, \* notification destinations
  Targets,      \* url and configuration of a monitor, as one value
  Initial,      \* targets a monitor may have when the server starts
  Disabled,     \* a configuration with the checks disabled
  Retries,      \* config.retries
  MaxRunning,   \* 4 in the code
  LostAnswers,  \* TRUE: a delivery that throws may have arrived
  MaxEdits,     \* bound: edits, pauses, resumptions, deletions, changes of destinations
  MaxCrashes,   \* bound: crashes
  Watched,      \* <<destination, target>>: what the liveness properties look at
  None

ASSUME SiteAssumption ==
  /\ Retries \in Nat \ {0} /\ MaxRunning \in Nat \ {0}
  /\ MaxEdits \in Nat /\ MaxCrashes \in Nat /\ LostAnswers \in BOOLEAN
  /\ Initial \subseteq Targets /\ Disabled \notin Targets
  /\ None \notin Targets \cup {Disabled}

VARIABLES
  monitor,     \* the row: `target` (None: deleted) and `active`
  live,        \* target of the instance whose heartbeats run; None: there is none
  site_check,  \* the row: target, state, due; None: there is no row
  run,         \* runSiteChecks() in progress: its step and what it has read
  site,        \* environment: what a check of a type finds now
  subscribed,  \* destinations the monitors have
  maintained,  \* environment: the monitor is under maintenance
  edits, crashes,
  heard,       \* history: <<type, destination>> told of a failure last, under a target
  unsaved,     \* history: of these, what no stored row knows of
  streak       \* history: stored failures of a type in a row under a target, up to Retries

env  == <<site, subscribed, maintained>>
hist == <<heard, unsaved, streak>>
vars == <<monitor, live, site_check, run, env, edits, crashes, hist>>

Statuses == {"up", "down", "unknown"}
Pairs    == Types \X Destinations
State    == [Types -> [failures : Nat, delivered : [Destinations -> {None, "up", "down"}]]]
Fresh    == [t \in Types |-> [failures |-> 0, delivered |-> [d \in Destinations |-> None]]]
Idle     == [step |-> "idle", target |-> None, row |-> None, snapshot |-> None,
             state |-> Fresh, pending |-> {}]
Steps    == {"idle", "find", "collect", "reread", "prepare", "deliver"}
CheckRow == [target : Targets, state : State, due : BOOLEAN]

ASSUME NoneAssumption == None \notin Statuses \cup [Types -> Statuses] \cup CheckRow

TypeOK ==
  /\ monitor \in [Monitors -> [target : Targets \cup {Disabled, None}, active : BOOLEAN]]
  /\ live \in [Monitors -> Targets \cup {Disabled, None}]
  /\ \A m \in Monitors :
       /\ site_check[m] # None => /\ site_check[m].target \in Targets
                                  /\ site_check[m].state \in State
                                  /\ \A t \in Types : site_check[m].state[t].failures <= Retries
                                  /\ site_check[m].due \in BOOLEAN
       /\ run[m].step \in Steps
       /\ run[m].step # "idle" => run[m].target \in Targets
       /\ run[m].state \in State
       /\ run[m].pending \subseteq Pairs
       /\ run[m].step \in {"reread", "prepare"} \/ run[m].pending # {}
            => run[m].snapshot \in [Types -> Statuses]
  /\ Cardinality({m \in Monitors : run[m].step # "idle"}) <= MaxRunning
  /\ site \in [Types -> Statuses]
  /\ subscribed \subseteq Destinations
  /\ maintained \in BOOLEAN
  /\ edits \in 0..MaxEdits /\ crashes \in 0..MaxCrashes
  /\ heard \in [Monitors -> [Targets -> SUBSET Pairs]]
  /\ unsaved \in [Monitors -> [Targets -> SUBSET Pairs]]
  /\ streak \in [Monitors -> [Targets -> [Types -> 0..Retries]]]

\* What is kept of a history under any target when the baseline is target's.
Only(target, value, nothing) == [x \in Targets |-> IF x = target THEN value ELSE nothing]

Init ==
  /\ monitor \in [Monitors -> [target : Initial, active : {TRUE}]]
  /\ live = [m \in Monitors |-> monitor[m].target]
  /\ site_check = [m \in Monitors |-> None]
  /\ run = [m \in Monitors |-> Idle]
  /\ site \in [Types -> Statuses]
  /\ subscribed = Destinations
  /\ maintained = FALSE
  /\ edits = 0 /\ crashes = 0
  /\ heard = [m \in Monitors |-> [x \in Targets |-> {}]]
  /\ unsaved = [m \in Monitors |-> [x \in Targets |-> {}]]
  /\ streak = [m \in Monitors |-> [x \in Targets |-> [t \in Types |-> 0]]]

-----------------------------------------------------------------------------
(* runSiteChecks() *)

running == {m \in Monitors : run[m].step # "idle"}

\* A heartbeat of the live instance comes to the site checks.
Begin(m) ==
  /\ live[m] \in Targets
  /\ m \notin running
  /\ Cardinality(running) < MaxRunning
  /\ run' = [run EXCEPT ![m] = [Idle EXCEPT !.step = "find", !.target = live[m]]]
  /\ UNCHANGED <<monitor, live, site_check, env, edits, crashes, hist>>

\* The finally block: every way out frees the slot.
Release(m) == run' = [run EXCEPT ![m] = Idle]

IsDue(row, target) == row = None \/ row.target # target \/ row.due

FindRow(m) ==
  /\ run[m].step = "find"
  /\ IF IsDue(site_check[m], run[m].target)
     THEN run' = [run EXCEPT ![m].step = "collect", ![m].row = site_check[m]]
     ELSE Release(m)
  /\ UNCHANGED <<monitor, live, site_check, env, edits, crashes, hist>>

\* Every lookup has a timeout and its failure is a status.
Collect(m) ==
  /\ run[m].step = "collect"
  /\ run' = [run EXCEPT ![m].step = "reread", ![m].snapshot = site]
  /\ UNCHANGED <<monitor, live, site_check, env, edits, crashes, hist>>

\* mutant: an early return outside the try block keeps the slot.
Reread_KeepsTheSlot(m) ==
  /\ run[m].step = "reread"
  /\ monitor[m].active /\ monitor[m].target = run[m].target
  /\ run' = [run EXCEPT ![m].step = "prepare"]
  /\ UNCHANGED <<monitor, live, site_check, env, edits, crashes, hist>>

\* Paused, deleted or edited while it was collected?
Reread(m) ==
  /\ run[m].step = "reread"
  /\ IF monitor[m].active /\ monitor[m].target = run[m].target
     THEN run' = [run EXCEPT ![m].step = "prepare"]
     ELSE Release(m)
  /\ UNCHANGED <<monitor, live, site_check, env, edits, crashes, hist>>

\* mutant: what was counted for another target is carried on.
Previous_AnyTarget(row, target) == IF row # None THEN row.state ELSE Fresh

Previous(row, target) == IF row # None /\ row.target = target THEN row.state ELSE Fresh

\* notifyTransitions: the count of consecutive failures of one type.  (It is compared with
\* config.retries only, so that it is kept up to that.)
Failures(old, status) ==
  IF status # "down" THEN 0 ELSE IF old < Retries THEN old + 1 ELSE old

\* ... the types about which there is something to tell,
Telling(status, failures) == status = "up" \/ (status = "down" /\ failures >= Retries)

\* mutant: a recovery is told to who never heard of a failure.
Untold_Always(last, status) == last # status

\* ... and the destinations that have not been told, a recovery only after a failure.
Untold(last, status) == last # status /\ (last # None \/ status = "down")

\* mutant: a success starts the state afresh.
Counted_Afresh(previous, snapshot) ==
  [t \in Types |-> IF snapshot[t] = "up" THEN Fresh[t]
                   ELSE [previous[t] EXCEPT !.failures = Failures(@, snapshot[t])]]

Counted(previous, snapshot) ==
  [t \in Types |-> [previous[t] EXCEPT !.failures = Failures(@, snapshot[t])]]

Due(state, snapshot, destinations) ==
  {p \in Types \X destinations :
     /\ Telling(snapshot[p[1]], state[p[1]].failures)
     /\ Untold(state[p[1]].delivered[p[2]], snapshot[p[1]])}

\* mutant: the destinations are told under maintenance too.
Prepare_TellsAnyway(m) ==
  LET previous == Previous(run[m].row, run[m].target)
      state    == Counted(previous, run[m].snapshot)
  IN /\ run[m].step = "prepare"
     /\ run' = [run EXCEPT ![m].step = "deliver",
          ![m].state = IF maintained THEN previous ELSE state,
          ![m].snapshot = IF maintained THEN None ELSE @,
          ![m].pending = Due(state, run[m].snapshot, subscribed)]
     /\ UNCHANGED <<monitor, live, site_check, env, edits, crashes, hist>>

\* Under maintenance the state is kept as it was and nobody is told.
Prepare(m) ==
  LET previous == Previous(run[m].row, run[m].target)
      state    == Counted(previous, run[m].snapshot)
  IN /\ run[m].step = "prepare"
     /\ run' = [run EXCEPT ![m].step = "deliver",
          ![m].state = IF maintained THEN previous ELSE state,
          ![m].snapshot = IF maintained THEN None ELSE @,
          ![m].pending = IF maintained THEN {} ELSE Due(state, run[m].snapshot, subscribed)]
     /\ UNCHANGED <<monitor, live, site_check, env, edits, crashes, hist>>

Hears(m, t, d) ==
  /\ heard' = [heard EXCEPT ![m][run[m].target] =
                 IF run[m].snapshot[t] = "down" THEN @ \cup {<<t, d>>} ELSE @ \ {<<t, d>>}]
  /\ unsaved' = [unsaved EXCEPT ![m][run[m].target] = @ \cup {<<t, d>>}]
  /\ UNCHANGED streak

\* A delivery that succeeds is entered into the state that is to be stored.
SendOk(m, t, d) ==
  /\ run[m].step = "deliver" /\ <<t, d>> \in run[m].pending
  /\ run' = [run EXCEPT ![m].pending = @ \ {<<t, d>>},
                        ![m].state[t].delivered[d] = run[m].snapshot[t]]
  /\ Hears(m, t, d)
  /\ UNCHANGED <<monitor, live, site_check, env, edits, crashes>>

\* mutant: the state advances before the delivery is known to have succeeded.
SendError_Advances(m, t, d) ==
  /\ run[m].step = "deliver" /\ <<t, d>> \in run[m].pending
  /\ run' = [run EXCEPT ![m].pending = @ \ {<<t, d>>},
                        ![m].state[t].delivered[d] = run[m].snapshot[t]]
  /\ (LostAnswers /\ Hears(m, t, d)) \/ UNCHANGED hist
  /\ UNCHANGED <<monitor, live, site_check, env, edits, crashes>>

\* One that throws is not, whether the message arrived or not.
SendError(m, t, d) ==
  /\ run[m].step = "deliver" /\ <<t, d>> \in run[m].pending
  /\ run' = [run EXCEPT ![m].pending = @ \ {<<t, d>>}]
  /\ (LostAnswers /\ Hears(m, t, d)) \/ UNCHANGED hist
  /\ UNCHANGED <<monitor, live, site_check, env, edits, crashes>>

\* Told in this run, with an answer: the row will say so.
Known(m) == {p \in Pairs :
  run[m].state[p[1]].delivered[p[2]] = "down" <=> p \in heard[m][run[m].target]}

\* What the failures in a row come to with this run.
Drawn(m, x) == [t \in Types |-> IF run[m].snapshot = None THEN streak[m][x][t]
                               ELSE Failures(streak[m][x][t], run[m].snapshot[t])]

\* The row refers to the monitor: there is none for a deleted one.  With it the baselines
\* of other targets are gone.
StoreRow(m) ==
  /\ run[m].step = "deliver" /\ run[m].pending = {}
  /\ site_check' = IF monitor[m].target = None THEN site_check
                   ELSE [site_check EXCEPT ![m] =
                           [target |-> run[m].target, state |-> run[m].state, due |-> FALSE]]
  /\ LET x == run[m].target IN
       /\ heard' = [heard EXCEPT ![m] = Only(x, heard[m][x], {})]
       /\ unsaved' = [unsaved EXCEPT ![m] = Only(x, unsaved[m][x] \ Known(m), {})]
       /\ streak' = [streak EXCEPT ![m] = Only(x, Drawn(m, x), [t \in Types |-> 0])]
  /\ Release(m)
  /\ UNCHANGED <<monitor, live, env, edits, crashes>>

-----------------------------------------------------------------------------
(* What happens around it *)

\* The interval of a stored row passes.
Elapse(m) ==
  /\ site_check[m] # None /\ ~site_check[m].due
  /\ site_check' = [site_check EXCEPT ![m].due = TRUE]
  /\ UNCHANGED <<monitor, live, run, env, edits, crashes, hist>>

\* editMonitor, pauseMonitor, resumeMonitor and deleteMonitor store first ...
Edit(m, row) ==
  /\ edits < MaxEdits /\ edits' = edits + 1
  /\ monitor[m].target # None
  /\ monitor' = [monitor EXCEPT ![m] = row]
  /\ site_check' = IF row.target = None THEN [site_check EXCEPT ![m] = None] ELSE site_check
  /\ UNCHANGED <<live, run, env, crashes, hist>>

\* ... and start or stop the instance then.
Restart(m) ==
  /\ live' = [live EXCEPT ![m] = IF monitor[m].active THEN monitor[m].target ELSE None]
  /\ UNCHANGED <<monitor, site_check, run, env, edits, crashes, hist>>

\* The process dies; it starts every active monitor again.
Crash ==
  /\ crashes < MaxCrashes /\ crashes' = crashes + 1
  /\ run' = [m \in Monitors |-> Idle]
  /\ live' = [m \in Monitors |-> IF monitor[m].active THEN monitor[m].target ELSE None]
  /\ UNCHANGED <<monitor, site_check, env, edits, hist>>

Subscribe ==
  /\ edits < MaxEdits /\ edits' = edits + 1
  /\ subscribed' \in SUBSET Destinations
  /\ UNCHANGED <<monitor, live, site_check, run, site, maintained, crashes, hist>>

Environment ==
  /\ \/ site' \in [Types -> Statuses] /\ UNCHANGED maintained
     \/ maintained' = ~maintained /\ UNCHANGED site
  /\ UNCHANGED <<monitor, live, site_check, run, subscribed, edits, crashes, hist>>

Rows == [target : Targets \cup {Disabled}, active : BOOLEAN]
        \cup {[target |-> None, active |-> FALSE]}

Send(m) == \E t \in Types, d \in Destinations : SendOk(m, t, d) \/ SendError(m, t, d)

Work(m) == FindRow(m) \/ Collect(m) \/ Reread(m) \/ Prepare(m) \/ Send(m) \/ StoreRow(m)

Next ==
  \/ \E m \in Monitors : Begin(m) \/ Work(m) \/ Elapse(m) \/ Restart(m)
  \/ \E m \in Monitors, row \in Rows : Edit(m, row)
  \/ Subscribe
  \/ Crash
  \/ Environment

\* A run goes on, heartbeats come again and again, time passes.  With several monitors a
\* heartbeat may find all slots taken, every time: Begin is not assumed to be fair to one.
Fairness == \A m \in Monitors :
  WF_vars(Begin(m) \/ Work(m)) /\ WF_vars(Elapse(m)) /\ WF_vars(Restart(m))

Spec == Init /\ [][Next]_vars /\ Fairness

-----------------------------------------------------------------------------
(* Properties *)

\* What m's run has told d about t, and what d was told before.
Attempt(m, t, d) ==
  /\ run[m].step = "deliver" /\ run'[m].step = "deliver"
  /\ <<t, d>> \in run[m].pending \ run'[m].pending
Delivered(m, t, d) == Attempt(m, t, d) /\ <<t, d>> \in unsaved'[m][run[m].target]
HeardDown(m, t, d) == <<t, d>> \in heard[m][run[m].target]

\* A destination is told a failure it has not heard of and the recovery from one it has heard
\* of; it hears a thing twice only when no stored row knew of the first time.
AlertsAlternate == [][\A m \in Monitors, t \in Types, d \in Destinations :
  Delivered(m, t, d) /\ <<t, d>> \notin unsaved[m][run[m].target] =>
    IF run[m].snapshot[t] = "down" THEN ~HeardDown(m, t, d) ELSE HeardDown(m, t, d)]_vars

\* A failure is told only when the type has failed Retries times in a row, the last time
\* now and the others in the runs stored before, whatever restarts, maintenances and changes
\* of the configuration came between.
ThresholdKept == [][\A m \in Monitors, t \in Types, d \in Destinations :
  Delivered(m, t, d) /\ run[m].snapshot[t] = "down"
    => Failures(streak[m][run[m].target][t], "down") = Retries]_vars

\* "Delivery state is saved per notification destination to avoid repeats across checks or
\* restarts" (docs/site-checks.md): what was delivered with an answer is not sent again.
Succeeds(m, t, d) == Attempt(m, t, d) /\ run'[m].state[t].delivered[d] = run[m].snapshot[t]

\* Every run ends and frees its slot.
SlotsAreFreed == \A m \in Monitors : run[m].step # "idle" ~> run[m].step = "idle"

\* From some point on the monitor, its site and its destination stay as they are.
Steady(m, t, d, target, status) ==
  /\ <>[](/\ site[t] = status /\ d \in subscribed /\ ~maintained
          /\ monitor[m] = [target |-> target, active |-> TRUE])
  /\ <>[][Attempt(m, t, d) => Succeeds(m, t, d)]_vars

Lost(m, t, d, x)     == <<t, d>> \in unsaved[m][x]
SaidDown(m, t, d, x) == <<t, d>> \in heard[m][x]

\* A lasting failure is told to every destination that accepts it, those that failed before
\* included, unless the last thing it was told never came to be recorded.
FailureIsTold == \A m \in Monitors, t \in Types, w \in Watched :
  Steady(m, t, w[1], w[2], "down") => <>[](SaidDown(m, t, w[1], w[2]) \/ Lost(m, t, w[1], w[2]))

\* Who was told of a failure, and is recorded to have been, is told of the recovery.
RecoveryIsTold == \A m \in Monitors, t \in Types, w \in Watched :
  Steady(m, t, w[1], w[2], "up") => <>[](~SaidDown(m, t, w[1], w[2]) \/ Lost(m, t, w[1], w[2]))

\* "Selected checks send a failure alert after the configured threshold and one recovery alert
\* when healthy again" (docs/site-checks.md).
AlertsAsDocumented == \A m \in Monitors, t \in Types, w \in Watched :
  Steady(m, t, w[1], w[2], "down") => <>[]SaidDown(m, t, w[1], w[2])

=============================================================================
