--------------------------- MODULE MaintenanceWindow ---------------------------
(***************************************************************************)
(* One maintenance (server/model/maintenance.js) and its socket handlers:    *)
(* the row, the bean in server.maintenanceList, the cron job that starts a    *)
(* window and the timer that ends it.                                         *)
(*                                                                           *)
(* Time is counted in slots.  A window starts and ends with a slot, and        *)
(* everything else happens inside one: a handler is done and an event is       *)
(* handled before the slot is over.  A pattern may fire in any slots and a     *)
(* window have any length: windows of one maintenance may overlap.             *)
(***************************************************************************)
EXTENDS Integers

CONSTANTS
  Handlers,     \* socket events that may be in progress at the same time
  Configs,      \* what a maintenance may be set to
  DayLen,       \* slots in a day, which interval_day counts
  IntervalDay,  \* interval_day of the strategy "recurring-interval"
  MaxClock, MaxOps, MaxCrashes,   \* bounds
  None

\* from and until are start_date and end_date, fires the slots in which the cron pattern
\* fires (none without one) and dur the duration.
Strategies == {"manual", "single", "cron", "recurring-interval"}
Patterns   == SUBSET Nat
Dates      == Nat \cup {None}

\* validateCron(): what a user may send with a pattern that is none.  (Those of the other
\* strategies are generated.)
Refused == {[c EXCEPT !.fires = None] : c \in {d \in Configs : d.strategy = "cron"}}

Beans == [config : Configs \cup Refused, active : BOOLEAN, lastStart : Dates]
Crons == [fires : Patterns, strategy : Strategies, current : Nat, due : BOOLEAN]

\* What an instance has to satisfy; None is no value of another kind.
WindowAssumption ==
  /\ DayLen \in Nat \ {0} /\ IntervalDay \in Nat \ {0}
  /\ MaxClock \in Nat /\ MaxOps \in Nat /\ MaxCrashes \in Nat
  /\ Configs \subseteq [strategy : Strategies, fires : Patterns, dur : Nat,
                        from : Dates, until : Dates]
  /\ None \notin Int \cup {"scheduled", "under-maintenance"} /\ None \notin Beans /\ None \notin Crons
  /\ \A c \in Configs : c.fires # None

VARIABLES
  clock,
  row,      \* the maintenance table: None or a copy of the bean
  listed,   \* the bean is in server.maintenanceList
  bean,     \* the bean: config, active, lastStart (last_start_date)
  status,   \* beanMeta.status
  job,      \* beanMeta.job
  strays,   \* cron jobs that run although beanMeta.job no longer names them
  timer,    \* slot at which beanMeta.durationTimeout ends the window
  task,     \* [Tasks -> what a handler, or the boot, waits for]
  ops, crashes,
  began     \* history: the slot in which a window was last started

volatile == <<listed, bean, status, job, strays, timer>>
vars == <<clock, row, volatile, task, ops, crashes, began>>

Tasks == Handlers \cup {"boot"}
Idle  == [step |-> "idle"]
Steps == {Idle} \cup [step : {"insert", "run", "stop", "delete"}]
         \cup [step : {"zone"}, fires : {None} \cup Patterns, strategy : Strategies, current : Nat]
Recurs(c) == c.strategy \in {"cron", "recurring-interval"}

Init ==
  /\ clock = 0 /\ row = None /\ listed = FALSE /\ bean = None
  /\ status = None /\ job = None /\ strays = {} /\ timer = None
  /\ task = [t \in Tasks |-> Idle]
  /\ ops = 0 /\ crashes = 0 /\ began = None

Await(t, what) == task' = [task EXCEPT ![t] = what]
-------------------------------------------------------------------------------
\* The window that starts in slot f is not over.
Covers(f, dur) == f <= clock /\ clock < f + dur

\* getRunningTimeslot(): the start of the window that is running, of several the first, as
\* nextRun() looks for the first firing after the time that lies one duration back.
RunningTimeslot(fires, dur) ==
  {f \in fires : Covers(f, dur) /\ \A g \in fires : g < f => g + dur <= clock}

\* inferDuration(): the slot at which a window started by the cron job ends.
EndOfWindow(c) ==
  IF c.until # None /\ c.until - clock < c.dur
  THEN IF c.until < clock THEN clock ELSE c.until
  ELSE clock + c.dur

\* mutant: the end of the window is stored as the last start.
StartEvent_StoresEnd(b, current, end) ==
  /\ status' = "under-maintenance"
  /\ timer' = end
  /\ bean' = [b EXCEPT !.lastStart = end]
  /\ row' = IF row = None THEN None ELSE [b EXCEPT !.lastStart = end]
  /\ began' = clock

\* startEvent(): the window begins; current is the time at which run() was called.
StartEvent(b, current, end) ==
  /\ status' = "under-maintenance"
  /\ timer' = end
  /\ bean' = [b EXCEPT !.lastStart = current]
  /\ row' = IF row = None THEN None ELSE [b EXCEPT !.lastStart = current]
  /\ began' = clock

\* mutant: the job that is known is not stopped.
RunBegins_KeepsJob(t, b) ==
  /\ UNCHANGED job
  /\ IF Recurs(b.config)
     THEN /\ status' = "scheduled"
          /\ Await(t, [step |-> "zone", fires |-> b.config.fires,
                       strategy |-> b.config.strategy, current |-> clock])
     ELSE Await(t, Idle) /\ UNCHANGED status

\* run(), up to getTimezone(): the job that is known is stopped.  A manual maintenance
\* needs none, and that of a single one only sends lists.
RunBegins(t, b) ==
  /\ job' = None
  /\ IF Recurs(b.config)
     THEN /\ status' = "scheduled"
          /\ Await(t, [step |-> "zone", fires |-> b.config.fires,
                       strategy |-> b.config.strategy, current |-> clock])
     ELSE Await(t, Idle) /\ UNCHANGED status

\* mutant: a window that has begun is not taken up again.
ZoneKnown_NextOnly(t) ==
  LET w == task[t] IN
  /\ w.step = "zone" /\ w.fires # None
  /\ job' = [fires |-> w.fires, strategy |-> w.strategy, current |-> w.current, due |-> FALSE]
  /\ strays' = IF job = None THEN strays ELSE strays \cup {job}
  /\ UNCHANGED <<row, bean, status, timer, began>>
  /\ Await(t, Idle)
  /\ UNCHANGED <<clock, listed, ops, crashes>>

\* run(), after getTimezone(): a pattern that is none makes no job.
NoJob(t) ==
  /\ task[t].step = "zone" /\ task[t].fires = None
  /\ Await(t, Idle)
  /\ UNCHANGED <<clock, row, volatile, ops, crashes, began>>

\* Otherwise the job is created, and a window that is running is taken up.
ZoneKnown(t) ==
  LET w == task[t] IN
  /\ w.step = "zone" /\ w.fires # None
  /\ job' = [fires |-> w.fires, strategy |-> w.strategy, current |-> w.current, due |-> FALSE]
  /\ strays' = IF job = None THEN strays ELSE strays \cup {job}
  /\ LET running == RunningTimeslot(w.fires, bean.config.dur) IN
     IF running = {} THEN UNCHANGED <<row, bean, status, timer, began>>
     ELSE \E f \in running : StartEvent(bean, w.current, f + bean.config.dur)
  /\ Await(t, Idle)
  /\ UNCHANGED <<clock, listed, ops, crashes>>

-------------------------------------------------------------------------------
(* Socket handlers.  Each changes the bean first and then waits for the table. *)

Begin(h) == task[h] = Idle /\ task["boot"] = Idle /\ ops < MaxOps /\ ops' = ops + 1

Add(h, c, a) ==
  /\ Begin(h) /\ bean = None
  /\ bean' = [config |-> c, active |-> a, lastStart |-> None]
  /\ Await(h, [step |-> "insert"])
  /\ UNCHANGED <<clock, row, listed, status, job, strays, timer, crashes, began>>

Inserted(h) ==
  /\ task[h].step = "insert"
  /\ row' = bean
  /\ listed' = TRUE
  /\ RunBegins(h, bean)
  /\ UNCHANGED <<clock, bean, strays, timer, ops, crashes, began>>

Change(h, b, next) ==
  /\ Begin(h) /\ listed
  /\ bean' = b
  /\ Await(h, [step |-> next])
  /\ UNCHANGED <<clock, row, listed, status, job, strays, timer, crashes, began>>

\* What the client sends includes whether the maintenance is active.
Edit(h, c, a) == Change(h, [bean EXCEPT !.config = c, !.active = a], "run")
\* jsonToBean() throws at a pattern that is none, with all it was given in the bean.
EditRefused(h, c, a) ==
  /\ Begin(h) /\ listed
  /\ bean' = [bean EXCEPT !.config = c, !.active = a]
  /\ UNCHANGED <<clock, row, listed, status, job, strays, timer, task, crashes, began>>

Pause(h)      == Change(h, [bean EXCEPT !.active = FALSE], "stop")
Resume(h)     == Change(h, [bean EXCEPT !.active = TRUE], "run")

\* mutant: only changes that start the maintenance are stored.
Stored_PauseUnsaved(h) ==
  /\ task[h].step \in {"run", "stop"}
  /\ row' = IF row = None \/ task[h].step = "stop" THEN row ELSE bean
  /\ IF task[h].step = "run" THEN RunBegins(h, bean)
     ELSE job' = None /\ Await(h, Idle) /\ UNCHANGED status
  /\ UNCHANGED <<clock, listed, bean, strays, timer, ops, crashes, began>>

\* R.store(bean) is done: editMaintenance and resumeMaintenance run the maintenance,
\* pauseMaintenance stops it.
Stored(h) ==
  /\ task[h].step \in {"run", "stop"}
  /\ row' = IF row = None THEN None ELSE bean
  /\ IF task[h].step = "run" THEN RunBegins(h, bean)
     ELSE job' = None /\ Await(h, Idle) /\ UNCHANGED status
  /\ UNCHANGED <<clock, listed, bean, strays, timer, ops, crashes, began>>

Delete(h) ==
  /\ Begin(h) /\ listed
  /\ listed' = FALSE
  /\ job' = None
  /\ Await(h, [step |-> "delete"])
  /\ UNCHANGED <<clock, row, bean, status, strays, timer, crashes, began>>

Deleted(h) ==
  /\ task[h].step = "delete"
  /\ row' = None
  /\ Await(h, Idle)
  /\ UNCHANGED <<clock, volatile, ops, crashes, began>>

-------------------------------------------------------------------------------
\* The callback of a cron job.  For an interval longer than a day it compares the last
\* start with the time of run().
IntervalPassed(j) ==
  \/ j.strategy # "recurring-interval" \/ bean.lastStart = None \/ IntervalDay = 1
  \/ (j.current - bean.lastStart) \div DayLen >= IntervalDay

CronFires(j) ==
  /\ j.due
  /\ IF j = job THEN job' = [j EXCEPT !.due = FALSE] /\ UNCHANGED strays
     ELSE strays' = (strays \ {j}) \cup {[j EXCEPT !.due = FALSE]} /\ UNCHANGED job
  /\ IF IntervalPassed(j)
     THEN StartEvent(bean, j.current, EndOfWindow(bean.config))
     ELSE UNCHANGED <<row, bean, status, timer, began>>
  /\ UNCHANGED <<clock, listed, task, ops, crashes>>

\* The timer of startEvent(): the window is over.
TimerFires ==
  /\ timer # None /\ timer <= clock
  /\ timer' = None
  /\ status' = "scheduled"
  /\ UNCHANGED <<clock, row, listed, bean, job, strays, task, ops, crashes, began>>

Jobs  == strays \cup (IF job = None THEN {} ELSE {job})
Quiet == /\ \A t \in Tasks : task[t] = Idle
         /\ \A j \in Jobs : ~j.due
         /\ timer # None => timer > clock

\* The next slot begins, with the cron jobs and the timer that fall due.
Tick ==
  LET At(j) == [j EXCEPT !.due = (clock + 1) \in j.fires] IN
  /\ clock < MaxClock /\ Quiet
  /\ clock' = clock + 1
  /\ job' = IF job = None THEN None ELSE At(job)
  /\ strays' = {At(j) : j \in strays}
  /\ UNCHANGED <<row, listed, bean, status, timer, task, ops, crashes, began>>

\* The process is killed; loadMaintenanceList() reads the table and runs what it finds.
Crash ==
  /\ crashes < MaxCrashes /\ crashes' = crashes + 1
  /\ strays' = {} /\ timer' = None
  /\ IF row = None
     THEN /\ listed' = FALSE /\ status' = None /\ job' = None
          /\ task' = [t \in Tasks |-> Idle]
          /\ UNCHANGED bean
     ELSE /\ listed' = TRUE
          /\ bean' = row
          /\ job' = None
          /\ status' = IF Recurs(row.config) THEN "scheduled" ELSE None
          /\ task' = [t \in Tasks |->
               IF t = "boot" /\ Recurs(row.config)
               THEN [step |-> "zone", fires |-> row.config.fires,
                     strategy |-> row.config.strategy, current |-> clock]
               ELSE Idle]
  /\ UNCHANGED <<clock, row, ops, began>>

Next ==
  \/ \E h \in Handlers :
       \/ \E c \in Configs, a \in BOOLEAN : Add(h, c, a) \/ Edit(h, c, a)
       \/ \E c \in Refused, a \in BOOLEAN : EditRefused(h, c, a)
       \/ Inserted(h) \/ Stored(h) \/ Pause(h) \/ Resume(h) \/ Delete(h) \/ Deleted(h)
  \/ \E t \in Tasks : ZoneKnown(t) \/ NoJob(t)
  \/ \E j \in Jobs : CronFires(j)
  \/ TimerFires \/ Tick \/ Crash

Spec == Init /\ [][Next]_vars
-------------------------------------------------------------------------------
\* getStatus()
getStatus ==
  LET c == bean.config IN
  IF ~bean.active THEN "inactive"
  ELSE IF c.strategy = "manual" THEN "under-maintenance"
  ELSE IF c.from # None /\ clock < c.from THEN "scheduled"
  ELSE IF c.until # None /\ clock >= c.until THEN "ended"
  ELSE IF c.strategy = "single" THEN "under-maintenance"
  ELSE IF status = None THEN "unknown" ELSE status

(* Properties *)

TypeOK ==
  /\ clock \in 0..MaxClock /\ ops \in 0..MaxOps /\ crashes \in 0..MaxCrashes
  /\ began \in {None} \cup 0..clock
  /\ listed \in BOOLEAN
  /\ {row, bean} \subseteq Beans \cup {None}
  /\ \A b \in {row, bean} \ {None} : b.lastStart \in {None} \cup 0..clock
  /\ listed => bean # None
  /\ status \in {None, "scheduled", "under-maintenance"}
  /\ job \in Crons \cup {None} /\ strays \subseteq Crons
  /\ \A j \in Jobs : j.current <= clock
  /\ timer # None => timer \in Nat /\ timer >= clock
  /\ task \in [Tasks -> Steps]
  /\ \A t \in Tasks : task[t].step = "zone" => task[t].current <= clock
  /\ \A t \in Tasks : task[t].step \in {"insert", "run", "stop", "zone"} => bean # None
  /\ Jobs # {} => bean # None

\* The code loses a window that begins before an earlier one of the same maintenance is over,
\* when both had begun when run() was called (an edit, a resumption, a restart): run() takes up
\* the first alone.
Forgotten(c, f) ==
  /\ job # None /\ f <= job.current
  /\ \E g \in c.fires : g < f /\ job.current < g + c.dur

\* A maintenance is in effect during its windows and at no other time, whatever edits, refused
\* ones among them, pauses and restarts of the process fall before or into a window, windows
\* that overlap apart, if run() came in their midst.  (An interval of days: IntervalRestarts.)
InEffect ==
  Quiet /\ listed /\ bean.config \notin Refused
    /\ (bean.config.strategy = "recurring-interval" => IntervalDay = 1) =>
    LET c == bean.config IN
    getStatus = "under-maintenance" <=>
      /\ bean.active
      /\ \/ c.strategy = "manual"
         \/ /\ c.from # None => clock >= c.from
            /\ c.until # None => clock < c.until
            /\ \/ c.strategy = "single"
               \/ \E f \in c.fires : Covers(f, c.dur) /\ ~Forgotten(c, f)

\* With nothing in progress the table holds what the bean holds: a restart shows the
\* same maintenance.  Only an edit that was refused may be in the one and not in the other,
\* until the next window or the next change stores it as well.
RowMatchesBean ==
  Quiet => IF listed THEN bean.config \in Refused \/ row = bean ELSE row = None

\* "Check if the interval is enough": when interval_day days have passed since a window
\* was last started, the next one is started.
IntervalRestarts ==
  Quiet /\ listed /\ bean.active /\ bean.config.strategy = "recurring-interval"
    /\ began # None
    /\ (\E f \in bean.config.fires :
          Covers(f, bean.config.dur) /\ (f - began) \div DayLen >= IntervalDay)
    => status = "under-maintenance"

\* "Maintenance is already running, stop it first" (run): no second job is left running, as long
\* as one request at a time changes the maintenance.
NoStrayJob == strays = {}

\* A maintenance is in effect in its windows, the table holds what memory holds, and nothing runs
\* that a later pause or edit would not stop.
MaintenanceIsSound == InEffect /\ RowMatchesBean /\ NoStrayJob
===============================================================================
