------------------------ MODULE MaintenanceWindowProofs ------------------------
(* What holds of every maintenance, for any patterns, durations and dates and any   *)
(* bounds: types, one job at a time, table and memory agree, and a maintenance is   *)
(* in effect during its windows and at no other time.                              *)
EXTENDS MaintenanceWindow, TLAPS

-------------------------------------------------------------------------------
(* Types.                                                                      *)

LEMMA Kinds ==
  ASSUME WindowAssumption
  PROVE  /\ Configs \cap Refused = {}
         /\ \A c \in Configs \cup Refused :
              /\ c.strategy \in Strategies /\ c.dur \in Nat
              /\ c.from \in Dates /\ c.until \in Dates
              /\ c.fires \in {None} \cup Patterns
              /\ c \in Configs => c.fires \in Patterns /\ c.fires # None
              /\ c \in Refused => c.fires = None
         /\ None \notin Nat
BY DEF WindowAssumption, Refused, Dates

\* What is left of a task's step.
LEMMA StepTypes ==
  ASSUME NEW s \in Steps
  PROVE  /\ s.step \in {"idle", "insert", "run", "stop", "delete", "zone"}
         /\ s = Idle <=> s.step = "idle"
         /\ s.step = "zone" => /\ s.fires \in {None} \cup Patterns /\ s.strategy \in Strategies
                               /\ s.current \in Nat
BY DEF Steps, Idle

\* A window that the cron job starts ends after its duration, or at the end date.
LEMMA EndsInTime ==
  ASSUME WindowAssumption, clock \in Nat, NEW c \in Configs \cup Refused
  PROVE  /\ EndOfWindow(c) \in Nat /\ EndOfWindow(c) >= clock
         /\ EndOfWindow(c) <= clock + c.dur
         /\ EndOfWindow(c) = clock + c.dur \/ (c.until # None /\ EndOfWindow(c) >= c.until)
<1>1. c.dur \in Nat /\ c.until \in Nat \cup {None}
  BY Kinds DEF Dates
<1>2. QED
  BY <1>1 DEF EndOfWindow

\* startEvent() changes the last start of the bean and stores it.
LEMMA StartTypes ==
  ASSUME WindowAssumption, TypeOK, bean # None, NEW current \in 0..clock,
         NEW end \in Nat, end >= clock, StartEvent(bean, current, end)
  PROVE  /\ bean' \in Beans /\ bean' # None /\ bean'.lastStart \in 0..clock
         /\ bean'.config = bean.config /\ bean'.active = bean.active
         /\ row' = IF row = None THEN None ELSE bean'
         /\ status' = "under-maintenance" /\ timer' = end /\ began' = clock
<1>1. bean \in Beans /\ clock \in Nat
  BY DEF TypeOK, WindowAssumption
<1>2. bean' = [bean EXCEPT !.lastStart = current] /\ current \in Dates
  BY <1>1 DEF StartEvent, Dates
<1>3. bean' \in Beans
  BY <1>1, <1>2 DEF Beans
<1>4. /\ bean'.lastStart = current /\ bean'.config = bean.config /\ bean'.active = bean.active
  BY <1>1, <1>2 DEF Beans
<1>5. QED
  BY <1>2, <1>3, <1>4 DEF StartEvent, WindowAssumption

\* run() up to its first await.
LEMMA RunTypes ==
  ASSUME WindowAssumption, TypeOK, NEW t \in Tasks, bean # None, RunBegins(t, bean)
  PROVE  /\ job' = None
         /\ task' \in [Tasks -> Steps]
         /\ \A s \in Tasks : s # t => task'[s] = task[s]
         /\ IF Recurs(bean.config)
            THEN /\ status' = "scheduled" /\ task'[t].step = "zone"
                 /\ task'[t].fires = bean.config.fires /\ task'[t].current = clock
                 /\ task'[t].strategy = bean.config.strategy
            ELSE status' = status /\ task'[t] = Idle
<1>1. bean \in Beans /\ clock \in Nat
  BY DEF TypeOK, WindowAssumption
<1>2. bean.config.fires \in {None} \cup Patterns /\ bean.config.strategy \in Strategies
  BY <1>1, Kinds DEF Beans
<1> DEFINE z == [step |-> "zone", fires |-> bean.config.fires,
                 strategy |-> bean.config.strategy, current |-> clock]
<1>3. z \in Steps /\ Idle \in Steps
  BY <1>1, <1>2 DEF Steps
<1>4. z.step = "zone" /\ z.fires = bean.config.fires /\ z.current = clock
      /\ z.strategy = bean.config.strategy
  OBVIOUS
<1> HIDE DEF z
<1>5. /\ job' = None
      /\ IF Recurs(bean.config) THEN status' = "scheduled" /\ task' = [task EXCEPT ![t] = z]
         ELSE status' = status /\ task' = [task EXCEPT ![t] = Idle]
  BY DEF RunBegins, Await, z
<1>6. task \in [Tasks -> Steps]
  BY DEF TypeOK
<1>7. QED
  BY <1>3, <1>4, <1>5, <1>6

\* A job falls due, or does not.
LEMMA FallsDue ==
  ASSUME NEW j \in Crons, NEW d \in BOOLEAN
  PROVE  LET k == [j EXCEPT !.due = d] IN
         /\ k \in Crons /\ k.fires = j.fires /\ k.strategy = j.strategy
         /\ k.current = j.current /\ k.due = d
BY DEF Crons

LEMMA TypeInit == ASSUME WindowAssumption PROVE Init => TypeOK
<1> SUFFICES ASSUME Init PROVE TypeOK
  OBVIOUS
<1>1. Idle \in Steps /\ Idle.step = "idle"
  BY DEF Steps, Idle
<1>2. \A t \in Tasks : task[t] = Idle
  BY DEF Init
<1>3. task \in [Tasks -> Steps]
  BY <1>1 DEF Init
<1>4. /\ clock \in 0..MaxClock /\ ops \in 0..MaxOps /\ crashes \in 0..MaxCrashes
      /\ began = None /\ listed = FALSE /\ row = None /\ bean = None /\ status = None
      /\ job = None /\ strays = {} /\ timer = None
  BY DEF Init, WindowAssumption
<1>5. QED
  BY <1>1, <1>2, <1>3, <1>4 DEF TypeOK, Jobs

\* Without a change of memory and with the clock where it is, nothing can go wrong.
LEMMA TypeStep == ASSUME WindowAssumption PROVE TypeOK /\ [Next]_vars => TypeOK'
<1> SUFFICES ASSUME TypeOK, [Next]_vars PROVE TypeOK'
  OBVIOUS
<1>0. /\ clock \in Nat /\ MaxClock \in Nat /\ MaxOps \in Nat /\ MaxCrashes \in Nat
      /\ Idle \in Steps /\ \A x \in {"insert", "run", "stop", "delete"} : [step |-> x] \in Steps
      /\ task \in [Tasks -> Steps]
  BY DEF TypeOK, WindowAssumption, Steps
<1>1. ASSUME NEW h \in Handlers, NEW c \in Configs, NEW a \in BOOLEAN, Add(h, c, a) PROVE TypeOK'
  <2>1. bean' \in Beans /\ bean'.lastStart = None
    BY <1>1 DEF Add, Beans, Dates
  <2>2. h \in Tasks /\ task' = [task EXCEPT ![h] = [step |-> "insert"]]
    BY <1>1 DEF Add, Await, Tasks
  <2>3. ops' \in 0..MaxOps /\ UNCHANGED <<clock, row, listed, status, job, strays, timer, crashes, began>>
    BY <1>0, <1>1 DEF Add, Begin, TypeOK
  <2>4. QED
    BY <1>0, <2>1, <2>2, <2>3 DEF TypeOK, Jobs, WindowAssumption
<1>2. ASSUME NEW h \in Handlers, NEW b \in Beans, b.lastStart = bean.lastStart,
             NEW next \in {"run", "stop"}, Change(h, b, next)
      PROVE  TypeOK'
  <2>1. h \in Tasks /\ task' = [task EXCEPT ![h] = [step |-> next]]
    BY <1>2 DEF Change, Await, Tasks
  <2>2. ops' \in 0..MaxOps /\ bean' = b /\ listed
        /\ UNCHANGED <<clock, row, listed, status, job, strays, timer, crashes, began>>
    BY <1>0, <1>2 DEF Change, Begin, TypeOK
  <2>3. QED
    BY <1>0, <1>2, <2>1, <2>2 DEF TypeOK, Jobs, WindowAssumption
<1>3. ASSUME NEW h \in Handlers, NEW c \in Configs \cup Refused, NEW a \in BOOLEAN, listed
      PROVE  LET b == [bean EXCEPT !.config = c, !.active = a]
             IN b \in Beans /\ b.lastStart = bean.lastStart
  <2>1. bean \in Beans
    BY <1>3 DEF TypeOK
  <2>2. QED
    BY <2>1 DEF Beans
<1>4. ASSUME NEW h \in Handlers, NEW c \in Configs, NEW a \in BOOLEAN, Edit(h, c, a) PROVE TypeOK'
  BY <1>2, <1>3, <1>4 DEF Edit, Change
<1>5. ASSUME NEW h \in Handlers, Pause(h) \/ Resume(h) PROVE TypeOK'
  <2>1. bean \in Beans
    BY <1>5 DEF Pause, Resume, Change, TypeOK
  <2>2. \A a \in BOOLEAN : LET b == [bean EXCEPT !.active = a]
                           IN b \in Beans /\ b.lastStart = bean.lastStart
    BY <2>1 DEF Beans
  <2>3. QED
    BY <1>2, <1>5, <2>2 DEF Pause, Resume
<1>6. ASSUME NEW h \in Handlers, NEW c \in Refused, NEW a \in BOOLEAN, EditRefused(h, c, a) PROVE TypeOK'
  <2>1. bean' \in Beans /\ bean'.lastStart = bean.lastStart
    BY <1>3, <1>6 DEF EditRefused
  <2>2. ops' \in 0..MaxOps /\ listed
        /\ UNCHANGED <<clock, row, listed, status, job, strays, timer, task, crashes, began>>
    BY <1>0, <1>6 DEF EditRefused, Begin, TypeOK
  <2>3. QED
    BY <1>0, <2>1, <2>2 DEF TypeOK, Jobs, WindowAssumption
<1>7. ASSUME NEW h \in Handlers, Inserted(h) \/ (Stored(h) /\ task[h].step = "run") PROVE TypeOK'
  <2>1. h \in Tasks /\ bean # None /\ RunBegins(h, bean)
    BY <1>7 DEF Inserted, Stored, Tasks, TypeOK
  <2>2. /\ job' = None /\ task' \in [Tasks -> Steps]
        /\ \A s \in Tasks : s # h => task'[s] = task[s]
        /\ status' \in {None, "scheduled", "under-maintenance"}
        /\ task'[h].step \in {"zone", "idle"} /\ (task'[h].step = "zone" => task'[h].current = clock)
    BY <2>1, RunTypes DEF Idle, TypeOK
  <2>3. /\ UNCHANGED <<clock, bean, strays, timer, ops, crashes, began>>
        /\ listed' \in BOOLEAN /\ row' \in {row, bean, None}
    BY <1>7 DEF Inserted, Stored, TypeOK
  <2>4. bean \in Beans
    BY <2>1 DEF TypeOK
  <2>5. \A s \in Tasks : task'[s].step = "zone" => task'[s].current <= clock
    BY <1>0, <2>2 DEF TypeOK
  <2>6. \A s \in Tasks : task'[s].step \in {"insert", "run", "stop", "zone"} => bean' # None
    BY <2>1, <2>3
  <2>7. QED
    BY <1>0, <2>1, <2>2, <2>3, <2>4, <2>5, <2>6 DEF TypeOK, Jobs
<1>8. ASSUME NEW h \in Handlers, (Stored(h) /\ task[h].step = "stop") \/ Delete(h) \/ Deleted(h)
      PROVE  TypeOK'
  <2>1. h \in Tasks /\ task' \in [Tasks -> Steps]
        /\ \A s \in Tasks : \/ task'[s] = task[s]
                              \/ task'[s].step \in {"idle", "delete"}
    <3>1. h \in Tasks /\ [step |-> "delete"].step = "delete" /\ Idle.step = "idle"
      BY DEF Tasks, Idle
    <3>2. task' = [task EXCEPT ![h] = Idle] \/ task' = [task EXCEPT ![h] = [step |-> "delete"]]
      BY <1>8 DEF Stored, Delete, Deleted, Await
    <3>3. QED
      BY <1>0, <3>1, <3>2
  <2>2. UNCHANGED <<clock, bean, strays, timer, status, crashes, began>>
    BY <1>8 DEF Stored, Delete, Deleted, volatile
  <2>3. job' \in {None, job} /\ listed' \in BOOLEAN /\ (listed' => listed)
    <3>1. listed \in BOOLEAN
      BY DEF TypeOK
    <3>2. CASE Stored(h) /\ task[h].step = "stop"
      BY <3>1, <3>2 DEF Stored
    <3>3. CASE Delete(h)
      BY <3>1, <3>3 DEF Delete
    <3>4. CASE Deleted(h)
      BY <3>1, <3>4 DEF Deleted, volatile
    <3>5. QED
      BY <1>8, <3>2, <3>3, <3>4
  <2>4. ops' \in 0..MaxOps
    BY <1>0, <1>8 DEF Stored, Delete, Deleted, Begin, TypeOK
  <2>5. row' \in {None, bean, row}
    BY <1>8 DEF Stored, Delete, Deleted
  <2>6. \A s \in Tasks : /\ task'[s].step = "zone" => task'[s].current <= clock
                         /\ task'[s].step \in {"insert", "run", "stop", "zone"} => bean # None
    BY <2>1 DEF TypeOK
  <2>7. job' \in Crons \cup {None} /\ Jobs' \subseteq Jobs
    BY <2>2, <2>3 DEF TypeOK, Jobs
  <2>8. {row', bean'} \subseteq {row, bean, None}
    BY <2>2, <2>5
  <2>9. QED
    BY <2>1, <2>2, <2>3, <2>4, <2>6, <2>7, <2>8 DEF TypeOK
<1>9. ASSUME NEW t \in Tasks, NoJob(t) PROVE TypeOK'
  <2>1. UNCHANGED <<clock, row, volatile, ops, crashes, began>> /\ task' = [task EXCEPT ![t] = Idle]
    BY <1>9 DEF NoJob, Await
  <2>2. task' \in [Tasks -> Steps] /\ Idle.step = "idle"
        /\ \A s \in Tasks : task'[s] = task[s] \/ task'[s] = Idle
    BY <1>0, <2>1 DEF Idle
  <2>3. QED
    BY <2>1, <2>2 DEF TypeOK, Jobs, volatile
<1>10. ASSUME NEW t \in Tasks, ZoneKnown(t) PROVE TypeOK'
  <2> DEFINE w == task[t]
             j == [fires |-> w.fires, strategy |-> w.strategy, current |-> w.current, due |-> FALSE]
  <2>1. w.step = "zone" /\ w.fires \in Patterns /\ w.strategy \in Strategies /\ w.current \in 0..clock
    BY <1>0, <1>10, StepTypes DEF ZoneKnown, TypeOK
  <2>2. j \in Crons /\ j.current = w.current /\ j # None
    <3>1. j \in Crons /\ j.current = w.current
      BY <1>0, <2>1 DEF Crons
    <3> HIDE DEF j
    <3>2. QED
      BY <3>1 DEF WindowAssumption
  <2>3. job' = j /\ strays' = IF job = None THEN strays ELSE strays \cup {job}
    BY <1>10 DEF ZoneKnown
  <2>4. task' = [task EXCEPT ![t] = Idle] /\ UNCHANGED <<clock, listed, ops, crashes>>
    BY <1>10 DEF ZoneKnown, Await
  <2>5. task' \in [Tasks -> Steps] /\ Idle.step = "idle"
        /\ \A s \in Tasks : task'[s] = task[s] \/ task'[s] = Idle
    BY <1>0, <2>4 DEF Idle
  <2>6. bean # None /\ bean \in Beans
    BY <2>1 DEF TypeOK
  <2>7. /\ strays' \subseteq Crons /\ \A i \in Jobs' : i \in Jobs \/ i = j
        /\ \A i \in Jobs' : i.current <= clock
    <3>1. strays' \subseteq Crons
      BY <2>3 DEF TypeOK
    <3>2. \A i \in Jobs' : i \in Jobs \/ i = j
      BY <2>2, <2>3 DEF Jobs
    <3>3. j.current <= clock
      BY <1>0, <2>1, <2>2
    <3>4. QED
      BY <3>1, <3>2, <3>3 DEF TypeOK
  <2> HIDE DEF j, w
  <2>8. \A s \in Tasks : /\ task'[s].step = "zone" => task'[s].current <= clock
    BY <2>5 DEF TypeOK
  <2> DEFINE running == RunningTimeslot(w.fires, bean.config.dur)
  <2>9. CASE running # {}
    <3>1. PICK f \in running : StartEvent(bean, w.current, f + bean.config.dur)
      BY <1>10, <2>9 DEF ZoneKnown, w
    <3> DEFINE end == f + bean.config.dur
    <3>2. bean.config.dur \in Nat
      BY <2>6, Kinds DEF Beans
    <3>3. end \in Nat /\ end >= clock
      BY <1>0, <2>1, <3>2 DEF RunningTimeslot, Covers, Patterns
    <3>4. StartEvent(bean, w.current, end)
      BY <3>1
    <3> HIDE DEF end
    <3>5. /\ bean' \in Beans /\ bean' # None /\ bean'.lastStart \in 0..clock
          /\ row' = IF row = None THEN None ELSE bean'
          /\ status' = "under-maintenance" /\ timer' = end /\ began' = clock
      BY <2>1, <2>6, <3>3, <3>4, StartTypes
    <3>6. QED
      BY <1>0, <2>2, <2>3, <2>4, <2>5, <2>6, <2>7, <2>8, <3>3, <3>5 DEF TypeOK
  <2>10. CASE running = {}
    <3>1. UNCHANGED <<row, bean, status, timer, began>>
      BY <1>10, <2>10 DEF ZoneKnown, w
    <3>2. QED
      BY <1>0, <2>2, <2>3, <2>4, <2>5, <2>6, <2>7, <2>8, <3>1 DEF TypeOK
  <2>11. QED
    BY <2>9, <2>10
<1>11. ASSUME NEW j \in Jobs, CronFires(j) PROVE TypeOK'
  <2> DEFINE k == [j EXCEPT !.due = FALSE]
  <2>1. j \in Crons /\ j.current \in 0..clock /\ bean # None /\ bean \in Beans
    <3>1. j \in Crons /\ j.current <= clock /\ bean # None
      BY DEF TypeOK, Jobs
    <3>2. bean \in Beans
      BY <3>1 DEF TypeOK
    <3>3. QED
      BY <1>0, <3>1, <3>2 DEF Crons
  <2>2. k \in Crons /\ k.current = j.current
    BY <2>1 DEF Crons
  <2>3. /\ job' \in {job, k} /\ strays' \subseteq strays \cup {k}
    BY <1>11 DEF CronFires
  <2> HIDE DEF k
  <2>4. job' \in Crons \cup {None} /\ strays' \subseteq Crons
    BY <2>2, <2>3 DEF TypeOK
  <2>5. Jobs' \subseteq Jobs \cup {k}
    <3>1. \A i \in Jobs' : i \in strays' \/ (i = job' /\ job' # None)
      BY DEF Jobs
    <3>2. k \notin {None}
      BY <2>2 DEF WindowAssumption
    <3>3. QED
      BY <2>3, <3>1 DEF Jobs
  <2>6. \A i \in Jobs' : i.current <= clock
    BY <2>1, <2>2, <2>5 DEF TypeOK
  <2>7. UNCHANGED <<clock, listed, task, ops, crashes>>
    BY <1>11 DEF CronFires
  <2>8. CASE IntervalPassed(j)
    <3> DEFINE end == EndOfWindow(bean.config)
    <3>1. StartEvent(bean, j.current, end)
      BY <1>11, <2>8 DEF CronFires
    <3>2. end \in Nat /\ end >= clock
      BY <1>0, <2>1, EndsInTime DEF Beans
    <3> HIDE DEF end
    <3>3. /\ bean' \in Beans /\ bean' # None /\ bean'.lastStart \in 0..clock
          /\ row' = IF row = None THEN None ELSE bean'
          /\ status' = "under-maintenance" /\ timer' = end /\ began' = clock
      BY <2>1, <3>1, <3>2, StartTypes
    <3>4. QED
      BY <1>0, <2>4, <2>6, <2>7, <3>2, <3>3 DEF TypeOK
  <2>9. CASE ~IntervalPassed(j)
    <3>1. UNCHANGED <<row, bean, status, timer, began>>
      BY <1>11, <2>9 DEF CronFires
    <3>2. QED
      BY <1>0, <2>1, <2>4, <2>6, <2>7, <3>1 DEF TypeOK
  <2>10. QED
    BY <2>8, <2>9
<1>12. ASSUME TimerFires PROVE TypeOK'
  BY <1>12 DEF TimerFires, TypeOK, Jobs
<1>13. ASSUME Tick PROVE TypeOK'
  <2> DEFINE At(j) == [j EXCEPT !.due = (clock + 1) \in j.fires]
  <2>1. /\ clock' = clock + 1 /\ clock' \in 0..MaxClock /\ 0..clock \subseteq 0..clock'
        /\ timer # None => timer \in Nat /\ timer >= clock'
    BY <1>0, <1>13 DEF Tick, Quiet, TypeOK, WindowAssumption
  <2>2. UNCHANGED <<row, listed, bean, status, timer, task, ops, crashes, began>>
        /\ job' = (IF job = None THEN None ELSE At(job)) /\ strays' = {At(j) : j \in strays}
    BY <1>13 DEF Tick
  <2>3. ASSUME NEW j \in Crons PROVE At(j) \in Crons /\ At(j).current = j.current
    <3> DEFINE d == (clock + 1) \in j.fires
    <3>1. d \in BOOLEAN /\ At(j) = [j EXCEPT !.due = d]
      OBVIOUS
    <3> HIDE DEF d
    <3>2. QED
      BY <3>1, FallsDue
  <2>4. \A j \in Jobs : j \in Crons /\ j.current \in Int
    BY DEF Jobs, TypeOK, Crons
  <2> HIDE DEF At
  <2>5. job' \in Crons \cup {None} /\ strays' \subseteq Crons
    BY <2>2, <2>3 DEF TypeOK
  <2>6. \A i \in Jobs' : \E j \in Jobs : i = At(j)
    BY <2>2 DEF Jobs
  <2>7. (\A i \in Jobs' : i.current <= clock') /\ (Jobs' # {} => Jobs # {})
    BY <1>0, <2>1, <2>3, <2>4, <2>6 DEF TypeOK
  <2>8. began' \in {None} \cup 0..clock'
    BY <1>0, <2>1, <2>2 DEF TypeOK
  <2>9. \A b \in {row', bean'} \ {None} : b.lastStart \in {None} \cup 0..clock'
    BY <1>0, <2>1, <2>2 DEF TypeOK
  <2>10. \A t \in Tasks : task'[t].step = "zone" => task'[t].current <= clock'
    BY <1>13, <2>2 DEF Tick, Quiet, Idle
  <2>11. QED
    BY <2>1, <2>2, <2>5, <2>7, <2>8, <2>9, <2>10 DEF TypeOK
<1>14. ASSUME Crash PROVE TypeOK'
  <2> DEFINE z == [step |-> "zone", fires |-> row.config.fires,
                   strategy |-> row.config.strategy, current |-> clock]
  <2>1. Idle.step = "idle" /\ Idle \in Steps
    BY <1>0 DEF Idle
  <2>2. crashes' \in 0..MaxCrashes /\ UNCHANGED <<clock, row, ops, began>>
        /\ strays' = {} /\ job' = None /\ timer' = None /\ Jobs' = {}
    BY <1>0, <1>14 DEF Crash, TypeOK, Jobs
  <2>3. CASE row = None
    <3>1. listed' = FALSE /\ status' = None /\ bean' = bean /\ task' = [t \in Tasks |-> Idle]
      BY <1>14, <2>3 DEF Crash
    <3>2. task' \in [Tasks -> Steps] /\ \A t \in Tasks : task'[t].step = "idle"
      BY <2>1, <3>1
    <3>3. QED
      BY <2>2, <3>1, <3>2 DEF TypeOK
  <2>4. CASE row # None
    <3>1. row \in Beans
      BY <2>4 DEF TypeOK
    <3>2. z \in Steps /\ z.current = clock
      <4>1. row.config.fires \in {None} \cup Patterns /\ row.config.strategy \in Strategies
        BY <3>1, Kinds DEF Beans
      <4>2. QED
        BY <1>0, <4>1 DEF Steps
    <3>3. /\ listed' = TRUE /\ bean' = row /\ status' \in {None, "scheduled"}
      BY <1>14, <2>4 DEF Crash
    <3>4. task' = [t \in Tasks |-> IF t = "boot" /\ Recurs(row.config) THEN z ELSE Idle]
      BY <1>14, <2>4 DEF Crash
    <3> HIDE DEF z
    <3>5. /\ task' \in [Tasks -> Steps]
          /\ \A t \in Tasks : task'[t].step = "zone" => task'[t].current <= clock
      BY <1>0, <2>1, <3>2, <3>4
    <3>6. QED
      BY <2>2, <2>4, <3>1, <3>3, <3>5 DEF TypeOK
  <2>5. QED
    BY <2>3, <2>4
<1>15. CASE UNCHANGED vars
  BY <1>15 DEF vars, volatile, TypeOK, Jobs
<1>16. ASSUME NEW h \in Handlers, Stored(h) PROVE TypeOK'
  BY <1>7, <1>8, <1>16 DEF Stored
<1>17. QED
  BY <1>1, <1>4, <1>5, <1>6, <1>7, <1>8, <1>9, <1>10, <1>11, <1>12, <1>13, <1>14, <1>15, <1>16 DEF Next

\* The row, the bean, the jobs and what the tasks wait for have the types the handlers give them,
\* and nothing in memory is later than now.
THEOREM TypeCorrect == ASSUME WindowAssumption PROVE Spec => []TypeOK
<1>1. Init => TypeOK
  BY TypeInit
<1>2. TypeOK /\ [Next]_vars => TypeOK'
  BY TypeStep
<1>3. QED
  BY <1>1, <1>2, PTL DEF Spec

-------------------------------------------------------------------------------
(* What each of the longer actions does, for the invariants below.              *)

\* run() after getTimezone(), with a pattern.
LEMMA TakenUp ==
  ASSUME WindowAssumption, TypeOK, NEW t \in Tasks, ZoneKnown(t)
  PROVE  /\ task[t].step = "zone" /\ task[t] # Idle /\ task[t].fires \in Patterns
         /\ bean \in Beans /\ bean # None
         /\ bean'.config = bean.config /\ bean'.active = bean.active
         /\ job' # None /\ job'.fires = task[t].fires /\ ~job'.due
         /\ job'.strategy = task[t].strategy /\ job'.current = task[t].current
         /\ strays' = IF job = None THEN strays ELSE strays \cup {job}
         /\ task' = [task EXCEPT ![t] = Idle] /\ clock' = clock /\ listed' = listed
         /\ \/ /\ RunningTimeslot(task[t].fires, bean.config.dur) = {}
               /\ UNCHANGED <<row, bean, status, timer>>
            \/ /\ row' = (IF row = None THEN None ELSE bean') /\ status' = "under-maintenance"
               /\ \E f \in RunningTimeslot(task[t].fires, bean.config.dur) :
                    timer' = f + bean.config.dur
               /\ timer' \in Nat /\ timer' >= clock
<1> DEFINE w == task[t]
           j == [fires |-> w.fires, strategy |-> w.strategy, current |-> w.current, due |-> FALSE]
<1>1. clock \in Nat /\ w \in Steps
  BY DEF TypeOK, WindowAssumption
<1>2. w.step = "zone" /\ w # Idle /\ w.fires \in Patterns /\ w.strategy \in Strategies /\ w.current \in 0..clock
  BY <1>1, StepTypes DEF ZoneKnown, TypeOK
<1>3. j \in Crons /\ j.fires = w.fires /\ ~j.due /\ j.strategy = w.strategy /\ j.current = w.current
  BY <1>1, <1>2 DEF Crons
<1>4. job' = j /\ strays' = (IF job = None THEN strays ELSE strays \cup {job})
      /\ task' = [task EXCEPT ![t] = Idle] /\ clock' = clock /\ listed' = listed
  BY DEF ZoneKnown, Await
<1> HIDE DEF j, w
<1>5. /\ job' # None /\ job'.fires = w.fires /\ ~job'.due
      /\ job'.strategy = w.strategy /\ job'.current = w.current
  BY <1>3, <1>4 DEF WindowAssumption
<1>6. bean # None /\ bean \in Beans
  BY <1>2 DEF TypeOK, w
<1> DEFINE running == RunningTimeslot(w.fires, bean.config.dur)
<1>7. CASE running # {}
  <2>1. PICK f \in running : StartEvent(bean, w.current, f + bean.config.dur)
    BY <1>7 DEF ZoneKnown, w
  <2> DEFINE end == f + bean.config.dur
  <2>2. bean.config.dur \in Nat
    BY <1>6, Kinds DEF Beans
  <2>3. end \in Nat /\ end >= clock
    BY <1>1, <1>2, <2>2 DEF RunningTimeslot, Covers, Patterns
  <2>4. f \in running /\ end = f + bean.config.dur /\ StartEvent(bean, w.current, end)
    BY <2>1
  <2> HIDE DEF end
  <2>5. /\ bean'.config = bean.config /\ bean'.active = bean.active
        /\ row' = IF row = None THEN None ELSE bean'
        /\ status' = "under-maintenance" /\ timer' = end
    BY <1>2, <1>6, <2>3, <2>4, StartTypes
  <2>6. QED
    BY <1>2, <1>4, <1>5, <1>6, <2>3, <2>4, <2>5 DEF w
<1>8. CASE running = {}
  <2>1. UNCHANGED <<row, bean, status, timer>>
    BY <1>8 DEF ZoneKnown, w
  <2>2. QED
    BY <1>2, <1>4, <1>5, <1>6, <1>8, <2>1 DEF w
<1>9. QED
  BY <1>7, <1>8

\* The only cron job there is falls due.
LEMMA JobFires ==
  ASSUME WindowAssumption, TypeOK, strays = {}, NEW j \in Jobs, CronFires(j)
  PROVE  /\ j = job /\ job # None /\ job.due /\ job \in Crons
         /\ bean \in Beans /\ bean # None
         /\ job' # None /\ job'.fires = job.fires /\ ~job'.due
         /\ job'.strategy = job.strategy /\ job'.current = job.current
         /\ strays' = {} /\ clock' = clock /\ listed' = listed /\ task' = task
         /\ bean'.config = bean.config /\ bean'.active = bean.active
         /\ IF IntervalPassed(j)
            THEN /\ row' = (IF row = None THEN None ELSE bean') /\ status' = "under-maintenance"
                 /\ timer' = EndOfWindow(bean.config) /\ timer' \in Nat /\ timer' >= clock
            ELSE UNCHANGED <<row, bean, status, timer>>
<1>1. j = job /\ job # None /\ job \in Crons /\ job.current \in 0..clock /\ clock \in Nat
  <2>1. j = job /\ job # None
    BY DEF Jobs
  <2>2. job \in Crons /\ job.current <= clock /\ clock \in Nat
    BY <2>1 DEF TypeOK, WindowAssumption
  <2>3. QED
    BY <2>1, <2>2 DEF Crons
<1>2. bean \in Beans /\ bean # None
  BY DEF TypeOK
<1>3. job.due /\ job' = [job EXCEPT !.due = FALSE] /\ strays' = {}
      /\ clock' = clock /\ listed' = listed /\ task' = task
  BY <1>1 DEF CronFires
<1>4. /\ job' \in Crons /\ job'.fires = job.fires /\ ~job'.due
      /\ job'.strategy = job.strategy /\ job'.current = job.current
  BY <1>1, <1>3 DEF Crons
<1>5. job' # None
  BY <1>4 DEF WindowAssumption
<1>6. CASE IntervalPassed(j)
  <2> DEFINE end == EndOfWindow(bean.config)
  <2>1. StartEvent(bean, j.current, end)
    BY <1>6 DEF CronFires
  <2>2. end \in Nat /\ end >= clock
    BY <1>1, <1>2, EndsInTime DEF Beans
  <2> HIDE DEF end
  <2>3. /\ bean'.config = bean.config /\ bean'.active = bean.active
        /\ row' = IF row = None THEN None ELSE bean'
        /\ status' = "under-maintenance" /\ timer' = end
    BY <1>1, <1>2, <2>1, <2>2, StartTypes
  <2>4. QED
    BY <1>1, <1>2, <1>3, <1>4, <1>5, <1>6, <2>2, <2>3 DEF end
<1>7. CASE ~IntervalPassed(j)
  <2>1. UNCHANGED <<row, bean, status, timer>>
    BY <1>7 DEF CronFires
  <2>2. QED
    BY <1>1, <1>2, <1>3, <1>4, <1>5, <1>7, <2>1
<1>8. QED
  BY <1>6, <1>7

\* The boot reads the table.
LEMMA Restarted ==
  ASSUME WindowAssumption, TypeOK, Crash
  PROVE  /\ clock' = clock /\ row' = row /\ strays' = {} /\ job' = None /\ timer' = None
         /\ listed' = (row # None) /\ status' \in {None, "scheduled"}
         /\ \A t \in Tasks : t # "boot" => task'[t] = Idle
         /\ row = None => \A t \in Tasks : task'[t] = Idle
         /\ row # None =>
              /\ row \in Beans /\ bean' = row
              /\ IF Recurs(row.config)
                 THEN /\ status' = "scheduled" /\ task'["boot"].step = "zone" /\ task'["boot"] # Idle
                      /\ task'["boot"].fires = row.config.fires /\ task'["boot"].current = clock
                      /\ task'["boot"].strategy = row.config.strategy
                 ELSE task'["boot"] = Idle
<1>1. clock' = clock /\ row' = row /\ strays' = {} /\ job' = None /\ timer' = None
  BY DEF Crash
<1>2. "boot" \in Tasks /\ Idle.step = "idle"
  BY DEF Tasks, Idle
<1>3. CASE row = None
  BY <1>1, <1>3 DEF Crash
<1>4. CASE row # None
  <2> DEFINE z == [step |-> "zone", fires |-> row.config.fires,
                   strategy |-> row.config.strategy, current |-> clock]
  <2>1. row \in Beans
    BY <1>4 DEF TypeOK
  <2>2. /\ z.step = "zone" /\ z.fires = row.config.fires /\ z # Idle
        /\ z.strategy = row.config.strategy /\ z.current = clock
    BY <1>2
  <2>3. listed' = TRUE /\ bean' = row /\ status' = IF Recurs(row.config) THEN "scheduled" ELSE None
    BY <1>4 DEF Crash
  <2>4. task' = [t \in Tasks |-> IF t = "boot" /\ Recurs(row.config) THEN z ELSE Idle]
    BY <1>4 DEF Crash
  <2> HIDE DEF z
  <2>5. QED
    BY <1>1, <1>2, <1>4, <2>1, <2>2, <2>3, <2>4
<1>5. QED
  BY <1>3, <1>4

-------------------------------------------------------------------------------
(* One job at a time.                                                          *)

\* No two requests, nor the boot and a request, are at work on the maintenance.
OneAtATime == \A s, t \in Tasks : task[s] # Idle /\ task[t] # Idle => s = t


LEMMA OthersIdle ==
  ASSUME OneAtATime, NEW t \in Tasks, task[t] # Idle
  PROVE  \A s \in Tasks : s # t => task[s] = Idle
BY DEF OneAtATime

\* A job is made only when there is none.
ZoneHasNoJob ==
  /\ strays = {}
  /\ \A t \in Tasks : task[t].step = "zone" => job = None /\ status = "scheduled"

JobInv == TypeOK /\ ZoneHasNoJob

LEMMA JobInit == ASSUME WindowAssumption PROVE Init => JobInv
<1> SUFFICES ASSUME Init PROVE JobInv
  OBVIOUS
<1>1. \A t \in Tasks : task[t].step = "idle"
  BY DEF Init, Idle
<1>2. QED
  BY <1>1, TypeInit DEF Init, JobInv, ZoneHasNoJob

LEMMA JobStep ==
  ASSUME WindowAssumption PROVE JobInv /\ OneAtATime /\ [Next]_vars => ZoneHasNoJob'
<1> SUFFICES ASSUME TypeOK, ZoneHasNoJob, OneAtATime, [Next]_vars PROVE ZoneHasNoJob'
  BY DEF JobInv
<1>0. task \in [Tasks -> Steps] /\ Handlers \subseteq Tasks /\ Idle.step = "idle"
  BY DEF TypeOK, Tasks, Idle
<1>1. ASSUME NEW h \in Handlers, NEW c \in Configs, NEW a \in BOOLEAN, Add(h, c, a)
      PROVE  ZoneHasNoJob'
  <2>1. task' = [task EXCEPT ![h] = [step |-> "insert"]] /\ UNCHANGED <<status, job, strays>>
    BY <1>1 DEF Add, Await
  <2>2. QED
    BY <1>0, <2>1 DEF ZoneHasNoJob
<1>2. ASSUME NEW h \in Handlers, NEW b, NEW next \in {"run", "stop"}, Change(h, b, next)
      PROVE  ZoneHasNoJob'
  <2>1. task' = [task EXCEPT ![h] = [step |-> next]] /\ UNCHANGED <<status, job, strays>>
    BY <1>2 DEF Change, Await
  <2>2. QED
    BY <1>0, <2>1 DEF ZoneHasNoJob
<1>3. ASSUME NEW h \in Handlers, NEW c \in Refused, NEW a \in BOOLEAN, EditRefused(h, c, a)
      PROVE  ZoneHasNoJob'
  BY <1>3 DEF EditRefused, ZoneHasNoJob
<1>4. ASSUME NEW h \in Handlers, Inserted(h) \/ (Stored(h) /\ task[h].step = "run")
      PROVE  ZoneHasNoJob'
  <2>1. h \in Tasks /\ bean # None /\ RunBegins(h, bean) /\ task[h] # Idle
    BY <1>0, <1>4 DEF Inserted, Stored, TypeOK
  <2>2. strays' = {} /\ \A s \in Tasks : s # h => task'[s] = Idle
    BY <1>4, <2>1, RunTypes, OthersIdle DEF Inserted, Stored, ZoneHasNoJob
  <2>3. job' = None /\ (task'[h].step = "zone" => status' = "scheduled")
    BY <1>0, <2>1, RunTypes
  <2>4. QED
    BY <1>0, <2>2, <2>3 DEF ZoneHasNoJob
<1>5. ASSUME NEW h \in Handlers, Stored(h) /\ task[h].step = "stop" PROVE ZoneHasNoJob'
  <2>1. task' = [task EXCEPT ![h] = Idle] /\ job' = None /\ UNCHANGED <<status, strays>>
    BY <1>5 DEF Stored, Await
  <2>2. QED
    BY <1>0, <2>1 DEF ZoneHasNoJob
<1>6. ASSUME NEW h \in Handlers, Delete(h) PROVE ZoneHasNoJob'
  <2>1. task' = [task EXCEPT ![h] = [step |-> "delete"]] /\ job' = None /\ UNCHANGED <<status, strays>>
    BY <1>6 DEF Delete, Await
  <2>2. QED
    BY <1>0, <2>1 DEF ZoneHasNoJob
<1>7. ASSUME NEW t \in Tasks, NoJob(t) \/ Deleted(t) PROVE ZoneHasNoJob'
  <2>1. task' = [task EXCEPT ![t] = Idle] /\ UNCHANGED <<status, job, strays>>
    BY <1>7 DEF NoJob, Deleted, Await, volatile
  <2>2. QED
    BY <1>0, <2>1 DEF ZoneHasNoJob
<1>8. ASSUME NEW t \in Tasks, ZoneKnown(t) PROVE ZoneHasNoJob'
  <2>1. task[t].step = "zone" /\ task[t] # Idle /\ task' = [task EXCEPT ![t] = Idle]
        /\ strays' = IF job = None THEN strays ELSE strays \cup {job}
    BY <1>8, TakenUp
  <2>2. \A s \in Tasks : task'[s].step = "idle"
    BY <1>0, <2>1, OthersIdle
  <2>3. QED
    BY <2>1, <2>2 DEF ZoneHasNoJob
<1>9. ASSUME NEW j \in Jobs, CronFires(j) PROVE ZoneHasNoJob'
  BY <1>9, JobFires DEF ZoneHasNoJob
<1>10. CASE TimerFires
  BY <1>10 DEF TimerFires, ZoneHasNoJob
<1>11. CASE Tick
  <2>1. strays' = {} /\ task' = task /\ \A t \in Tasks : task[t] = Idle
    BY <1>11 DEF Tick, Quiet, ZoneHasNoJob
  <2>2. QED
    BY <1>0, <2>1 DEF ZoneHasNoJob
<1>12. CASE Crash
  <2>1. \A t \in Tasks : task'[t].step = "zone" => status' = "scheduled"
    BY <1>0, <1>12, Restarted
  <2>2. QED
    BY <1>12, <2>1, Restarted DEF ZoneHasNoJob
<1>13. CASE UNCHANGED vars
  BY <1>13 DEF vars, volatile, ZoneHasNoJob
<1>14. ASSUME NEW h \in Handlers, Stored(h) PROVE ZoneHasNoJob'
  BY <1>4, <1>5, <1>14 DEF Stored
<1>15. ASSUME NEW h \in Handlers, NEW c \in Configs, NEW a \in BOOLEAN,
              Edit(h, c, a) \/ Pause(h) \/ Resume(h)
       PROVE  ZoneHasNoJob'
  BY <1>2, <1>15 DEF Edit, Pause, Resume
<1>16. ASSUME NEW h \in Handlers, Pause(h) \/ Resume(h) PROVE ZoneHasNoJob'
  BY <1>2, <1>16 DEF Pause, Resume
<1>17. QED
  BY <1>0, <1>1, <1>3, <1>4, <1>6, <1>7, <1>8, <1>9, <1>10, <1>11, <1>12, <1>13, <1>14, <1>15, <1>16
     DEF Next

\* "Maintenance is already running, stop it first" (run): as long as no two requests work on
\* the maintenance at the same time, no cron job runs that beanMeta.job does not name.
THEOREM NoStrayJobHolds ==
  ASSUME WindowAssumption PROVE Spec /\ []OneAtATime => []NoStrayJob
<1>1. Init => JobInv
  BY JobInit
<1>2. JobInv /\ OneAtATime /\ [Next]_vars => JobInv'
  BY JobStep, TypeStep DEF JobInv
<1>3. JobInv => NoStrayJob
  BY DEF JobInv, ZoneHasNoJob, NoStrayJob
<1>4. QED
  BY <1>1, <1>2, <1>3, PTL DEF Spec

-------------------------------------------------------------------------------
(* The table and the bean.                                                     *)


\* What the table holds while a request is at work.
RowFollows ==
  /\ listed => row # None
  /\ listed => \A t \in Tasks : task[t].step \notin {"insert", "delete"}
  /\ ~listed => job = None /\ \A t \in Tasks : task[t].step \notin {"run", "stop", "zone"}
  /\ ~listed /\ (\A t \in Tasks : task[t].step # "delete") => row = None
  /\ listed /\ (\A t \in Tasks : task[t].step \notin {"run", "stop"})
       => bean.config \in Refused \/ row = bean

RowInv == JobInv /\ RowFollows

LEMMA RowInit == ASSUME WindowAssumption PROVE Init => RowInv
<1> SUFFICES ASSUME Init PROVE RowInv
  OBVIOUS
<1>1. \A t \in Tasks : task[t].step = "idle"
  BY DEF Init, Idle
<1>2. QED
  BY <1>1, JobInit DEF Init, RowInv, RowFollows

LEMMA RowStep ==
  ASSUME WindowAssumption
  PROVE  RowInv /\ OneAtATime /\ OneAtATime' /\ [Next]_vars => RowFollows'
<1> SUFFICES ASSUME TypeOK, ZoneHasNoJob, RowFollows, OneAtATime, OneAtATime', [Next]_vars
             PROVE  RowFollows'
  BY DEF JobInv, RowInv
<1>0. task \in [Tasks -> Steps] /\ Handlers \subseteq Tasks /\ Idle.step = "idle" /\ listed \in BOOLEAN
  BY DEF TypeOK, Tasks, Idle
<1>o. ASSUME NEW t \in Tasks, task'[t] # Idle PROVE \A s \in Tasks : s # t => task'[s] = Idle
  BY <1>o DEF OneAtATime
<1>1. ASSUME NEW h \in Handlers, NEW c \in Configs, NEW a \in BOOLEAN, Add(h, c, a)
      PROVE  RowFollows'
  <2>1. /\ task' = [task EXCEPT ![h] = [step |-> "insert"]] /\ UNCHANGED <<row, listed, job>>
        /\ task[h].step = "idle" /\ bean = None
    BY <1>0, <1>1 DEF Add, Begin, Await
  <2>2. listed = FALSE
    BY <1>0, <2>1 DEF TypeOK
  <2>3. task'[h].step = "insert" /\ \A s \in Tasks : s # h => task'[s] = task[s]
    BY <1>0, <2>1
  <2>4. QED
    BY <1>0, <2>1, <2>2, <2>3 DEF RowFollows
<1>2. ASSUME NEW h \in Handlers, NEW b, NEW next \in {"run", "stop"}, Change(h, b, next)
      PROVE  RowFollows'
  <2>1. task' = [task EXCEPT ![h] = [step |-> next]] /\ UNCHANGED <<row, listed, job>> /\ listed
    BY <1>2 DEF Change, Await
  <2>2. task'[h].step = next /\ \A s \in Tasks : s # h => task'[s] = task[s]
    BY <1>0, <2>1
  <2>3. QED
    BY <1>0, <2>1, <2>2 DEF RowFollows
<1>3. ASSUME NEW h \in Handlers, NEW c \in Refused, NEW a \in BOOLEAN, EditRefused(h, c, a)
      PROVE  RowFollows'
  <2>1. listed /\ UNCHANGED <<row, listed, job, task>> /\ bean' = [bean EXCEPT !.config = c, !.active = a]
    BY <1>3 DEF EditRefused
  <2>2. bean'.config = c
    BY <2>1 DEF TypeOK, Beans
  <2>3. QED
    BY <1>0, <2>1, <2>2 DEF RowFollows
<1>4. ASSUME NEW h \in Handlers, Inserted(h) \/ Stored(h) PROVE RowFollows'
  <2>1. h \in Tasks /\ bean # None /\ task[h] # Idle /\ bean' = bean
    BY <1>0, <1>4 DEF Inserted, Stored, TypeOK
  <2>2. listed' = TRUE /\ row' = bean
    BY <1>0, <1>4 DEF Inserted, Stored, RowFollows
  <2>3. \A s \in Tasks : s # h => task'[s].step = "idle"
    <3>1. CASE RunBegins(h, bean)
      BY <1>0, <2>1, <3>1, RunTypes, OthersIdle
    <3>2. CASE ~RunBegins(h, bean)
      <4>1. task' = [task EXCEPT ![h] = Idle]
        BY <1>4, <3>2 DEF Inserted, Stored, Await
      <4>2. QED
        BY <1>0, <2>1, <4>1, OthersIdle
    <3>3. QED
      BY <3>1, <3>2
  <2>4. task'[h].step \in {"zone", "idle"}
    <3>1. CASE RunBegins(h, bean)
      BY <1>0, <2>1, <3>1, RunTypes
    <3>2. CASE ~RunBegins(h, bean)
      <4>1. task' = [task EXCEPT ![h] = Idle]
        BY <1>4, <3>2 DEF Inserted, Stored, Await
      <4>2. QED
        BY <1>0, <2>1, <4>1
    <3>3. QED
      BY <3>1, <3>2
  <2>5. \A s \in Tasks : task'[s].step \in {"zone", "idle"}
    BY <2>3, <2>4
  <2>6. QED
    BY <2>1, <2>2, <2>5 DEF RowFollows
<1>5. ASSUME NEW h \in Handlers, Delete(h) PROVE RowFollows'
  <2>1. task' = [task EXCEPT ![h] = [step |-> "delete"]] /\ job' = None /\ listed' = FALSE
    BY <1>5 DEF Delete, Await
  <2>2. task'[h].step = "delete" /\ task'[h] # Idle
    BY <1>0, <2>1
  <2>3. \A s \in Tasks : s # h => task'[s] = Idle
    BY <1>0, <2>2, <1>o
  <2>4. QED
    BY <1>0, <2>1, <2>2, <2>3 DEF RowFollows
<1>6. ASSUME NEW h \in Handlers, Deleted(h) PROVE RowFollows'
  <2>1. task[h].step = "delete" /\ row' = None /\ task' = [task EXCEPT ![h] = Idle]
        /\ UNCHANGED <<listed, job>>
    BY <1>6 DEF Deleted, Await, volatile
  <2>2. ~listed
    BY <1>0, <2>1 DEF RowFollows
  <2>3. QED
    BY <1>0, <2>1, <2>2 DEF RowFollows
<1>7. ASSUME NEW t \in Tasks, NoJob(t) PROVE RowFollows'
  <2>1. task[t].step = "zone" /\ task' = [task EXCEPT ![t] = Idle] /\ UNCHANGED <<listed, job, row, bean>>
    BY <1>7 DEF NoJob, Await, volatile
  <2>2. QED
    BY <1>0, <2>1 DEF RowFollows
<1>8. ASSUME NEW t \in Tasks, ZoneKnown(t) PROVE RowFollows'
  <2>1. /\ task[t].step = "zone" /\ task' = [task EXCEPT ![t] = Idle] /\ listed' = listed
        /\ (row' = row /\ bean' = bean) \/ row' = (IF row = None THEN None ELSE bean')
        /\ task[t] # Idle /\ bean' \in Beans
    <3>1. bean' \in Beans
      <4>1. TypeOK'
        BY TypeStep
      <4>2. job' # None
        BY <1>8, TakenUp
      <4>3. QED
        BY <4>1, <4>2 DEF TypeOK, Jobs
    <3>2. QED
      BY <1>8, <3>1, TakenUp
  <2>2. listed /\ row # None
    BY <1>0, <2>1 DEF RowFollows
  <2>3. \A s \in Tasks : task'[s].step = "idle"
    BY <1>0, <2>1, OthersIdle
  <2>4. bean' # None
    BY <2>1 DEF WindowAssumption
  <2>5. bean.config \in Refused \/ row = bean
    <3>1. \A s \in Tasks : task[s].step \in {"zone", "idle"}
      BY <1>0, <2>1, OthersIdle
    <3>2. QED
      BY <2>2, <3>1 DEF RowFollows
  <2>6. QED
    BY <2>1, <2>2, <2>3, <2>4, <2>5 DEF RowFollows
<1>9. ASSUME NEW j \in Jobs, CronFires(j) PROVE RowFollows'
  <2>1. /\ job # None /\ listed' = listed /\ task' = task /\ bean'.config = bean.config
        /\ (row' = row /\ bean' = bean) \/ row' = (IF row = None THEN None ELSE bean')
        /\ bean' \in Beans
    <3>1. strays = {}
      BY DEF ZoneHasNoJob
    <3>2. bean' # None /\ bean' \in Beans
      <4>1. TypeOK'
        BY TypeStep
      <4>2. job' # None
        BY <1>9, <3>1, JobFires
      <4>3. QED
        BY <4>1, <4>2 DEF TypeOK, Jobs
    <3>3. QED
      BY <1>9, <3>1, <3>2, JobFires
  <2>2. listed /\ row # None
    BY <2>1 DEF RowFollows
  <2>3. bean' # None
    BY <2>1 DEF WindowAssumption
  <2>4. QED
    BY <2>1, <2>2, <2>3 DEF RowFollows
<1>10. CASE TimerFires
  BY <1>10 DEF TimerFires, RowFollows
<1>11. CASE Tick
  <2>1. UNCHANGED <<row, listed, bean, task>> /\ (job = None => job' = None)
    BY <1>11 DEF Tick
  <2>2. QED
    BY <2>1 DEF RowFollows
<1>12. CASE Crash
  <2>1. \A t \in Tasks : task'[t].step \in {"zone", "idle"}
    BY <1>0, <1>12, Restarted DEF Tasks
  <2>2. CASE row = None
    <3>1. listed' = FALSE /\ row' = None /\ job' = None /\ \A t \in Tasks : task'[t] = Idle
      BY <1>12, <2>2, Restarted
    <3>2. QED
      BY <1>0, <3>1 DEF RowFollows
  <2>3. CASE row # None
    <3>1. listed' = TRUE /\ row' = row /\ bean' = row
      BY <1>12, <2>3, Restarted
    <3>2. QED
      BY <2>1, <2>3, <3>1 DEF RowFollows
  <2>4. QED
    BY <2>2, <2>3
<1>13. CASE UNCHANGED vars
  BY <1>13 DEF vars, volatile, RowFollows
<1>14. ASSUME NEW h \in Handlers, NEW c \in Configs, NEW a \in BOOLEAN, Edit(h, c, a)
       PROVE  RowFollows'
  BY <1>2, <1>14 DEF Edit
<1>15. ASSUME NEW h \in Handlers, Pause(h) \/ Resume(h) PROVE RowFollows'
  BY <1>2, <1>15 DEF Pause, Resume
<1>16. QED
  BY <1>1, <1>3, <1>4, <1>5, <1>6, <1>7, <1>8, <1>9, <1>10, <1>11, <1>12, <1>13, <1>14, <1>15 DEF Next

\* With nothing in progress the table holds what the bean holds, but for an edit that was
\* refused: a restart shows the same maintenance, as long as no two requests work on it at the
\* same time.
THEOREM RowMatchesBeanHolds ==
  ASSUME WindowAssumption PROVE Spec /\ []OneAtATime => []RowMatchesBean
<1>1. Init => RowInv
  BY RowInit
<1>2. RowInv /\ OneAtATime /\ OneAtATime' /\ [Next]_vars => RowInv'
  BY RowStep, JobStep, TypeStep DEF RowInv, JobInv
<1>3. RowInv => RowMatchesBean
  <2> SUFFICES ASSUME RowInv, Quiet PROVE IF listed THEN bean.config \in Refused \/ row = bean
                                                    ELSE row = None
    BY DEF RowMatchesBean
  <2>1. \A t \in Tasks : task[t].step = "idle"
    BY DEF Quiet, Idle
  <2>2. QED
    BY <2>1 DEF RowInv, RowFollows
<1>4. QED
  BY <1>1, <1>2, <1>3, PTL DEF Spec

-------------------------------------------------------------------------------
(* A maintenance is in effect during its windows.                              *)


\* run() works for the configuration the bean has, in the slot in which it was called.
ZoneIsCurrent ==
  \A t \in Tasks :
    /\ task[t].step = "zone" => task[t].current = clock
    /\ task[t].step = "zone" /\ bean.config \in Configs =>
         /\ Recurs(bean.config) /\ task[t].fires = bean.config.fires
         /\ task[t].strategy = bean.config.strategy
    /\ task[t].step = "stop" /\ bean.config \in Configs => ~bean.active

\* A recurring maintenance that no request works on.
Steady ==
  /\ listed /\ bean.config \in Configs /\ Recurs(bean.config) /\ bean.active
  /\ bean.config.strategy = "recurring-interval" => IntervalDay = 1
  /\ \A t \in Tasks : task[t] = Idle

Ended(c) == c.until # None /\ clock >= c.until

\* What is known of it: the timer ends no later than some window and no earlier than any window
\* that was not forgotten, save the one whose cron job is about to be run.
KeptFor(c) ==
  /\ job # None /\ job.fires = c.fires /\ job.strategy = c.strategy
  /\ status = "under-maintenance" =>
       \E f \in c.fires : f <= clock /\ timer <= f + c.dur /\ ~Forgotten(c, f)
  /\ \A f \in c.fires :
       Covers(f, c.dur) /\ ~Forgotten(c, f) /\ ~(job.due /\ f = clock) /\ ~Ended(c) =>
         /\ status = "under-maintenance"
         /\ timer >= f + c.dur \/ (c.until # None /\ timer >= c.until)

WindowIsKept ==
  /\ status = "under-maintenance" => timer # None
  /\ job # None /\ job.due => clock \in job.fires /\ job.current < clock
  /\ Steady => KeptFor(bean.config)

WindowInv == RowInv /\ ZoneIsCurrent /\ WindowIsKept

LEMMA WindowInit == ASSUME WindowAssumption PROVE Init => WindowInv
<1> SUFFICES ASSUME Init PROVE WindowInv
  OBVIOUS
<1>1. \A t \in Tasks : task[t].step = "idle"
  BY DEF Init, Idle
<1>2. ~Steady /\ status # "under-maintenance" /\ job = None
  BY DEF Init, Steady, WindowAssumption
<1>3. ZoneIsCurrent /\ WindowIsKept
  BY <1>1, <1>2 DEF ZoneIsCurrent, WindowIsKept
<1>4. QED
  BY <1>3, RowInit DEF WindowInv

LEMMA ZoneStep ==
  ASSUME WindowAssumption
  PROVE  WindowInv /\ OneAtATime /\ OneAtATime' /\ [Next]_vars => ZoneIsCurrent'
<1> SUFFICES ASSUME TypeOK, ZoneHasNoJob, ZoneIsCurrent, OneAtATime, OneAtATime', [Next]_vars
             PROVE  ZoneIsCurrent'
  BY DEF WindowInv, RowInv, JobInv
<1>0. task \in [Tasks -> Steps] /\ Handlers \subseteq Tasks /\ Idle.step = "idle"
  BY DEF TypeOK, Tasks, Idle
<1>o. ASSUME NEW t \in Tasks, task'[t] # Idle, task'[t].step \notin {"zone", "stop"}
      PROVE  ZoneIsCurrent'
  <2>1. \A s \in Tasks : s # t => task'[s].step = "idle"
    BY <1>0, <1>o DEF OneAtATime
  <2>2. QED
    BY <1>o, <2>1 DEF ZoneIsCurrent
<1>i. ASSUME NEW t \in Tasks, task[t] # Idle, task' = [task EXCEPT ![t] = Idle]
      PROVE  ZoneIsCurrent'
  <2>1. \A s \in Tasks : task'[s].step = "idle"
    BY <1>0, <1>i, OthersIdle
  <2>2. QED
    BY <2>1 DEF ZoneIsCurrent
<1>1. ASSUME NEW h \in Handlers, NEW c \in Configs, NEW a \in BOOLEAN, Add(h, c, a) \/ Edit(h, c, a)
      PROVE  ZoneIsCurrent'
  <2>1. \E x \in {"insert", "run"} : task' = [task EXCEPT ![h] = [step |-> x]]
    BY <1>1 DEF Add, Edit, Change, Await
  <2>2. task'[h].step \in {"insert", "run"} /\ task'[h] # Idle
    BY <1>0, <2>1
  <2>3. QED
    BY <1>0, <2>2, <1>o
<1>2. ASSUME NEW h \in Handlers, Resume(h) \/ Delete(h) PROVE ZoneIsCurrent'
  <2>1. \E x \in {"delete", "run"} : task' = [task EXCEPT ![h] = [step |-> x]]
    BY <1>2 DEF Resume, Delete, Change, Await
  <2>2. task'[h].step \in {"delete", "run"} /\ task'[h] # Idle
    BY <1>0, <2>1
  <2>3. QED
    BY <1>0, <2>2, <1>o
<1>3. ASSUME NEW h \in Handlers, Pause(h) PROVE ZoneIsCurrent'
  <2>1. task' = [task EXCEPT ![h] = [step |-> "stop"]] /\ bean' = [bean EXCEPT !.active = FALSE] /\ listed
    BY <1>3 DEF Pause, Change, Await
  <2>2. task'[h].step = "stop" /\ task'[h] # Idle /\ ~bean'.active
    BY <1>0, <2>1 DEF TypeOK, Beans
  <2>3. \A s \in Tasks : s # h => task'[s].step = "idle"
    BY <1>0, <2>2 DEF OneAtATime
  <2>4. QED
    BY <2>2, <2>3 DEF ZoneIsCurrent
<1>4. ASSUME NEW h \in Handlers, NEW c \in Refused, NEW a \in BOOLEAN, EditRefused(h, c, a)
      PROVE  ZoneIsCurrent'
  <2>1. listed /\ bean' = [bean EXCEPT !.config = c, !.active = a]
    BY <1>4 DEF EditRefused
  <2>2. bean'.config = c /\ c \notin Configs
    BY <2>1, Kinds DEF TypeOK, Beans
  <2>3. UNCHANGED <<task, clock>>
    BY <1>4 DEF EditRefused
  <2>4. QED
    BY <2>2, <2>3 DEF ZoneIsCurrent
<1>5. ASSUME NEW h \in Handlers, Inserted(h) \/ (Stored(h) /\ task[h].step = "run")
      PROVE  ZoneIsCurrent'
  <2>1. h \in Tasks /\ bean # None /\ RunBegins(h, bean) /\ task[h] # Idle /\ bean' = bean
    BY <1>0, <1>5 DEF Inserted, Stored, TypeOK
  <2>2. \A s \in Tasks : s # h => task'[s].step = "idle"
    BY <1>0, <2>1, RunTypes, OthersIdle
  <2>3. IF Recurs(bean.config)
        THEN /\ task'[h].step = "zone" /\ task'[h].fires = bean.config.fires
             /\ task'[h].strategy = bean.config.strategy /\ task'[h].current = clock
        ELSE task'[h].step = "idle"
    BY <1>0, <2>1, RunTypes
  <2>4. clock' = clock
    BY <1>5 DEF Inserted, Stored
  <2>5. QED
    BY <2>1, <2>2, <2>3, <2>4 DEF ZoneIsCurrent
<1>6. ASSUME NEW h \in Handlers, (Stored(h) /\ task[h].step = "stop") \/ Deleted(h)
      PROVE  ZoneIsCurrent'
  BY <1>0, <1>6, <1>i DEF Stored, Deleted, Await
<1>7. ASSUME NEW t \in Tasks, NoJob(t) PROVE ZoneIsCurrent'
  BY <1>0, <1>7, <1>i DEF NoJob, Await
<1>8. ASSUME NEW t \in Tasks, ZoneKnown(t) PROVE ZoneIsCurrent'
  BY <1>8, <1>i, TakenUp
<1>9. ASSUME NEW j \in Jobs, CronFires(j) PROVE ZoneIsCurrent'
  <2>1. task' = task /\ clock' = clock /\ bean'.config = bean.config /\ bean'.active = bean.active
    BY <1>9, JobFires DEF ZoneHasNoJob
  <2>2. QED
    BY <2>1 DEF ZoneIsCurrent
<1>10. CASE TimerFires
  BY <1>10 DEF TimerFires, ZoneIsCurrent
<1>11. CASE Tick
  BY <1>0, <1>11 DEF Tick, Quiet, ZoneIsCurrent
<1>12. CASE Crash
  <2>1. \A t \in Tasks : t # "boot" => task'[t].step = "idle"
    BY <1>0, <1>12, Restarted
  <2>2. "boot" \in Tasks
    BY DEF Tasks
  <2>3. task'["boot"].step = "idle"
        \/ /\ task'["boot"].step = "zone" /\ Recurs(bean'.config)
           /\ task'["boot"].fires = bean'.config.fires /\ task'["boot"].current = clock'
           /\ task'["boot"].strategy = bean'.config.strategy
    BY <1>0, <1>12, <2>2, Restarted
  <2>4. QED
    BY <2>1, <2>3 DEF ZoneIsCurrent
<1>13. CASE UNCHANGED vars
  BY <1>13 DEF vars, volatile, ZoneIsCurrent
<1>14. ASSUME NEW h \in Handlers, Stored(h) PROVE ZoneIsCurrent'
  BY <1>5, <1>6, <1>14 DEF Stored
<1>15. QED
  BY <1>1, <1>2, <1>3, <1>4, <1>5, <1>6, <1>7, <1>8, <1>9, <1>10, <1>11, <1>12, <1>13, <1>14 DEF Next

\* A timer that is there, and a cron job that is due now: no step loses either before it
\* has done its work.
LEMMA TimerStep ==
  ASSUME WindowAssumption
  PROVE  WindowInv /\ [Next]_vars =>
           /\ status' = "under-maintenance" => timer' # None
           /\ job' # None /\ job'.due => clock' \in job'.fires /\ job'.current < clock'
<1> SUFFICES ASSUME TypeOK, ZoneHasNoJob, WindowIsKept, [Next]_vars
             PROVE  /\ status' = "under-maintenance" => timer' # None
                    /\ job' # None /\ job'.due => clock' \in job'.fires /\ job'.current < clock'
  BY DEF WindowInv, RowInv, JobInv
<1>0. clock \in Nat /\ strays = {}
  BY DEF TypeOK, ZoneHasNoJob, WindowAssumption
<1>1. /\ status = "under-maintenance" => timer # None
      /\ job # None /\ job.due => clock \in job.fires /\ job.current < clock
  BY DEF WindowIsKept
<1> DEFINE Lost == /\ clock' = clock /\ job' \in {job, None}
                   /\ \/ status' \in {"scheduled", None} /\ status' # "under-maintenance"
                      \/ status' = status /\ timer' = timer
<1>2. CASE Lost
  <2>1. status' = "under-maintenance" => timer' # None
    BY <1>1, <1>2 DEF WindowAssumption
  <2>2. ASSUME job' # None, job'.due PROVE clock' \in job'.fires /\ job'.current < clock'
    BY <1>1, <1>2, <2>2
  <2>3. QED
    BY <2>1, <2>2
<1>3. ASSUME NEW h \in Handlers, Inserted(h) \/ Stored(h) PROVE Lost
  <2>1. /\ job' = None /\ clock' = clock /\ timer' = timer
        /\ status' = "scheduled" \/ status' = status
    BY <1>3 DEF Inserted, Stored, RunBegins
  <2>2. QED
    BY <2>1
<1>4. ASSUME NEW h \in Handlers, NEW c \in Configs \cup Refused, NEW a \in BOOLEAN,
             Add(h, c, a) \/ Edit(h, c, a) \/ EditRefused(h, c, a)
      PROVE  Lost
  BY <1>4 DEF Add, Edit, EditRefused, Change
<1>5. ASSUME NEW h \in Handlers, Pause(h) \/ Resume(h) \/ Delete(h) \/ Deleted(h)
      PROVE  Lost
  BY <1>5 DEF Pause, Resume, Change, Delete, Deleted, volatile
<1>6. ASSUME NEW t \in Tasks, NoJob(t) PROVE Lost
  BY <1>6 DEF NoJob, volatile
<1>7. ASSUME NEW t \in Tasks, ZoneKnown(t)
      PROVE  (status' = "under-maintenance" => timer' # None) /\ ~job'.due
  <2>1. ~job'.due /\ \/ status' = "under-maintenance" /\ timer' \in Nat
                     \/ status' = status /\ timer' = timer
    BY <1>7, TakenUp
  <2>2. None \notin Nat
    BY <1>0 DEF WindowAssumption
  <2>3. QED
    BY <1>1, <2>1, <2>2
<1>8. ASSUME NEW j \in Jobs, CronFires(j)
      PROVE  (status' = "under-maintenance" => timer' # None) /\ ~job'.due
  <2>1. ~job'.due /\ \/ status' = "under-maintenance" /\ timer' \in Nat
                     \/ status' = status /\ timer' = timer
    BY <1>0, <1>8, JobFires
  <2>2. None \notin Nat
    BY <1>0 DEF WindowAssumption
  <2>3. QED
    BY <1>1, <2>1, <2>2
<1>9. ASSUME TimerFires PROVE Lost
  BY <1>9 DEF TimerFires
<1>10. CASE Tick
  <2>1. status' = status /\ timer' = timer /\ clock' = clock + 1
    BY <1>10 DEF Tick
  <2>2. ASSUME job' # None, job'.due PROVE clock' \in job'.fires /\ job'.current < clock'
    <3>1. job # None /\ job \in Crons /\ job.current \in Nat /\ job.current <= clock
      <4>1. job # None
        BY <1>10, <2>2 DEF Tick
      <4>2. job \in Crons /\ job.current <= clock
        BY <4>1 DEF TypeOK, Jobs
      <4>3. QED
        BY <4>1, <4>2 DEF Crons
    <3>2. job' = [job EXCEPT !.due = (clock + 1) \in job.fires]
      BY <1>10, <3>1 DEF Tick
    <3> DEFINE d == (clock + 1) \in job.fires
    <3>3. job'.fires = job.fires /\ job'.due = d /\ job'.current = job.current
      BY <3>1, <3>2, FallsDue
    <3>4. clock' \in job'.fires
      BY <2>1, <2>2, <3>3
    <3>5. QED
      BY <1>0, <2>1, <3>1, <3>3, <3>4
  <2>3. QED
    BY <1>1, <2>1, <2>2
<1>11. ASSUME Crash PROVE Lost
  BY <1>11, Restarted DEF WindowAssumption
<1>12. ASSUME UNCHANGED vars PROVE Lost
  BY <1>12 DEF vars, volatile
<1> HIDE DEF Lost
<1>13. ASSUME Next PROVE Lost \/ (\E t \in Tasks : ZoneKnown(t)) \/ (\E j \in Jobs : CronFires(j)) \/ Tick
  BY <1>3, <1>4, <1>5, <1>6, <1>9, <1>11, <1>13 DEF Next
<1>14. QED
  BY <1>2, <1>7, <1>8, <1>10, <1>12, <1>13

\* Of a configuration that recurs, all that a window depends on is a number.
LEMMA Numbers ==
  ASSUME WindowAssumption, TypeOK, NEW c \in Configs
  PROVE  /\ clock \in Nat /\ c.dur \in Nat /\ c.fires \subseteq Nat
         /\ c.until \in Nat \cup {None} /\ None \notin Nat
         /\ timer # None => timer \in Nat
         /\ job # None => job \in Crons /\ job.current \in Nat /\ job.current <= clock
<1>1. /\ clock \in Nat /\ c.dur \in Nat /\ c.fires \subseteq Nat
      /\ c.until \in Nat \cup {None} /\ None \notin Nat
  BY Kinds DEF TypeOK, WindowAssumption, Dates, Patterns
<1>2. (timer # None => timer \in Nat) /\ (job # None => job \in Crons /\ job.current <= clock)
  BY DEF TypeOK, Jobs
<1>3. \A j \in Crons : j.current \in Nat
  BY DEF Crons
<1>4. QED
  BY <1>1, <1>2, <1>3

\* Whether a window is forgotten depends on the time of run() alone.
LEMMA ForgottenSame ==
  ASSUME NEW c, NEW f, job # None, job' # None, job'.current = job.current
  PROVE  Forgotten(c, f)' = Forgotten(c, f)
BY DEF Forgotten

\* The window that run() takes up is not forgotten, and it is the only one of those that are
\* running.
LEMMA TakesFirst ==
  ASSUME WindowAssumption, TypeOK, NEW c \in Configs, clock' = clock, job' # None, job'.current = clock
  PROVE  /\ \A f \in RunningTimeslot(c.fires, c.dur) : f \in c.fires /\ f <= clock /\ ~Forgotten(c, f)'
         /\ \A f \in c.fires, e \in RunningTimeslot(c.fires, c.dur) :
              Covers(f, c.dur) /\ ~Forgotten(c, f)' => f = e
         /\ \A f \in c.fires : Covers(f, c.dur) /\ ~Forgotten(c, f)'
              => f \in RunningTimeslot(c.fires, c.dur)
<1>1. clock \in Nat /\ c.dur \in Nat /\ c.fires \subseteq Nat
  BY Numbers
<1>2. \A f \in c.fires : Forgotten(c, f)' <=> f <= clock /\ \E g \in c.fires : g < f /\ clock < g + c.dur
  BY DEF Forgotten
<1>3. \A f \in RunningTimeslot(c.fires, c.dur) : f \in c.fires /\ f <= clock /\ ~Forgotten(c, f)'
  <2> SUFFICES ASSUME NEW f \in RunningTimeslot(c.fires, c.dur)
               PROVE  f \in c.fires /\ f <= clock /\ ~Forgotten(c, f)'
    OBVIOUS
  <2>1. f \in c.fires /\ f <= clock /\ \A g \in c.fires : g < f => g + c.dur <= clock
    BY DEF RunningTimeslot, Covers
  <2>2. \A g \in c.fires : g < f => ~(clock < g + c.dur)
    BY <1>1, <2>1
  <2>3. QED
    BY <1>2, <2>1, <2>2
<1>4. \A f \in c.fires : Covers(f, c.dur) /\ ~Forgotten(c, f)'
         => f \in RunningTimeslot(c.fires, c.dur)
  <2> SUFFICES ASSUME NEW f \in c.fires, Covers(f, c.dur), ~Forgotten(c, f)'
               PROVE  f \in RunningTimeslot(c.fires, c.dur)
    OBVIOUS
  <2>1. \A g \in c.fires : ~(g < f /\ clock < g + c.dur)
    BY <1>2 DEF Covers
  <2>2. \A g \in c.fires : g < f => g + c.dur <= clock
    BY <1>1, <2>1
  <2>3. QED
    BY <2>2 DEF RunningTimeslot
<1>5. ASSUME NEW f \in RunningTimeslot(c.fires, c.dur), NEW e \in RunningTimeslot(c.fires, c.dur)
      PROVE  f = e
  <2>1. /\ f \in Nat /\ e \in Nat /\ clock < f + c.dur /\ clock < e + c.dur
        /\ (f < e => f + c.dur <= clock) /\ (e < f => e + c.dur <= clock)
    BY <1>1 DEF RunningTimeslot, Covers
  <2>2. QED
    BY <1>1, <2>1
<1>6. QED
  BY <1>3, <1>4, <1>5

\* The same after a step, of the configuration the bean then has.
LEMMA KeptNext ==
  ASSUME NEW c, bean'.config = c, job' # None, job'.fires = c.fires, job'.strategy = c.strategy,
         status' = "under-maintenance" =>
           \E f \in c.fires : f <= clock' /\ timer' <= f + c.dur /\ ~Forgotten(c, f)',
         \A f \in c.fires :
           Covers(f, c.dur)' /\ ~Forgotten(c, f)' /\ ~(job'.due /\ f = clock') /\ ~Ended(c)' =>
             /\ status' = "under-maintenance"
             /\ timer' >= f + c.dur \/ (c.until # None /\ timer' >= c.until)
  PROVE  KeptFor(bean.config)'
BY DEF KeptFor, Forgotten, Covers, Ended

LEMMA KeptStep ==
  ASSUME WindowAssumption
  PROVE  WindowInv /\ OneAtATime /\ OneAtATime' /\ [Next]_vars => (Steady' => KeptFor(bean.config)')
<1> SUFFICES ASSUME TypeOK, ZoneHasNoJob, ZoneIsCurrent, RowFollows, WindowIsKept,
                    OneAtATime, OneAtATime', [Next]_vars, Steady'
             PROVE  KeptFor(bean.config)'
  BY DEF WindowInv, RowInv, JobInv
<1>0. task \in [Tasks -> Steps] /\ Handlers \subseteq Tasks /\ Idle.step = "idle"
      /\ strays = {} /\ \A t \in Tasks : task'[t] = Idle
  BY DEF TypeOK, Tasks, Idle, ZoneHasNoJob, Steady
<1>k. Steady => KeptFor(bean.config)
  BY DEF WindowIsKept
<1>1. ASSUME NEW h \in Handlers, NEW x \in {"insert", "run", "stop", "delete"},
             task' = [task EXCEPT ![h] = [step |-> x]]
      PROVE  FALSE
  <2>1. task'[h].step = x
    BY <1>0, <1>1
  <2>2. QED
    BY <1>0, <2>1
<1>2. ASSUME NEW h \in Handlers, NEW c \in Configs, NEW a \in BOOLEAN, Add(h, c, a) \/ Edit(h, c, a)
      PROVE  FALSE
  BY <1>1, <1>2 DEF Add, Edit, Change, Await
<1>3. ASSUME NEW h \in Handlers, Pause(h) \/ Resume(h) \/ Delete(h) PROVE FALSE
  BY <1>1, <1>3 DEF Pause, Resume, Delete, Change, Await
<1>4. ASSUME NEW h \in Handlers, NEW c \in Refused, NEW a \in BOOLEAN, EditRefused(h, c, a)
      PROVE  FALSE
  <2>1. listed /\ bean' = [bean EXCEPT !.config = c, !.active = a]
    BY <1>4 DEF EditRefused
  <2>2. bean'.config = c /\ c \notin Configs
    BY <2>1, Kinds DEF TypeOK, Beans
  <2>3. QED
    BY <2>2 DEF Steady
<1>5. ASSUME NEW h \in Handlers, Inserted(h) \/ (Stored(h) /\ task[h].step = "run") PROVE FALSE
  <2>1. h \in Tasks /\ bean # None /\ RunBegins(h, bean) /\ bean' = bean
    BY <1>0, <1>5 DEF Inserted, Stored, TypeOK
  <2>2. Recurs(bean.config)
    BY <2>1 DEF Steady
  <2>3. task'[h].step = "zone"
    BY <2>1, <2>2, RunTypes
  <2>4. QED
    BY <1>0, <2>1, <2>3
<1>6. ASSUME NEW h \in Handlers, Stored(h) /\ task[h].step = "stop" PROVE FALSE
  <2>1. bean' = bean
    BY <1>6 DEF Stored
  <2>2. QED
    BY <1>0, <1>6, <2>1 DEF Steady, ZoneIsCurrent
<1>7. ASSUME NEW h \in Handlers, Deleted(h) PROVE FALSE
  <2>1. task[h].step = "delete" /\ listed' = listed
    BY <1>7 DEF Deleted, volatile
  <2>2. QED
    BY <1>0, <2>1 DEF RowFollows, Steady
<1>8. ASSUME NEW t \in Tasks, NoJob(t) PROVE FALSE
  <2>1. task[t].step = "zone" /\ task[t].fires = None /\ bean' = bean
    BY <1>8 DEF NoJob, volatile
  <2>2. bean.config \in Configs
    BY <2>1 DEF Steady
  <2>3. QED
    BY <2>1, <2>2, Kinds DEF ZoneIsCurrent
<1>9. ASSUME NEW t \in Tasks, ZoneKnown(t) PROVE KeptFor(bean.config)'
  <2>1. PICK c : c = bean.config
    OBVIOUS
  <2>2. /\ task[t].step = "zone" /\ bean'.config = c /\ c \in Configs /\ clock' = clock
        /\ task[t].fires = c.fires /\ task[t].strategy = c.strategy /\ task[t].current = clock
        /\ status = "scheduled"
    BY <1>9, <2>1, TakenUp DEF Steady, ZoneIsCurrent, ZoneHasNoJob
  <2> DEFINE running == RunningTimeslot(c.fires, c.dur)
  <2>3. /\ job' # None /\ job'.fires = c.fires /\ job'.strategy = c.strategy /\ job'.current = clock
        /\ \/ running = {} /\ status' = status
           \/ status' = "under-maintenance" /\ \E f \in running : timer' = f + c.dur
    BY <1>9, <2>1, <2>2, TakenUp
  <2>4. c.dur \in Nat /\ c.fires \subseteq Nat
    BY <2>2, Numbers
  <2>5. /\ \A f \in running : f \in c.fires /\ f <= clock /\ ~Forgotten(c, f)'
        /\ \A f \in c.fires, e \in running : Covers(f, c.dur) /\ ~Forgotten(c, f)' => f = e
        /\ \A f \in c.fires : Covers(f, c.dur) /\ ~Forgotten(c, f)' => f \in running
    BY <2>2, <2>3, TakesFirst
  <2>6. \A f \in c.fires : Covers(f, c.dur)' <=> Covers(f, c.dur)
    BY <2>2 DEF Covers
  <2> HIDE DEF running
  <2>7. status' = "under-maintenance" => \E f \in c.fires : f <= clock' /\ timer' <= f + c.dur /\ ~Forgotten(c, f)'
    <3>1. SUFFICES ASSUME status' = "under-maintenance"
                   PROVE  \E f \in c.fires : f <= clock' /\ timer' <= f + c.dur /\ ~Forgotten(c, f)'
      OBVIOUS
    <3>2. PICK e \in running : timer' = e + c.dur
      BY <2>2, <2>3, <3>1
    <3>3. e \in c.fires /\ e <= clock' /\ ~Forgotten(c, e)' /\ timer' <= e + c.dur
      BY <2>2, <2>4, <2>5, <3>2
    <3>4. QED
      BY <3>3
  <2>8. ASSUME NEW f \in c.fires, Covers(f, c.dur)', ~Forgotten(c, f)'
        PROVE  status' = "under-maintenance" /\ timer' >= f + c.dur
    <3>1. f \in running
      BY <2>5, <2>6, <2>8
    <3>2. PICK e \in running : status' = "under-maintenance" /\ timer' = e + c.dur
      BY <2>3, <3>1
    <3>3. f = e
      BY <2>5, <2>6, <2>8, <3>2
    <3>4. QED
      BY <2>4, <3>2, <3>3
  <2>9. QED
    BY <2>2, <2>3, <2>7, <2>8, KeptNext
<1>10. ASSUME NEW j \in Jobs, CronFires(j) PROVE KeptFor(bean.config)'
  <2>1. PICK c : c = bean.config
    OBVIOUS
  <2>2. /\ j = job /\ job # None /\ job.due /\ job' # None /\ job'.fires = job.fires
        /\ job'.strategy = job.strategy /\ job'.current = job.current
        /\ clock' = clock /\ task' = task /\ bean'.config = c /\ bean'.active = bean.active
        /\ listed' = listed
    BY <1>0, <1>10, <2>1, JobFires
  <2>3. Steady /\ c \in Configs
    BY <1>0, <2>1, <2>2 DEF Steady
  <2>4. /\ job.fires = c.fires /\ job.strategy = c.strategy /\ clock \in c.fires /\ job.current < clock
    BY <1>k, <2>1, <2>2, <2>3 DEF KeptFor, WindowIsKept
  <2>5. IntervalPassed(j)
    BY <2>1, <2>2, <2>3, <2>4 DEF IntervalPassed, Steady
  <2>6. status' = "under-maintenance" /\ timer' = EndOfWindow(c)
    BY <1>0, <1>10, <2>1, <2>5, JobFires
  <2>7. /\ clock \in Nat /\ c.dur \in Nat /\ c.fires \subseteq Nat /\ job.current \in Nat
        /\ timer' \in Nat /\ timer' <= clock + c.dur
        /\ timer' = clock + c.dur \/ (c.until # None /\ timer' >= c.until)
    BY <2>2, <2>3, <2>6, Numbers, EndsInTime
  <2>8. ~Forgotten(c, clock)'
    <3>1. ~(clock <= job'.current)
      BY <2>2, <2>4, <2>7
    <3>2. QED
      BY <2>2, <3>1 DEF Forgotten
  <2>9. clock <= clock' /\ timer' <= clock + c.dur
    BY <2>2, <2>7
  <2>10. ASSUME NEW f \in c.fires, Covers(f, c.dur)'
         PROVE  timer' >= f + c.dur \/ (c.until # None /\ timer' >= c.until)
    <3>1. f <= clock /\ f \in Nat
      BY <2>2, <2>7, <2>10 DEF Covers
    <3>2. QED
      BY <2>7, <3>1
  <2>11. \E f \in c.fires : f <= clock' /\ timer' <= f + c.dur /\ ~Forgotten(c, f)'
    <3>1. PICK e \in c.fires : e = clock
      BY <2>4
    <3>2. QED
      BY <2>2, <2>8, <2>9, <3>1 DEF Forgotten
  <2>12. QED
    BY <2>2, <2>4, <2>6, <2>10, <2>11, KeptNext
<1>11. CASE TimerFires
  <2>1. PICK c : c = bean.config
    OBVIOUS
  <2>2. timer \in Nat /\ timer <= clock /\ status' = "scheduled"
        /\ UNCHANGED <<clock, listed, bean, job, task>>
    BY <1>11 DEF TimerFires, TypeOK, WindowAssumption
  <2>3. Steady /\ c \in Configs
    BY <1>0, <2>1, <2>2 DEF Steady
  <2>4. KeptFor(c)
    BY <1>k, <2>1, <2>3
  <2>5. ASSUME NEW f \in c.fires, Covers(f, c.dur)', ~Forgotten(c, f)', ~(job'.due /\ f = clock'), ~Ended(c)'
        PROVE  FALSE
    <3>1. Covers(f, c.dur) /\ ~Forgotten(c, f) /\ ~(job.due /\ f = clock) /\ ~Ended(c)
      BY <2>2, <2>5 DEF Covers, Forgotten, Ended
    <3>2. timer >= f + c.dur \/ (c.until # None /\ timer >= c.until)
      BY <2>4, <3>1 DEF KeptFor
    <3>3. clock \in Nat /\ f \in Nat /\ c.dur \in Nat /\ c.until \in Nat \cup {None}
      BY <2>3, Numbers
    <3>4. clock < f + c.dur /\ (c.until # None => ~(clock >= c.until))
      BY <3>1 DEF Covers, Ended
    <3>5. QED
      BY <2>2, <3>2, <3>3, <3>4
  <2>6. /\ status' # "under-maintenance" /\ bean'.config = c /\ job' = job
        /\ job # None /\ job.fires = c.fires /\ job.strategy = c.strategy
    BY <2>1, <2>2, <2>4 DEF KeptFor
  <2>7. QED
    BY <2>5, <2>6, KeptNext
<1>12. CASE Tick
  <2>1. PICK c : c = bean.config
    OBVIOUS
  <2>2. /\ clock' = clock + 1 /\ UNCHANGED <<listed, bean, status, timer, task>>
        /\ job # None => ~job.due
        /\ job # None => job' = [job EXCEPT !.due = (clock + 1) \in job.fires]
    BY <1>12 DEF Tick, Quiet, Jobs
  <2>3. Steady /\ c \in Configs
    BY <1>0, <2>1, <2>2 DEF Steady
  <2>4. KeptFor(c) /\ job # None /\ job \in Crons /\ job.fires = c.fires /\ job.strategy = c.strategy
    BY <1>k, <2>1, <2>3 DEF KeptFor, TypeOK
  <2>5. /\ job' \in Crons /\ job'.fires = c.fires /\ job'.strategy = c.strategy
        /\ job'.due = (clock' \in c.fires) /\ job'.current = job.current
    <3> DEFINE d == (clock + 1) \in job.fires
    <3>1. d \in BOOLEAN /\ job' = [job EXCEPT !.due = d]
      BY <2>2, <2>4
    <3>2. d = (clock' \in c.fires)
      BY <2>2, <2>4
    <3> HIDE DEF d
    <3>3. /\ job' \in Crons /\ job'.fires = job.fires /\ job'.strategy = job.strategy
          /\ job'.due = d /\ job'.current = job.current
      BY <2>4, <3>1, FallsDue
    <3>4. QED
      BY <2>4, <3>2, <3>3
  <2>6. job' # None
    BY <2>5 DEF WindowAssumption
  <2>7. \A f : Forgotten(c, f)' = Forgotten(c, f)
    BY <2>4, <2>5, <2>6, ForgottenSame
  <2>8. clock \in Nat /\ c.dur \in Nat /\ c.fires \subseteq Nat /\ c.until \in Nat \cup {None}
    BY <2>3, Numbers
  <2>9. ASSUME status' = "under-maintenance"
        PROVE  \E f \in c.fires : f <= clock' /\ timer' <= f + c.dur /\ ~Forgotten(c, f)'
    <3>1. PICK f \in c.fires : f <= clock /\ timer <= f + c.dur /\ ~Forgotten(c, f)
      BY <2>2, <2>4, <2>9 DEF KeptFor
    <3>2. f <= clock' /\ timer' <= f + c.dur
      BY <2>2, <2>8, <3>1
    <3>3. QED
      BY <2>7, <3>1, <3>2
  <2>10. ASSUME NEW f \in c.fires, Covers(f, c.dur)', ~Forgotten(c, f)', ~(job'.due /\ f = clock'), ~Ended(c)'
         PROVE  status' = "under-maintenance" /\ (timer' >= f + c.dur \/ (c.until # None /\ timer' >= c.until))
    <3>1. f # clock'
      BY <2>5, <2>10
    <3>2. f <= clock + 1 /\ clock + 1 < f + c.dur
      BY <2>2, <2>10 DEF Covers
    <3>3. Covers(f, c.dur)
      BY <2>2, <2>8, <3>1, <3>2 DEF Covers
    <3>4. ~Ended(c)
      <4>1. c.until # None => ~(clock + 1 >= c.until)
        BY <2>2, <2>10 DEF Ended
      <4>2. QED
        BY <2>8, <4>1 DEF Ended
    <3>5. status = "under-maintenance" /\ (timer >= f + c.dur \/ (c.until # None /\ timer >= c.until))
      BY <2>2, <2>4, <2>7, <2>10, <3>3, <3>4 DEF KeptFor
    <3>6. QED
      BY <2>2, <3>5
  <2>11. bean'.config = c
    BY <2>1, <2>2
  <2>12. QED
    BY <2>5, <2>6, <2>9, <2>10, <2>11, KeptNext
<1>13. CASE Crash
  <2>1. row # None /\ bean' = row /\ Recurs(bean'.config)
    BY <1>13, Restarted DEF Steady
  <2>2. task'["boot"] # Idle /\ "boot" \in Tasks
    BY <1>13, <2>1, Restarted DEF Tasks
  <2>3. QED
    BY <1>0, <2>2
<1>14. CASE UNCHANGED vars
  BY <1>k, <1>14 DEF vars, volatile, KeptFor, Steady, Covers, Forgotten, Ended
<1>15. ASSUME NEW h \in Handlers, Stored(h) PROVE FALSE
  BY <1>5, <1>6, <1>15 DEF Stored
<1>16. QED
  BY <1>2, <1>3, <1>4, <1>5, <1>7, <1>8, <1>9, <1>10, <1>11, <1>12, <1>13, <1>14, <1>15 DEF Next

\* During its windows and at no other time a maintenance is in effect, whatever edits, refused
\* ones among them, pauses and restarts fall before or into a window, as long as no two requests
\* work on it at the same time: for every pattern and every duration, where a window is lost only
\* if run() came when it and an earlier one that it overlaps had both begun.
THEOREM InEffectHolds ==
  ASSUME WindowAssumption PROVE Spec /\ []OneAtATime => []InEffect
<1>1. Init => WindowInv
  BY WindowInit
<1>2. WindowInv /\ OneAtATime /\ OneAtATime' /\ [Next]_vars => WindowInv'
  <2> SUFFICES ASSUME WindowInv, OneAtATime, OneAtATime', [Next]_vars PROVE WindowInv'
    OBVIOUS
  <2>1. RowInv'
    BY RowStep, JobStep, TypeStep DEF WindowInv, RowInv, JobInv
  <2>2. WindowIsKept'
    <3>1. Steady' => KeptFor(bean.config)'
      BY KeptStep
    <3>2. /\ status' = "under-maintenance" => timer' # None
          /\ job' # None /\ job'.due => clock' \in job'.fires /\ job'.current < clock'
      BY TimerStep
    <3>3. QED
      BY <3>1, <3>2 DEF WindowIsKept
  <2>3. QED
    BY <2>1, <2>2, ZoneStep DEF WindowInv
<1>3. WindowInv => InEffect
  <2> DEFINE InWindow(d) == \E f \in d.fires : Covers(f, d.dur) /\ ~Forgotten(d, f)
  <2> SUFFICES ASSUME WindowInv, Quiet, listed, bean.config \notin Refused,
                      bean.config.strategy = "recurring-interval" => IntervalDay = 1,
                      NEW c, c = bean.config
               PROVE  getStatus = "under-maintenance" <=>
                        /\ bean.active
                        /\ \/ c.strategy = "manual"
                           \/ /\ c.from # None => clock >= c.from
                              /\ c.until # None => clock < c.until
                              /\ c.strategy = "single" \/ InWindow(c)
    BY DEF InEffect
  <2> HIDE DEF InWindow
  <2>1. TypeOK /\ bean \in Beans /\ c \in Configs
    BY DEF WindowInv, RowInv, JobInv, TypeOK, Beans
  <2>2. /\ clock \in Nat /\ c.from \in Nat \cup {None} /\ c.until \in Nat \cup {None}
        /\ None \notin Nat /\ c.strategy \in Strategies
    BY <2>1, Kinds DEF TypeOK, Dates, WindowAssumption
  <2>3. CASE ~bean.active \/ c.strategy \in {"manual", "single"}
    BY <2>2, <2>3 DEF getStatus
  <2>4. ASSUME bean.active, Recurs(c), ~(c.from # None /\ clock < c.from), ~Ended(c)
        PROVE  status = "under-maintenance" <=> InWindow(c)
    <3>1. Steady
      BY <2>1, <2>4 DEF Steady, Quiet
    <3>2. KeptFor(c) /\ job # None /\ (status = "under-maintenance" => timer # None)
      BY <3>1 DEF WindowInv, WindowIsKept, KeptFor
    <3>3. ~job.due /\ (timer # None => timer > clock /\ timer \in Nat)
      BY <2>1, <3>2 DEF Quiet, Jobs, TypeOK
    <3>4. c.dur \in Nat /\ c.fires \subseteq Nat
      BY <2>1, Numbers
    <3>5. ASSUME status = "under-maintenance" PROVE InWindow(c)
      <4>1. PICK f \in c.fires : f <= clock /\ timer <= f + c.dur /\ ~Forgotten(c, f)
        BY <3>2, <3>5 DEF KeptFor
      <4>2. Covers(f, c.dur)
        BY <2>2, <3>2, <3>3, <3>4, <3>5, <4>1 DEF Covers
      <4>3. QED
        BY <4>1, <4>2 DEF InWindow
    <3>6. ASSUME InWindow(c) PROVE status = "under-maintenance"
      BY <2>4, <3>2, <3>3, <3>6 DEF InWindow, KeptFor
    <3>7. QED
      BY <3>5, <3>6
  <2>5. CASE bean.active /\ Recurs(c)
    <3>1. c.strategy \notin {"manual", "single"}
      BY <2>5 DEF Recurs
    <3>2. (status = None => status # "under-maintenance")
      BY DEF WindowAssumption
    <3>3. CASE c.from # None /\ clock < c.from
      BY <2>2, <2>5, <3>1, <3>3 DEF getStatus
    <3>4. CASE ~(c.from # None /\ clock < c.from) /\ Ended(c)
      BY <2>2, <2>5, <3>1, <3>4 DEF getStatus, Ended
    <3>5. CASE ~(c.from # None /\ clock < c.from) /\ ~Ended(c)
      <4>1. (getStatus = "under-maintenance") = (status = "under-maintenance")
        BY <2>5, <3>1, <3>2, <3>5 DEF getStatus, Ended
      <4>2. (c.from # None => clock >= c.from) /\ (c.until # None => clock < c.until)
        BY <2>2, <3>5 DEF Ended
      <4>3. QED
        BY <2>4, <2>5, <3>1, <3>5, <4>1, <4>2
    <3>6. QED
      BY <3>3, <3>4, <3>5
  <2>6. QED
    BY <2>2, <2>3, <2>5 DEF Recurs, Strategies
<1>4. QED
  BY <1>1, <1>2, <1>3, PTL DEF Spec

\* Where the windows of a maintenance do not overlap, none is ever lost.
LEMMA SeparateWindows ==
  ASSUME WindowAssumption, TypeOK, NEW c \in Configs,
         \A f, g \in c.fires : g < f => g + c.dur <= f
  PROVE  \A f \in c.fires : ~Forgotten(c, f)
<1> SUFFICES ASSUME NEW f \in c.fires, Forgotten(c, f) PROVE FALSE
  OBVIOUS
<1>1. PICK g \in c.fires : job # None /\ f <= job.current /\ g < f /\ job.current < g + c.dur
  BY DEF Forgotten
<1>2. g + c.dur <= f
  BY <1>1
<1>3. f \in Nat /\ g \in Nat /\ c.dur \in Nat /\ job.current \in Nat
  BY <1>1, Numbers
<1>4. QED
  BY <1>1, <1>2, <1>3

\* The three together: whatever edits, pauses, deletions and restarts a maintenance goes through, as
\* long as no two requests work on it at the same time.
THEOREM SoundHolds ==
  ASSUME WindowAssumption PROVE Spec /\ []OneAtATime => []MaintenanceIsSound
<1>1. InEffect /\ RowMatchesBean /\ NoStrayJob => MaintenanceIsSound
  BY DEF MaintenanceIsSound
<1>2. QED
  BY <1>1, InEffectHolds, RowMatchesBeanHolds, NoStrayJobHolds, PTL

\* With one request at a time from outside, no two are at work in here either: none begins
\* before the boot is done.
BootAlone == \A h \in Handlers : h # "boot" /\ task["boot"] # Idle => task[h] = Idle

THEOREM OneRequestAtATime ==
  ASSUME WindowAssumption, \A g, h \in Handlers : g = h
  PROVE  Spec => []OneAtATime
<1>1. Init => TypeOK /\ BootAlone
  BY TypeInit DEF Init, BootAlone, Tasks
<1>2. TypeOK /\ BootAlone /\ [Next]_vars => TypeOK' /\ BootAlone'
  <2> SUFFICES ASSUME TypeOK, BootAlone, [Next]_vars PROVE BootAlone'
    BY TypeStep
  <2>0. task \in [Tasks -> Steps] /\ "boot" \in Tasks /\ Idle.step = "idle"
        /\ \A t \in Tasks : t \in Handlers \/ t = "boot"
    BY DEF TypeOK, Tasks, Idle
  <2>1. ASSUME NEW h \in Handlers, h = "boot" \/ task["boot"] = Idle,
               \E x : task' = [task EXCEPT ![h] = x]
        PROVE  BootAlone'
    BY <2>0, <2>1 DEF BootAlone
  <2>2. ASSUME NEW t \in Tasks, task' = [task EXCEPT ![t] = Idle] PROVE BootAlone'
    BY <2>0, <2>2 DEF BootAlone
  <2>3. ASSUME NEW h \in Handlers, NEW c \in Configs, NEW a \in BOOLEAN, Add(h, c, a) \/ Edit(h, c, a)
        PROVE  BootAlone'
    BY <2>1, <2>3 DEF Add, Edit, Change, Begin, Await
  <2>4. ASSUME NEW h \in Handlers, Pause(h) \/ Resume(h) \/ Delete(h) PROVE BootAlone'
    BY <2>1, <2>4 DEF Pause, Resume, Delete, Change, Begin, Await
  <2>5. ASSUME NEW h \in Handlers, Inserted(h) \/ Stored(h) PROVE BootAlone'
    <3>1. h = "boot" \/ task["boot"] = Idle
      BY <2>0, <2>5 DEF Inserted, Stored, BootAlone
    <3>2. \E x : task' = [task EXCEPT ![h] = x]
      BY <2>5 DEF Inserted, Stored, RunBegins, Await
    <3>3. QED
      BY <2>1, <3>1, <3>2
  <2>6. ASSUME NEW t \in Tasks, Deleted(t) \/ NoJob(t) \/ ZoneKnown(t) PROVE BootAlone'
    BY <2>2, <2>6 DEF Deleted, NoJob, ZoneKnown, Await
  <2>7. ASSUME task' = task PROVE BootAlone'
    BY <2>7 DEF BootAlone
  <2>8. CASE Crash
    BY <2>8, Restarted DEF BootAlone, Tasks
  <2>9. ASSUME NEW h \in Handlers, NEW c \in Refused, NEW a \in BOOLEAN, EditRefused(h, c, a)
        PROVE  task' = task
    BY <2>9 DEF EditRefused
  <2>10. ASSUME TimerFires \/ Tick \/ (\E j \in Jobs : CronFires(j)) \/ UNCHANGED vars PROVE task' = task
    BY <2>10 DEF TimerFires, Tick, CronFires, vars
  <2>11. ASSUME NEW h \in Handlers, Deleted(h) PROVE h \in Tasks
    BY DEF Tasks
  <2>12. QED
    BY <2>3, <2>4, <2>5, <2>6, <2>7, <2>8, <2>9, <2>10, <2>11 DEF Next
<1>3. BootAlone => OneAtATime
  <2> SUFFICES ASSUME BootAlone, NEW s \in Tasks, NEW t \in Tasks, task[s] # Idle, task[t] # Idle, s # t
               PROVE  FALSE
    BY DEF OneAtATime
  <2>1. (s \in Handlers /\ t = "boot") \/ (t \in Handlers /\ s = "boot")
    BY DEF Tasks
  <2>2. QED
    BY <2>1 DEF BootAlone
<1>4. QED
  BY <1>1, <1>2, <1>3, PTL DEF Spec
===============================================================================
