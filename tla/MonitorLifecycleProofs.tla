------------------------ MODULE MonitorLifecycleProofs ------------------------
(* Type correctness of MonitorLifecycle and its safety invariants, for every  *)
(* set of monitors and handlers and every bound: one instance beats for a     *)
(* monitor, none for one that is paused or gone, an active one is watched,    *)
(* with the configuration that is stored.                                     *)
EXTENDS MonitorLifecycle, TLAPS

\* Monitor.stop() keeps the types of what it writes.
LEMMA StopTypes ==
  ASSUME NEW i, phase \in [Instances -> Phases], isStop \in [Instances -> BOOLEAN]
  PROVE  /\ PhaseAfterStop(i) \in [Instances -> Phases]
         /\ IsStopAfterStop(i) \in [Instances -> BOOLEAN]
BY DEF PhaseAfterStop, IsStopAfterStop, Phases

\* An instance is a monitor and a number.
LEMMA InstanceParts ==
  ASSUME NEW i \in Instances
  PROVE  i[1] \in Monitors /\ i[2] \in 0..MaxInst /\ i = <<i[1], i[2]>>
BY DEF Instances

LEMMA InstanceMake ==
  ASSUME NEW m \in Monitors, NEW k \in 0..MaxInst
  PROVE  <<m, k>> \in Instances
BY DEF Instances

\* None is no instance, so stop() of nothing changes nothing.
LEMMA NoneIsNoInstance == None \notin Instances
BY NoneAssumption, BoundAssumption DEF Instances

\* What a fresh process knows is well typed.
LEMMA ColdTypes ==
  /\ Cold.monitorList \in [Monitors -> Instances \cup {None}]
  /\ Cold.phase \in [Instances -> Phases]
  /\ Cold.isStop \in [Instances -> BOOLEAN]
  /\ Cold.snapshot \in [Instances -> 0..MaxEdits]
  /\ Cold.made \in [Monitors -> 0..MaxInst]
  /\ Cold.pc \in [Handlers -> {"idle"} \cup Querying \cup Delivered]
  /\ Cold.target \in [Handlers -> Monitors \cup {None}]
  /\ Cold.wasActive \in [Handlers -> BOOLEAN]
  /\ Cold.held \in [Handlers -> Instances \cup {None}]
  /\ \A h \in Handlers : Cold.pc[h] = "idle"
  /\ \A m \in Monitors : Cold.monitorList[m] = None
  /\ \A i \in Instances : Cold.phase[i] = "none" /\ ~Cold.isStop[i]
BY BoundAssumption DEF Cold, Phases

\* Return(h) keeps the types of the handler variables.
LEMMA ReturnTypes ==
  ASSUME TypeOK, NEW h \in Handlers, Return(h)
  PROVE  /\ pc' \in [Handlers -> {"idle"} \cup Querying \cup Delivered]
         /\ target' \in [Handlers -> Monitors \cup {None}]
         /\ wasActive' \in [Handlers -> BOOLEAN]
         /\ held' \in [Handlers -> Instances \cup {None}]
         /\ \A g \in Handlers : pc'[g] # "idle" => target'[g] \in Monitors
         /\ \A g \in Handlers : pc'[g] = "register" =>
               held'[g] \in Instances /\ held'[g][1] = target'[g]
         /\ \A g \in Handlers : pc'[g] = IF g = h THEN "idle" ELSE pc[g]
BY DEF TypeOK, Return

\* Goto(h, step) keeps them too, when step is not "register".
LEMMA GotoTypes ==
  ASSUME TypeOK, NEW h \in Handlers, pc[h] # "idle", UNCHANGED <<target, wasActive, held>>,
         NEW step \in Querying \cup {"stop", "unregister"}, Goto(h, step)
  PROVE  /\ pc' \in [Handlers -> {"idle"} \cup Querying \cup Delivered]
         /\ target' \in [Handlers -> Monitors \cup {None}]
         /\ wasActive' \in [Handlers -> BOOLEAN]
         /\ held' \in [Handlers -> Instances \cup {None}]
         /\ \A g \in Handlers : pc'[g] # "idle" => target'[g] \in Monitors
         /\ \A g \in Handlers : pc'[g] = "register" =>
               held'[g] \in Instances /\ held'[g][1] = target'[g]
BY DEF TypeOK, Goto, Querying, Delivered

-------------------------------------------------------------------------------
(* Type correctness.                                                          *)

\* Every action preserves TypeOK, which says among other things that a handler
\* about to register holds an instance of its own monitor.
LEMMA TypeStep == TypeOK /\ [Next]_vars => TypeOK'
<1> SUFFICES ASSUME TypeOK, [Next]_vars PROVE TypeOK'
  OBVIOUS
<1>1. ASSUME BootRead PROVE TypeOK'
  BY <1>1, InstanceParts DEF TypeOK, BootRead, dbVars, hVars, Phases
<1>2. ASSUME BootRegister PROVE TypeOK'
  <2>1. \A m \in Monitors : <<m, 0>> \in Instances
    BY InstanceMake, BoundAssumption
  <2>2. monitorList' \in [Monitors -> Instances \cup {None}]
    BY <1>2, <2>1 DEF TypeOK, BootRegister
  <2>3. \A m \in Monitors : monitorList'[m] # None => monitorList'[m][1] = m
    BY <1>2, <2>1 DEF TypeOK, BootRegister
  <2>4. phase' \in [Instances -> Phases]
    BY <1>2 DEF TypeOK, BootRegister, Phases
  <2>5. QED
    BY <1>2, <2>2, <2>3, <2>4 DEF TypeOK, BootRegister, dbVars, hVars
<1>3. ASSUME NEW m \in Monitors, BootStart(m) PROVE TypeOK'
  BY <1>3 DEF TypeOK, BootStart, dbVars, hVars, Phases
<1>4. ASSUME NEW i \in Instances, InstanceStep(i) PROVE TypeOK'
  BY <1>4 DEF TypeOK, InstanceStep, TagsLoaded, TimerFires, BeatEnds, PushInTime,
              dbVars, hVars, Phases
<1>5. ASSUME NEW h \in Handlers, User(h) PROVE TypeOK'
  <2>1. PICK m \in Monitors, first \in Querying : Begin(h, m, first)
    BY <1>5 DEF User, BeginAdd, BeginEdit, BeginResume, BeginPause, BeginDelete, Querying
  <2>2. QED
    BY <2>1 DEF TypeOK, Begin, Goto, dbVars, instVars, Querying, Delivered
<1>6. ASSUME NEW h \in Handlers, HandlerStep(h) PROVE TypeOK'
  <2>1. CASE CheckOwner(h)
    BY <2>1, ReturnTypes, GotoTypes DEF CheckOwner, TypeOK, dbVars, instVars, Querying
  <2>2. CASE SetActive(h)
    <3>1. row' \in [Monitors -> {"absent", "active", "paused", "gone"}]
      BY <2>2 DEF SetActive, TypeOK, Exists
    <3>2. QED
      BY <2>2, <3>1, GotoTypes DEF SetActive, TypeOK, instVars, Querying
  <2>3. CASE FindMonitor(h)
    <3>1. CASE ~Exists(target[h]) /\ Return(h)
      BY <2>3, <3>1, ReturnTypes DEF FindMonitor, TypeOK, dbVars, instVars
    <3>2. CASE Exists(target[h]) /\ made[target[h]] < MaxInst
      <4> DEFINE m == target[h]
                 i == <<m, made[m] + 1>>
      <4>1. m \in Monitors
        BY <2>3 DEF TypeOK, FindMonitor
      <4>2. made[m] + 1 \in 0..MaxInst
        BY <3>2, <4>1, BoundAssumption DEF TypeOK
      <4>3. i \in Instances /\ i[1] = m
        BY <4>1, <4>2, InstanceMake
      <4>4. /\ made' = [made EXCEPT ![m] = @ + 1]
            /\ phase' = [phase EXCEPT ![i] = "loaded"]
            /\ snapshot' = [snapshot EXCEPT ![i] = config[m]]
            /\ held' = [held EXCEPT ![h] = i]
            /\ pc' = [pc EXCEPT ![h] = "register"]
            /\ UNCHANGED <<isStop, target, wasActive, dbVars, monitorList, boot, crashes>>
        BY <2>3, <3>2 DEF FindMonitor, Goto
      <4>5. made' \in [Monitors -> 0..MaxInst]
        BY <4>1, <4>2, <4>4 DEF TypeOK
      <4>6. phase' \in [Instances -> Phases] /\ snapshot' \in [Instances -> 0..MaxEdits]
        BY <4>1, <4>4 DEF TypeOK, Phases
      <4>7. /\ held' \in [Handlers -> Instances \cup {None}]
            /\ pc' \in [Handlers -> {"idle"} \cup Querying \cup Delivered]
        BY <4>3, <4>4 DEF TypeOK, Delivered
      <4>8. \A g \in Handlers : pc'[g] # "idle" => target'[g] \in Monitors
        BY <4>1, <4>4 DEF TypeOK
      <4>9. \A g \in Handlers : pc'[g] = "register" =>
               held'[g] \in Instances /\ held'[g][1] = target'[g]
        BY <4>3, <4>4 DEF TypeOK
      <4>10. QED
        BY <4>4, <4>5, <4>6, <4>7, <4>8, <4>9 DEF TypeOK, dbVars
    <3>3. QED
      BY <2>3, <3>1, <3>2 DEF FindMonitor
  <2>4. CASE Register(h)
    <3>1. target[h] \in Monitors /\ held[h] \in Instances /\ held[h][1] = target[h]
      BY <2>4 DEF Register, TypeOK
    <3>2. /\ phase' \in [Instances -> Phases]
          /\ isStop' \in [Instances -> BOOLEAN]
      BY <2>4, StopTypes DEF Register, TypeOK, Phases
    <3>3. /\ monitorList' \in [Monitors -> Instances \cup {None}]
          /\ \A m \in Monitors : monitorList'[m] # None => monitorList'[m][1] = m
      BY <2>4, <3>1 DEF Register, TypeOK
    <3>4. QED
      BY <2>4, <3>2, <3>3, ReturnTypes DEF Register, TypeOK, dbVars
  <2>5. CASE SetPaused(h)
    <3>1. row' \in [Monitors -> {"absent", "active", "paused", "gone"}]
      BY <2>5 DEF SetPaused, TypeOK, Exists
    <3>2. QED
      BY <2>5, <3>1, GotoTypes DEF SetPaused, TypeOK, instVars, Querying
  <2>6. CASE StopRegistered(h)
    BY <2>6, ReturnTypes, StopTypes DEF StopRegistered, TypeOK, dbVars
  <2>7. CASE InsertRow(h)
    <3>1. row' \in [Monitors -> {"absent", "active", "paused", "gone"}]
      BY <2>7 DEF InsertRow, TypeOK
    <3>2. QED
      BY <2>7, <3>1, ReturnTypes, GotoTypes DEF InsertRow, TypeOK, instVars, Querying
  <2>8. CASE LoadBean(h)
    <3>1. CASE Return(h)
      BY <2>8, <3>1, ReturnTypes DEF LoadBean, TypeOK, dbVars, instVars
    <3>2. CASE /\ wasActive' = [wasActive EXCEPT ![h] = row[target[h]] = "active"]
               /\ Goto(h, "store") /\ UNCHANGED <<target, held>>
      <4>1. wasActive' \in [Handlers -> BOOLEAN]
        BY <3>2 DEF TypeOK
      <4>2. QED
        BY <2>8, <3>2, <4>1 DEF LoadBean, Goto, TypeOK, dbVars, instVars, Querying
    <3>3. QED
      BY <2>8, <3>1, <3>2 DEF LoadBean
  <2>9. CASE StoreBean(h)
    <3>1. target[h] \in Monitors
      BY <2>9 DEF StoreBean, TypeOK
    <3>2. config' \in [Monitors -> 0..MaxEdits]
      BY <2>9, <3>1, BoundAssumption DEF StoreBean, TypeOK
    <3>3. QED
      BY <2>9, <3>2, GotoTypes DEF StoreBean, TypeOK, instVars, Querying
  <2>10. CASE CheckActive(h)
    BY <2>10, ReturnTypes, GotoTypes DEF CheckActive, TypeOK, dbVars, instVars, Querying
  <2>11. CASE DeleteFind(h)
    BY <2>11, GotoTypes DEF DeleteFind, TypeOK, dbVars, instVars
  <2>12. CASE Unregister(h)
    <3>1. /\ monitorList' \in [Monitors -> Instances \cup {None}]
          /\ \A m \in Monitors : monitorList'[m] # None => monitorList'[m][1] = m
      BY <2>12 DEF Unregister, TypeOK
    <3>2. /\ phase' \in [Instances -> Phases]
          /\ isStop' \in [Instances -> BOOLEAN]
      BY <2>12, StopTypes DEF Unregister, TypeOK
    <3>3. QED
      BY <2>12, <3>1, <3>2, GotoTypes DEF Unregister, TypeOK, dbVars, Querying
  <2>13. CASE DeleteRow(h)
    <3>1. row' \in [Monitors -> {"absent", "active", "paused", "gone"}]
      BY <2>13 DEF DeleteRow, TypeOK
    <3>2. QED
      BY <2>13, <3>1, ReturnTypes DEF DeleteRow, TypeOK, instVars
  <2>14. QED
    BY <1>6, <2>1, <2>2, <2>3, <2>4, <2>5, <2>6, <2>7, <2>8, <2>9, <2>10, <2>11,
       <2>12, <2>13 DEF HandlerStep
<1>7. ASSUME NEW h \in Handlers, QueryFails(h) PROVE TypeOK'
  BY <1>7, ReturnTypes DEF QueryFails, TypeOK, dbVars, instVars
<1>8. ASSUME Crash PROVE TypeOK'
  <2>1. crashes' \in 0..MaxCrash
    BY <1>8, BoundAssumption DEF Crash, TypeOK
  <2>2. QED
    BY <1>8, <2>1, ColdTypes, NoneIsNoInstance DEF Crash, TypeOK, dbVars
<1>9. CASE UNCHANGED vars
  BY <1>9 DEF TypeOK, vars, dbVars, instVars, hVars
<1>10. QED
  BY <1>1, <1>2, <1>3, <1>4, <1>5, <1>6, <1>7, <1>8, <1>9 DEF Next, BootStep

LEMMA TypeInit == Init => TypeOK
BY ColdTypes, BoundAssumption DEF Init, TypeOK

\* The variables of the lifecycle keep their types: in particular every entry of
\* server.monitorList is an instance of the monitor it is filed under.
THEOREM TypeCorrect == Spec => []TypeOK
<1>1. Init => TypeOK
  BY TypeInit
<1>2. TypeOK /\ [Next]_vars => TypeOK'
  BY TypeStep
<1>3. QED
  BY <1>1, <1>2, PTL DEF Spec

-------------------------------------------------------------------------------
(* A live instance is the registered one.                                     *)

\* stop() can reach every instance that will go on beating.
LiveIsRegistered == \A i \in Instances : Live(i) => monitorList[i[1]] = i

\* Until startMonitors has filled monitorList no handler has begun and no
\* instance is scheduled: with EarlyUsers this fails, and LiveIsRegistered with it.
BootFirst ==
  boot # "loop" => /\ \A h \in Handlers : pc[h] = "idle"
                   /\ \A i \in Instances : phase[i] \in {"none", "loaded"}

IInv == TypeOK /\ BootFirst /\ LiveIsRegistered

\* stop() of an instance leaves no live instance but those live before, itself apart.
LEMMA StopLive ==
  ASSUME NEW old, TypeOK, NEW j \in Instances,
         PhaseAfterStop(old)[j] \in Scheduled, ~IsStopAfterStop(old)[j]
  PROVE  Live(j) /\ j # old
BY DEF PhaseAfterStop, IsStopAfterStop, Live, Scheduled, TypeOK

LEMMA OrphanInit == Init => BootFirst /\ LiveIsRegistered
<1> SUFFICES ASSUME Init PROVE BootFirst /\ LiveIsRegistered
  OBVIOUS
<1>1. \A i \in Instances : phase[i] = "none"
  BY ColdTypes DEF Init
<1>2. \A h \in Handlers : pc[h] = "idle"
  BY ColdTypes DEF Init
<1>3. QED
  BY <1>1, <1>2 DEF BootFirst, LiveIsRegistered, Live, Scheduled

\* A step that leaves pc and boot alone, or runs only after boot, keeps BootFirst.
LEMMA BootFirstStep ==
  ASSUME EarlyUsers = FALSE
  PROVE  IInv /\ [Next]_vars => BootFirst'
<1> SUFFICES ASSUME IInv, [Next]_vars PROVE BootFirst'
  OBVIOUS
<1> USE DEF IInv
<1>1. ASSUME BootRead PROVE BootFirst'
  BY <1>1 DEF BootRead, BootFirst, TypeOK, hVars
<1>2. CASE BootRegister
  BY <1>2 DEF BootRegister, BootFirst
<1>3. ASSUME NEW m \in Monitors, BootStart(m) PROVE BootFirst'
  BY <1>3 DEF BootStart, BootFirst
<1>4. ASSUME NEW i \in Instances, InstanceStep(i) PROVE BootFirst'
  <2>1. boot = "loop"
    BY <1>4 DEF InstanceStep, TagsLoaded, TimerFires, BeatEnds, PushInTime, BootFirst
  <2>2. QED
    BY <1>4, <2>1 DEF InstanceStep, TagsLoaded, TimerFires, BeatEnds, PushInTime, BootFirst
<1>5. ASSUME NEW h \in Handlers, User(h) PROVE BootFirst'
  <2>1. PICK m \in Monitors, first \in Querying : Begin(h, m, first)
    BY <1>5 DEF User, BeginAdd, BeginEdit, BeginResume, BeginPause, BeginDelete, Querying
  <2>2. QED
    BY <2>1 DEF Begin, BootFirst
<1>6. ASSUME NEW h \in Handlers, HandlerStep(h) \/ QueryFails(h) PROVE BootFirst'
  <2>1. pc[h] # "idle"
    BY <1>6 DEF HandlerStep, CheckOwner, SetActive, FindMonitor, Register, SetPaused,
       StopRegistered, InsertRow, LoadBean, StoreBean, CheckActive, DeleteFind,
       Unregister, DeleteRow, QueryFails, Querying
  <2>2. boot = "loop"
    BY <2>1 DEF BootFirst
  <2>3. boot' = boot
    BY <1>6 DEF HandlerStep, CheckOwner, SetActive, FindMonitor, Register, SetPaused,
       StopRegistered, InsertRow, LoadBean, StoreBean, CheckActive, DeleteFind,
       Unregister, DeleteRow, QueryFails
  <2>4. QED
    BY <2>2, <2>3 DEF BootFirst
<1>7. CASE Crash
  <2>1. /\ \A h \in Handlers : pc'[h] = "idle"
        /\ \A i \in Instances : phase'[i] = "none"
    BY <1>7, ColdTypes DEF Crash
  <2>2. QED
    BY <2>1 DEF BootFirst
<1>8. CASE UNCHANGED vars
  BY <1>8 DEF BootFirst, vars, hVars, instVars
<1>9. QED
  BY <1>1, <1>2, <1>3, <1>4, <1>5, <1>6, <1>7, <1>8 DEF Next, BootStep

\* A step that schedules no further instance and changes neither monitorList nor
\* isStop keeps LiveIsRegistered.
LEMMA NoNewLive ==
  ASSUME LiveIsRegistered, UNCHANGED <<monitorList, isStop>>,
         \A i \in Instances : phase'[i] \in Scheduled => phase[i] \in Scheduled
  PROVE  LiveIsRegistered'
BY DEF LiveIsRegistered, Live

LEMMA LiveIsRegisteredStep == IInv /\ [Next]_vars => LiveIsRegistered'
<1> SUFFICES ASSUME IInv, [Next]_vars PROVE LiveIsRegistered'
  OBVIOUS
<1> USE DEF IInv
<1>1. CASE BootRead
  BY <1>1, NoNewLive DEF BootRead, TypeOK, Scheduled
<1>2. CASE BootRegister
  <2> SUFFICES ASSUME NEW i \in Instances, Live(i)'
               PROVE  monitorList'[i[1]] = i
    BY DEF LiveIsRegistered
  <2>1. phase[i] \in {"none", "loaded"}
    BY <1>2 DEF BootRegister, BootFirst
  <2>2. i[2] = 0 /\ phase[i] = "loaded"
    BY <1>2, <2>1 DEF BootRegister, TypeOK, Live, Scheduled
  <2>3. i = <<i[1], 0>> /\ i[1] \in Monitors
    BY <2>2, InstanceParts
  <2>4. QED
    BY <1>2, <2>2, <2>3 DEF BootRegister
<1>3. ASSUME NEW m \in Monitors, BootStart(m) PROVE LiveIsRegistered'
  BY <1>3, NoNewLive DEF BootStart, TypeOK, Scheduled
<1>4. ASSUME NEW i \in Instances, InstanceStep(i) PROVE LiveIsRegistered'
  BY <1>4, NoNewLive DEF InstanceStep, TagsLoaded, TimerFires, BeatEnds, PushInTime,
     TypeOK, Scheduled
<1>5. ASSUME NEW h \in Handlers, User(h) PROVE LiveIsRegistered'
  BY <1>5, NoNewLive DEF User, BeginAdd, BeginEdit, BeginResume, BeginPause, BeginDelete,
     Begin, instVars
<1>6. ASSUME NEW h \in Handlers, HandlerStep(h) PROVE LiveIsRegistered'
  <2>1. CASE FindMonitor(h)
    <3>1. \A i \in Instances : phase'[i] \in Scheduled => phase[i] \in Scheduled
      BY <2>1 DEF FindMonitor, TypeOK, Scheduled, instVars
    <3>2. QED
      BY <2>1, <3>1, NoNewLive DEF FindMonitor, instVars
  <2>2. CASE Register(h)
    <3> DEFINE m == target[h]
               new == held[h]
    <3>1. m \in Monitors /\ new \in Instances /\ new[1] = m
      BY <2>2 DEF Register, TypeOK
    <3> SUFFICES ASSUME NEW i \in Instances, Live(i)'
                 PROVE  monitorList'[i[1]] = i
      BY DEF LiveIsRegistered
    <3>2. CASE i = new
      BY <2>2, <3>1, <3>2 DEF Register, TypeOK
    <3>3. CASE i # new
      <4>1. Live(i) /\ i # monitorList[m]
        BY <2>2, <3>3, StopLive DEF Register, Live, PhaseAfterStop
      <4>2. i[1] \in Monitors /\ monitorList[i[1]] = i
        BY <4>1, InstanceParts DEF LiveIsRegistered
      <4>3. i[1] # m
        BY <4>1, <4>2
      <4>4. QED
        BY <2>2, <4>2, <4>3 DEF Register, TypeOK
    <3>4. QED
      BY <3>2, <3>3
  <2>3. CASE StopRegistered(h)
    <3> SUFFICES ASSUME NEW i \in Instances, Live(i)'
                 PROVE  monitorList'[i[1]] = i
      BY DEF LiveIsRegistered
    <3>1. Live(i)
      BY <2>3, StopLive DEF StopRegistered, Live
    <3>2. QED
      BY <2>3, <3>1 DEF StopRegistered, LiveIsRegistered
  <2>4. CASE Unregister(h)
    <3> SUFFICES ASSUME NEW i \in Instances, Live(i)'
                 PROVE  monitorList'[i[1]] = i
      BY DEF LiveIsRegistered
    <3>1. Live(i) /\ i # monitorList[target[h]]
      BY <2>4, StopLive DEF Unregister, Live
    <3>2. i[1] \in Monitors /\ monitorList[i[1]] = i
      BY <3>1, InstanceParts DEF LiveIsRegistered
    <3>3. QED
      BY <2>4, <3>1, <3>2 DEF Unregister, TypeOK
  <2>5. CASE \/ CheckOwner(h) \/ SetActive(h) \/ SetPaused(h) \/ InsertRow(h)
             \/ LoadBean(h) \/ StoreBean(h) \/ CheckActive(h) \/ DeleteFind(h)
             \/ DeleteRow(h)
    BY <2>5, NoNewLive DEF CheckOwner, SetActive, SetPaused, InsertRow, LoadBean,
       StoreBean, CheckActive, DeleteFind, DeleteRow, instVars
  <2>6. QED
    BY <1>6, <2>1, <2>2, <2>3, <2>4, <2>5 DEF HandlerStep
<1>7. ASSUME NEW h \in Handlers, QueryFails(h) PROVE LiveIsRegistered'
  BY <1>7, NoNewLive DEF QueryFails, instVars
<1>8. CASE Crash
  <2>1. \A i \in Instances : phase'[i] = "none"
    BY <1>8, ColdTypes DEF Crash
  <2>2. QED
    BY <2>1 DEF LiveIsRegistered, Live, Scheduled
<1>9. CASE UNCHANGED vars
  BY <1>9 DEF LiveIsRegistered, Live, vars, instVars
<1>10. QED
  BY <1>1, <1>2, <1>3, <1>4, <1>5, <1>6, <1>7, <1>8, <1>9 DEF Next, BootStep

-------------------------------------------------------------------------------
(* A stopped instance arms no timer.                                          *)

LEMMA NoNextCheckStep == TypeOK /\ NoNextCheck /\ [Next]_vars => NoNextCheck'
<1> SUFFICES ASSUME TypeOK, NoNextCheck, [Next]_vars PROVE NoNextCheck'
  OBVIOUS
<1>1. ASSUME NEW i \in Instances, InstanceStep(i) PROVE NoNextCheck'
  BY <1>1 DEF InstanceStep, TagsLoaded, TimerFires, BeatEnds, PushInTime, TypeOK, NoNextCheck
<1>2. ASSUME NEW m \in Monitors, BootStart(m) PROVE NoNextCheck'
  BY <1>2 DEF BootStart, TypeOK, NoNextCheck
<1>3. CASE BootRead \/ BootRegister
  BY <1>3 DEF BootRead, BootRegister, TypeOK, NoNextCheck
<1>4. ASSUME NEW h \in Handlers, User(h) \/ QueryFails(h) PROVE NoNextCheck'
  BY <1>4 DEF User, BeginAdd, BeginEdit, BeginResume, BeginPause, BeginDelete, Begin,
     QueryFails, instVars, NoNextCheck, IsPush
<1>5. ASSUME NEW h \in Handlers, HandlerStep(h) PROVE NoNextCheck'
  <2>1. CASE FindMonitor(h)
    BY <2>1 DEF FindMonitor, TypeOK, NoNextCheck, IsPush, instVars
  <2>2. CASE Register(h) \/ StopRegistered(h) \/ Unregister(h)
    <3> DEFINE old == monitorList[target[h]]
    <3>1. /\ isStop' = IsStopAfterStop(old)
          /\ \A j \in Instances : phase'[j] = "waiting"
               => PhaseAfterStop(old)[j] = "waiting"
      BY <2>2 DEF Register, StopRegistered, Unregister, PhaseAfterStop
    <3> SUFFICES ASSUME NEW j \in Instances, isStop'[j], phase'[j] = "waiting"
                 PROVE  IsPush(j)
      BY DEF NoNextCheck, IsPush
    <3>2. phase[j] = "waiting" /\ j # old
      BY <3>1 DEF PhaseAfterStop
    <3>3. isStop[j]
      BY <3>1, <3>2 DEF IsStopAfterStop
    <3>4. QED
      BY <3>2, <3>3 DEF NoNextCheck
  <2>3. CASE \/ CheckOwner(h) \/ SetActive(h) \/ SetPaused(h) \/ InsertRow(h)
             \/ LoadBean(h) \/ StoreBean(h) \/ CheckActive(h) \/ DeleteFind(h)
             \/ DeleteRow(h)
    BY <2>3 DEF CheckOwner, SetActive, SetPaused, InsertRow, LoadBean, StoreBean,
       CheckActive, DeleteFind, DeleteRow, instVars, NoNextCheck, IsPush
  <2>4. QED
    BY <1>5, <2>1, <2>2, <2>3 DEF HandlerStep
<1>6. CASE Crash
  <2>1. \A i \in Instances : phase'[i] = "none"
    BY <1>6, ColdTypes DEF Crash
  <2>2. QED
    BY <2>1 DEF NoNextCheck
<1>7. CASE UNCHANGED vars
  BY <1>7 DEF NoNextCheck, vars, instVars, IsPush
<1>8. QED
  BY <1>1, <1>2, <1>3, <1>4, <1>5, <1>6, <1>7 DEF Next, BootStep

\* No instance of a monitor other than a push monitor has a timer armed once
\* stop() was called on it, in whatever phase stop() found it, startMonitors'
\* late start of an already stopped instance included.
THEOREM NoNextCheckHolds == Spec => []NoNextCheck
<1>1. Init => NoNextCheck
  BY ColdTypes DEF Init, NoNextCheck
<1>2. TypeOK /\ NoNextCheck /\ [Next]_vars => NoNextCheck'
  BY NoNextCheckStep
<1>3. QED
  BY <1>1, <1>2, TypeCorrect, PTL DEF Spec

\* Once startMonitors has run before any socket event, an instance that was
\* replaced or removed is always a stopped one, and it has no next check, the
\* push monitors' apart, which beat() may arm again: for any number of monitors,
\* overlapping handlers, crashes and failing queries, with either database.
THEOREM NoOrphanHolds == ASSUME EarlyUsers = FALSE PROVE Spec => []NoOrphan
<1>1. Init => IInv
  BY TypeInit, OrphanInit DEF IInv
<1>2. IInv /\ [Next]_vars => IInv'
  BY TypeStep, BootFirstStep, LiveIsRegisteredStep DEF IInv
<1>3. IInv /\ NoNextCheck => NoOrphan
  BY DEF IInv, LiveIsRegistered, NoNextCheck, NoOrphan, LeftBehind, Live
<1>4. QED
  BY <1>1, <1>2, <1>3, NoNextCheckHolds, PTL DEF Spec

-------------------------------------------------------------------------------
(* What row and instances owe each other.                                      *)

\* No two handlers work on the same monitor.  Handlers of different monitors may
\* overlap in any way.
OneAtATime == \A g, h \in Handlers : target[g] = target[h] /\ target[g] # None => g = h

\* What startMonitors has read is what the table holds, as nobody writes before it is done.
BootLoads ==
  /\ boot # "loop" => \A i \in Instances : ~isStop[i]
  /\ boot = "read" => \A i \in Instances : phase[i] = "none"
  /\ boot = "register" => \A i \in Instances :
       /\ phase[i] = "loaded" <=> i[2] = 0 /\ row[i[1]] = "active"
       /\ phase[i] = "loaded" => snapshot[i] = config[i[1]]

\* The row a handler has looked at is as it was when the handler is alone with it.
RowIsFound ==
  \A h \in Handlers :
    /\ pc[h] = "insert" => row[target[h]] = "absent"
    /\ pc[h] \in {"activate", "find", "register"} => Exists(target[h])
    /\ pc[h] \in {"find", "register"} => row[target[h]] = "active"

\* An instance goes on beating for an active monitor, or for one about to be stopped.
LiveIsOwed ==
  \A i \in Instances : Live(i) =>
    \/ row[i[1]] = "active"
    \/ \E h \in Handlers : pc[h] = "stop" /\ target[h] = i[1]

\* Before a row is deleted its monitor is stopped, and is not started again.
StoppedBeforeDelete ==
  \A h \in Handlers, i \in Instances : pc[h] = "delete" /\ target[h] = i[1] => ~Live(i)

QuietInv == BootLoads /\ RowIsFound /\ LiveIsOwed /\ StoppedBeforeDelete

\* editMonitor decides by an `active` that is still true.
BeanIsCurrent ==
  \A h \in Handlers : pc[h] \in {"store", "isActive"} =>
    (wasActive[h] <=> row[target[h]] = "active")

\* What is about to be registered was loaded after the last edit.
HeldIsFresh ==
  \A h \in Handlers : pc[h] = "register" => snapshot[held[h]] = config[target[h]]

\* An outdated instance is about to be replaced.
Restarting == {"isActive", "owner", "activate", "find", "register"}

OutdatedIsReplaced ==
  \A m \in Monitors \ GroupMembers :
    boot = "loop" /\ row[m] = "active" /\ monitorList[m] # None =>
      \/ snapshot[monitorList[m]] = config[m]
      \/ \E h \in Handlers : target[h] = m /\ pc[h] \in Restarting

FreshInv == BootLoads /\ BeanIsCurrent /\ HeldIsFresh /\ OutdatedIsReplaced

\* With one connection a handler whose answer has arrived goes on before another query is
\* answered.
OneAnswer == \A g, h \in Handlers : pc[g] \in Delivered /\ pc[h] \in Delivered => g = h

\* Numbers are given once: what is registered or stopped was made before.
Numbered ==
  /\ \A m \in Monitors : monitorList[m] # None => monitorList[m][2] <= made[m]
  /\ \A i \in Instances : isStop[i] => i[2] <= made[i[1]]
  /\ \A h \in Handlers : pc[h] = "register" =>
       /\ held[h] # monitorList[target[h]] /\ ~isStop[held[h]]
       /\ held[h][2] <= made[target[h]]

\* Only a monitor that is paused is stopped by pauseMonitor.
StopsPaused == \A h \in Handlers : pc[h] = "stop" => row[target[h]] # "active"

\* The steps of a handler that will leave the monitor watched, or without a row.
Settling == {"owner", "activate", "find", "register", "delete"}

Monitored(m) == monitorList[m] # None /\ Live(monitorList[m])

ActiveIsWatched ==
  \A m \in Monitors : boot = "loop" /\ row[m] = "active" =>
    \/ Monitored(m)
    \/ \E h \in Handlers : target[h] = m /\ pc[h] \in Settling

WatchInv == BootLoads /\ OneAnswer /\ Numbered /\ StopsPaused /\ ActiveIsWatched

\* What is not None is a monitor, so two handlers at work on one monitor are one handler.
LEMMA Alone ==
  ASSUME TypeOK, OneAtATime, NEW g \in Handlers, NEW h \in Handlers,
         pc[g] # "idle", pc[h] # "idle", target[g] = target[h]
  PROVE  g = h
BY NoneAssumption DEF TypeOK, OneAtATime

\* An event or a step of a handler leaves the other handlers alone.
LEMMA OtherHandlers ==
  ASSUME TypeOK, NEW h \in Handlers, User(h) \/ HandlerStep(h) \/ QueryFails(h),
         NEW g \in Handlers, g # h
  PROVE  pc'[g] = pc[g] /\ target'[g] = target[g] /\ wasActive'[g] = wasActive[g] /\ held'[g] = held[g]
<1>1. CASE User(h)
  <2>1. PICK m \in Monitors, first \in Querying : Begin(h, m, first)
    BY <1>1 DEF User, BeginAdd, BeginEdit, BeginResume, BeginPause, BeginDelete, Querying
  <2>2. QED
    BY <2>1 DEF Begin, Goto, TypeOK
<1>2. CASE HandlerStep(h)
  BY <1>2 DEF HandlerStep, CheckOwner, SetActive, FindMonitor, Register, SetPaused,
     StopRegistered, InsertRow, LoadBean, StoreBean, CheckActive, DeleteFind,
     Unregister, DeleteRow, Goto, Return, TypeOK
<1>3. CASE QueryFails(h)
  BY <1>3 DEF QueryFails, Return, TypeOK
<1>4. QED
  BY <1>1, <1>2, <1>3

\* It leaves the rows and the entries of the other monitors alone.
LEMMA OtherMonitors ==
  ASSUME TypeOK, NEW h \in Handlers, User(h) \/ HandlerStep(h) \/ QueryFails(h),
         NEW m \in Monitors, m # target[h]
  PROVE  row'[m] = row[m] /\ config'[m] = config[m] /\ monitorList'[m] = monitorList[m] /\ made'[m] = made[m]
<1>1. CASE User(h) \/ QueryFails(h)
  BY <1>1 DEF User, BeginAdd, BeginEdit, BeginResume, BeginPause, BeginDelete, Begin,
     QueryFails, dbVars, instVars
<1>2. CASE HandlerStep(h)
  BY <1>2 DEF HandlerStep, CheckOwner, SetActive, FindMonitor, Register, SetPaused,
     StopRegistered, InsertRow, LoadBean, StoreBean, CheckActive, DeleteFind,
     Unregister, DeleteRow, dbVars, instVars, TypeOK
<1>3. QED
  BY <1>1, <1>2

\* And the instances of the other monitors.
LEMMA OtherInstances ==
  ASSUME TypeOK, NEW h \in Handlers, User(h) \/ HandlerStep(h) \/ QueryFails(h),
         NEW i \in Instances, i[1] # target[h]
  PROVE  phase'[i] = phase[i] /\ isStop'[i] = isStop[i] /\ snapshot'[i] = snapshot[i]
<1>1. CASE User(h) \/ QueryFails(h)
  BY <1>1 DEF User, BeginAdd, BeginEdit, BeginResume, BeginPause, BeginDelete, Begin,
     QueryFails, instVars
<1>2. CASE Register(h) \/ StopRegistered(h) \/ Unregister(h)
  <2>1. target[h] \in Monitors /\ i # monitorList[target[h]]
    BY <1>2, NoneIsNoInstance DEF Register, StopRegistered, Unregister, TypeOK
  <2>2. Register(h) => i # held[h]
    BY DEF Register, TypeOK
  <2>3. /\ PhaseAfterStop(monitorList[target[h]])[i] = phase[i]
        /\ IsStopAfterStop(monitorList[target[h]])[i] = isStop[i]
    BY <2>1 DEF PhaseAfterStop, IsStopAfterStop, TypeOK
  <2>4. CASE Register(h)
    <3>1. DOMAIN PhaseAfterStop(monitorList[target[h]]) = Instances
      BY DEF PhaseAfterStop
    <3>2. QED
      BY <2>2, <2>3, <2>4, <3>1 DEF Register
  <2>5. QED
    BY <1>2, <2>3, <2>4 DEF StopRegistered, Unregister
<1>3. CASE FindMonitor(h)
  <2>1. i # <<target[h], made[target[h]] + 1>>
    OBVIOUS
  <2>2. QED
    BY <1>3, <2>1 DEF FindMonitor, instVars, TypeOK
<1>4. CASE \/ CheckOwner(h) \/ SetActive(h) \/ SetPaused(h) \/ InsertRow(h)
           \/ LoadBean(h) \/ StoreBean(h) \/ CheckActive(h) \/ DeleteFind(h) \/ DeleteRow(h)
  BY <1>4 DEF CheckOwner, SetActive, SetPaused, InsertRow, LoadBean, StoreBean, CheckActive,
     DeleteFind, DeleteRow, instVars
<1>5. QED
  BY <1>1, <1>2, <1>3, <1>4 DEF HandlerStep

\* Boot and the chains of heartbeats leave tables and handlers alone, and but for
\* startMonitors' registration the list.
LEMMA ProcessSteps ==
  ASSUME BootStep \/ \E i \in Instances : InstanceStep(i)
  PROVE  /\ UNCHANGED <<row, config, made, pc, target, wasActive, held, isStop, crashes>>
         /\ BootRegister \/ UNCHANGED monitorList
         /\ BootRead \/ UNCHANGED snapshot
BY DEF BootStep, BootRead, BootRegister, BootStart, InstanceStep, TagsLoaded, TimerFires,
   BeatEnds, PushInTime, dbVars, hVars

\* Outside of boot and of what handlers do an instance that goes on goes on.
LEMMA ChainsKeepLive ==
  ASSUME TypeOK, (\E m \in Monitors : BootStart(m)) \/ \E i \in Instances : InstanceStep(i),
         NEW j \in Instances
  PROVE  Live(j)' <=> Live(j)
<1>1. ASSUME NEW m \in Monitors, BootStart(m) PROVE Live(j)' <=> Live(j)
  BY <1>1 DEF BootStart, Live, Scheduled, TypeOK
<1>2. ASSUME NEW i \in Instances, InstanceStep(i) PROVE Live(j)' <=> Live(j)
  BY <1>2 DEF InstanceStep, TagsLoaded, TimerFires, BeatEnds, PushInTime, Live, Scheduled, TypeOK
<1>3. QED
  BY <1>1, <1>2

-------------------------------------------------------------------------------
(* Boot.                                                                       *)

LEMMA BootLoadsInit == Init => BootLoads
BY ColdTypes DEF Init, BootLoads

LEMMA BootLoadsStep == TypeOK /\ BootFirst /\ BootLoads /\ [Next]_vars => BootLoads'
<1> SUFFICES ASSUME TypeOK, BootFirst, BootLoads, [Next]_vars PROVE BootLoads'
  OBVIOUS
<1>1. CASE BootRead
  <2>1. boot = "read" /\ boot' = "register" /\ UNCHANGED <<row, config, isStop>>
    BY <1>1 DEF BootRead, dbVars
  <2>2. \A i \in Instances : phase[i] = "none" /\ ~isStop[i]
    BY <2>1 DEF BootLoads
  <2>3. \A i \in Instances :
          /\ phase'[i] = IF i[2] = 0 /\ row[i[1]] = "active" THEN "loaded" ELSE phase[i]
          /\ snapshot'[i] = IF i[2] = 0 /\ row[i[1]] = "active" THEN config[i[1]] ELSE snapshot[i]
    BY <1>1 DEF BootRead
  <2>4. QED
    BY <2>1, <2>2, <2>3 DEF BootLoads
<1>2. CASE BootRegister
  BY <1>2 DEF BootRegister, BootLoads
<1>3. ASSUME NEW m \in Monitors, BootStart(m) PROVE BootLoads'
  BY <1>3 DEF BootStart, BootLoads
<1>4. ASSUME NEW i \in Instances, InstanceStep(i) PROVE BootLoads'
  <2>1. boot = "loop" /\ boot' = boot
    BY <1>4 DEF InstanceStep, TagsLoaded, TimerFires, BeatEnds, PushInTime, BootFirst
  <2>2. QED
    BY <2>1 DEF BootLoads
<1>5. ASSUME NEW h \in Handlers, HandlerStep(h) \/ QueryFails(h) PROVE BootLoads'
  <2>1. pc[h] # "idle" /\ boot' = boot
    BY <1>5 DEF HandlerStep, CheckOwner, SetActive, FindMonitor, Register, SetPaused,
       StopRegistered, InsertRow, LoadBean, StoreBean, CheckActive, DeleteFind,
       Unregister, DeleteRow, QueryFails, Querying
  <2>2. QED
    BY <2>1 DEF BootFirst, BootLoads
<1>6. ASSUME NEW h \in Handlers, User(h) PROVE BootLoads'
  BY <1>6 DEF User, BeginAdd, BeginEdit, BeginResume, BeginPause, BeginDelete, Begin,
     BootLoads, dbVars, instVars
<1>7. CASE Crash
  <2>1. boot' = "read" /\ \A i \in Instances : phase'[i] = "none" /\ ~isStop'[i]
    BY <1>7, ColdTypes DEF Crash
  <2>2. QED
    BY <2>1 DEF BootLoads
<1>8. CASE UNCHANGED vars
  BY <1>8 DEF BootLoads, vars, dbVars, instVars
<1>9. QED
  BY <1>1, <1>2, <1>3, <1>4, <1>5, <1>6, <1>7, <1>8 DEF Next, BootStep

-------------------------------------------------------------------------------
(* A monitor that is not active is quiet.                                      *)

LEMMA QuietInit == Init => RowIsFound /\ LiveIsOwed /\ StoppedBeforeDelete
<1> SUFFICES ASSUME Init PROVE RowIsFound /\ LiveIsOwed /\ StoppedBeforeDelete
  OBVIOUS
<1>1. /\ \A h \in Handlers : pc[h] = "idle"
      /\ \A i \in Instances : phase[i] = "none"
  BY ColdTypes DEF Init
<1>2. QED
  BY <1>1 DEF RowIsFound, LiveIsOwed, StoppedBeforeDelete, Live, Scheduled

LEMMA RowIsFoundStep ==
  ASSUME TypeOK, OneAtATime, RowIsFound, [Next]_vars
  PROVE  RowIsFound'
<1>1. CASE BootStep \/ \E i \in Instances : InstanceStep(i)
  BY <1>1, ProcessSteps DEF RowIsFound, Exists
<1>2. ASSUME NEW h \in Handlers, User(h) \/ HandlerStep(h) \/ QueryFails(h) PROVE RowIsFound'
  <2> SUFFICES ASSUME NEW g \in Handlers
               PROVE  /\ pc'[g] = "insert" => row'[target'[g]] = "absent"
                      /\ pc'[g] \in {"activate", "find", "register"} => Exists(target[g])'
                      /\ pc'[g] \in {"find", "register"} => row'[target'[g]] = "active"
    BY DEF RowIsFound, Exists
  <2>1. CASE g # h
    <3>1. pc'[g] = pc[g] /\ target'[g] = target[g]
      BY <1>2, <2>1, OtherHandlers
    <3>2. CASE pc[g] = "idle"
      BY <3>1, <3>2
    <3>3. CASE pc[g] # "idle"
      <4>1. target[g] \in Monitors /\ target[g] # None
        BY <3>3, NoneAssumption DEF TypeOK
      <4>2. target[g] # target[h]
        BY <2>1, <4>1 DEF OneAtATime
      <4>3. row'[target[g]] = row[target[g]]
        BY <1>2, <4>1, <4>2, OtherMonitors
      <4>4. QED
        BY <3>1, <4>3 DEF RowIsFound, Exists
    <3>4. QED
      BY <3>2, <3>3
  <2>2. CASE g = h /\ (User(h) \/ QueryFails(h))
    <3>1. CASE \E m \in Monitors : BeginAdd(h, m)
      BY <2>2, <3>1 DEF BeginAdd, Begin, Goto, TypeOK, dbVars
    <3>2. CASE ~\E m \in Monitors : BeginAdd(h, m)
      BY <2>2, <3>2 DEF User, BeginEdit, BeginResume, BeginPause, BeginDelete, Begin,
         Goto, QueryFails, Return, TypeOK
    <3>3. QED
      BY <3>1, <3>2
  <2>3. CASE g = h /\ HandlerStep(h)
    <3>1. CASE CheckOwner(h)
      BY <2>3, <3>1 DEF CheckOwner, Goto, Return, Exists, TypeOK, dbVars
    <3>2. CASE SetActive(h)
      <4>1. Exists(target[h]) /\ target[h] \in Monitors
        BY <3>2 DEF SetActive, RowIsFound, TypeOK
      <4>2. QED
        BY <2>3, <3>2, <4>1 DEF SetActive, Goto, Exists, TypeOK
    <3>3. CASE FindMonitor(h)
      BY <2>3, <3>3 DEF FindMonitor, Goto, Return, RowIsFound, Exists, TypeOK, dbVars
    <3>4. CASE \/ Register(h) \/ StopRegistered(h) \/ SetPaused(h) \/ InsertRow(h) \/ LoadBean(h)
               \/ StoreBean(h) \/ CheckActive(h) \/ DeleteFind(h) \/ Unregister(h) \/ DeleteRow(h)
      <4>1. pc'[h] \in {"idle", "stop", "owner", "store", "isActive", "unregister", "delete"}
        BY <3>4 DEF Register, StopRegistered, SetPaused, InsertRow, LoadBean, StoreBean,
           CheckActive, DeleteFind, Unregister, DeleteRow, Goto, Return, TypeOK
      <4>2. QED
        BY <2>3, <4>1
    <3>5. QED
      BY <2>3, <3>1, <3>2, <3>3, <3>4 DEF HandlerStep
  <2>4. QED
    BY <1>2, <2>1, <2>2, <2>3
<1>3. CASE Crash
  BY <1>3, ColdTypes DEF Crash, RowIsFound
<1>4. CASE UNCHANGED vars
  BY <1>4 DEF vars, dbVars, hVars, RowIsFound, Exists
<1>5. QED
  BY <1>1, <1>2, <1>3, <1>4 DEF Next

\* The steps that make an instance live: registration, at boot or by startMonitor.
LEMMA BecomesLive ==
  ASSUME TypeOK, BootFirst, [Next]_vars, NEW i \in Instances, Live(i)', ~Live(i)
  PROVE  \/ BootRegister /\ phase[i] = "loaded"
         \/ \E h \in Handlers : Register(h) /\ i = held[h]
<1>1. CASE BootRead
  BY <1>1 DEF BootRead, Live, Scheduled, TypeOK
<1>2. CASE BootRegister
  BY <1>2 DEF BootRegister, BootFirst, Live, Scheduled, TypeOK
<1>3. CASE (\E m \in Monitors : BootStart(m)) \/ \E j \in Instances : InstanceStep(j)
  BY <1>3, ChainsKeepLive
<1>4. ASSUME NEW h \in Handlers, User(h) \/ QueryFails(h) PROVE FALSE
  BY <1>4 DEF User, BeginAdd, BeginEdit, BeginResume, BeginPause, BeginDelete, Begin,
     QueryFails, Live, instVars
<1>5. ASSUME NEW h \in Handlers, HandlerStep(h) PROVE Register(h) /\ i = held[h]
  <2>1. CASE FindMonitor(h)
    BY <2>1 DEF FindMonitor, Live, Scheduled, TypeOK, instVars
  <2>2. CASE StopRegistered(h) \/ Unregister(h)
    BY <2>2, StopLive DEF StopRegistered, Unregister, Live
  <2>3. CASE Register(h) /\ i # held[h]
    <3>1. phase'[i] = PhaseAfterStop(monitorList[target[h]])[i]
      BY <2>3 DEF Register, PhaseAfterStop
    <3>2. QED
      BY <2>3, <3>1, StopLive DEF Register, Live
  <2>4. CASE \/ CheckOwner(h) \/ SetActive(h) \/ SetPaused(h) \/ InsertRow(h)
             \/ LoadBean(h) \/ StoreBean(h) \/ CheckActive(h) \/ DeleteFind(h) \/ DeleteRow(h)
    BY <2>4 DEF CheckOwner, SetActive, SetPaused, InsertRow, LoadBean, StoreBean, CheckActive,
       DeleteFind, DeleteRow, instVars, Live
  <2>5. QED
    BY <1>5, <2>1, <2>2, <2>3, <2>4 DEF HandlerStep
<1>6. CASE Crash
  BY <1>6, ColdTypes DEF Crash, Live, Scheduled
<1>7. CASE UNCHANGED vars
  BY <1>7 DEF vars, instVars, Live
<1>8. QED
  BY <1>1, <1>2, <1>3, <1>4, <1>5, <1>6, <1>7 DEF Next, BootStep

\* After stop() of the registered instance no live one of its monitor is left.
LEMMA StopEndsMonitor ==
  ASSUME TypeOK, LiveIsRegistered, NEW h \in Handlers, StopRegistered(h) \/ Unregister(h),
         NEW i \in Instances, i[1] = target[h]
  PROVE  ~Live(i)'
<1> SUFFICES ASSUME Live(i)' PROVE FALSE
  OBVIOUS
<1>1. Live(i) /\ i # monitorList[target[h]]
  BY StopLive DEF StopRegistered, Unregister, Live
<1>2. QED
  BY <1>1 DEF LiveIsRegistered

LEMMA LiveIsOwedStep ==
  ASSUME IInv, OneAtATime, QuietInv, [Next]_vars
  PROVE  LiveIsOwed'
<1> USE DEF IInv, QuietInv
<1> SUFFICES ASSUME NEW i \in Instances, Live(i)'
             PROVE  \/ row'[i[1]] = "active"
                    \/ \E g \in Handlers : pc'[g] = "stop" /\ target'[g] = i[1]
  BY DEF LiveIsOwed
<1>0. i[1] \in Monitors
  BY InstanceParts
<1>1. CASE ~Live(i)
  <2>1. CASE BootRegister /\ phase[i] = "loaded"
    BY <2>1 DEF BootRegister, BootLoads, dbVars
  <2>2. ASSUME NEW h \in Handlers, Register(h), i = held[h] PROVE row'[i[1]] = "active"
    BY <2>2 DEF Register, RowIsFound, TypeOK, dbVars
  <2>3. QED
    BY <1>1, <2>1, <2>2, BecomesLive
<1>2. CASE Live(i) /\ (BootStep \/ \E j \in Instances : InstanceStep(j))
  BY <1>2, ProcessSteps DEF LiveIsOwed
<1>3. ASSUME Live(i), NEW h \in Handlers, User(h) \/ HandlerStep(h) \/ QueryFails(h)
      PROVE  \/ row'[i[1]] = "active"
             \/ \E g \in Handlers : pc'[g] = "stop" /\ target'[g] = i[1]
  <2>1. CASE i[1] # target[h]
    <3>1. row'[i[1]] = row[i[1]]
      BY <1>0, <1>3, <2>1, OtherMonitors
    <3>2. ASSUME NEW g \in Handlers, pc[g] = "stop", target[g] = i[1]
          PROVE  pc'[g] = "stop" /\ target'[g] = i[1]
      BY <1>3, <2>1, <3>2, OtherHandlers
    <3>3. QED
      BY <1>3, <3>1, <3>2 DEF LiveIsOwed
  <2>2. CASE i[1] = target[h] /\ User(h)
    <3>1. UNCHANGED row /\ pc[h] = "idle"
      BY <2>2 DEF User, BeginAdd, BeginEdit, BeginResume, BeginPause, BeginDelete, Begin, dbVars
    <3>2. ASSUME NEW g \in Handlers, pc[g] = "stop", target[g] = i[1]
          PROVE  pc'[g] = "stop" /\ target'[g] = i[1]
      BY <1>3, <3>1, <3>2, OtherHandlers
    <3>3. QED
      BY <1>3, <3>1, <3>2 DEF LiveIsOwed
  <2>3. CASE i[1] = target[h] /\ pc[h] # "idle" /\ QueryFails(h)
    <3>1. row[i[1]] = "active"
      BY <1>3, <2>3, Alone DEF LiveIsOwed, QueryFails, Querying
    <3>2. QED
      BY <2>3, <3>1 DEF QueryFails, dbVars
  <2>4. CASE i[1] = target[h] /\ HandlerStep(h)
    <3>1. CASE StopRegistered(h)
      BY <2>4, <3>1, StopEndsMonitor
    <3>2. CASE DeleteRow(h)
      BY <1>3, <2>4, <3>2 DEF DeleteRow, StoppedBeforeDelete
    <3>3. CASE SetPaused(h)
      BY <1>0, <2>4, <3>3 DEF SetPaused, Goto, TypeOK
    <3>4. CASE InsertRow(h) \/ SetActive(h)
      <4>1. row[i[1]] = "active"
        BY <1>3, <2>4, <3>4, Alone DEF LiveIsOwed, InsertRow, SetActive
      <4>2. SetActive(h)
        BY <2>4, <3>4, <4>1 DEF InsertRow, RowIsFound
      <4>3. QED
        BY <1>0, <2>4, <4>1, <4>2 DEF SetActive, Exists, TypeOK
    <3>5. CASE \/ CheckOwner(h) \/ FindMonitor(h) \/ Register(h) \/ LoadBean(h) \/ StoreBean(h)
               \/ CheckActive(h) \/ DeleteFind(h) \/ Unregister(h)
      <4>1. pc[h] \notin {"idle", "stop"} /\ UNCHANGED row
        BY <3>5 DEF CheckOwner, FindMonitor, Register, LoadBean, StoreBean, CheckActive,
           DeleteFind, Unregister, dbVars
      <4>2. row[i[1]] = "active"
        BY <1>3, <2>4, <4>1, Alone DEF LiveIsOwed
      <4>3. QED
        BY <4>1, <4>2
    <3>6. QED
      BY <2>4, <3>1, <3>2, <3>3, <3>4, <3>5 DEF HandlerStep
  <2>5. QED
    BY <1>3, <2>1, <2>2, <2>3, <2>4 DEF QueryFails, Querying
<1>4. CASE Crash
  BY <1>4, ColdTypes DEF Crash, Live, Scheduled
<1>5. CASE Live(i) /\ UNCHANGED vars
  BY <1>5 DEF vars, dbVars, hVars, LiveIsOwed
<1>6. QED
  BY <1>1, <1>2, <1>3, <1>4, <1>5 DEF Next

LEMMA StoppedBeforeDeleteStep ==
  ASSUME IInv, OneAtATime, QuietInv, [Next]_vars
  PROVE  StoppedBeforeDelete'
<1> USE DEF IInv, QuietInv
<1> SUFFICES ASSUME NEW g \in Handlers, NEW i \in Instances, pc'[g] = "delete", target'[g] = i[1]
             PROVE  ~Live(i)'
  BY DEF StoppedBeforeDelete
<1>1. CASE BootStep \/ \E j \in Instances : InstanceStep(j)
  <2>1. pc[g] = "delete" /\ target[g] = i[1]
    BY <1>1, ProcessSteps
  <2>2. boot = "loop" /\ ~Live(i)
    BY <2>1 DEF StoppedBeforeDelete, BootFirst
  <2>3. QED
    BY <1>1, <2>2, ChainsKeepLive DEF BootStep, BootRead, BootRegister
<1>2. ASSUME NEW h \in Handlers, User(h) \/ HandlerStep(h) \/ QueryFails(h) PROVE ~Live(i)'
  <2>1. CASE g # h
    <3>1. pc[g] = "delete" /\ target[g] = i[1]
      BY <1>2, <2>1, OtherHandlers
    <3>2. ~Live(i) /\ i[1] # target[h]
      BY <2>1, <3>1, NoneAssumption, InstanceParts DEF StoppedBeforeDelete, OneAtATime
    <3>3. QED
      BY <1>2, <3>2, OtherInstances DEF Live
  <2>2. CASE g = h
    <3>1. Unregister(h)
      BY <1>2, <2>2 DEF User, BeginAdd, BeginEdit, BeginResume, BeginPause, BeginDelete, Begin,
         QueryFails, HandlerStep, CheckOwner, SetActive, FindMonitor, Register, SetPaused,
         StopRegistered, InsertRow, LoadBean, StoreBean, CheckActive, DeleteFind, DeleteRow,
         Goto, Return, TypeOK
    <3>2. i[1] = target[h]
      BY <2>2, <3>1 DEF Unregister
    <3>3. QED
      BY <3>1, <3>2, StopEndsMonitor
  <2>3. QED
    BY <2>1, <2>2
<1>3. CASE Crash
  BY <1>3, ColdTypes DEF Crash
<1>4. CASE UNCHANGED vars
  BY <1>4 DEF vars, hVars, instVars, Live, StoppedBeforeDelete
<1>5. QED
  BY <1>1, <1>2, <1>3, <1>4 DEF Next

\* A paused or deleted monitor has no instance that goes on beating, as long as the
\* handlers that work on one monitor do so one after another: for any number of
\* monitors whose handlers overlap, crashes and failing queries, with either
\* database.  What carries it is that the row changes before the instance is stopped
\* by pauseMonitor, and after it by deleteMonitor.
THEOREM InactiveHolds ==
  ASSUME EarlyUsers = FALSE
  PROVE  Spec /\ []OneAtATime => []InactiveIsQuiet
<1>1. Init => IInv /\ QuietInv
  BY TypeInit, OrphanInit, BootLoadsInit, QuietInit DEF IInv, QuietInv
<1>2. IInv /\ QuietInv /\ OneAtATime /\ [Next]_vars => (IInv /\ QuietInv)'
  <2> SUFFICES ASSUME IInv, QuietInv, OneAtATime, [Next]_vars PROVE IInv' /\ QuietInv'
    OBVIOUS
  <2>1. IInv'
    BY TypeStep, BootFirstStep, LiveIsRegisteredStep DEF IInv
  <2>2. BootLoads' /\ RowIsFound'
    BY BootLoadsStep, RowIsFoundStep DEF IInv, QuietInv
  <2>3. LiveIsOwed' /\ StoppedBeforeDelete'
    BY LiveIsOwedStep, StoppedBeforeDeleteStep
  <2>4. QED
    BY <2>1, <2>2, <2>3 DEF QuietInv
<1>3. IInv /\ QuietInv => InactiveIsQuiet
  BY DEF QuietInv, LiveIsOwed, InactiveIsQuiet, Quiet
<1>4. QED
  BY <1>1, <1>2, <1>3, PTL DEF Spec

-------------------------------------------------------------------------------
(* An active monitor runs with the configuration that is stored.                *)

LEMMA FreshInit == Init => BeanIsCurrent /\ HeldIsFresh /\ OutdatedIsReplaced
BY ColdTypes DEF Init, BeanIsCurrent, HeldIsFresh, OutdatedIsReplaced

LEMMA BeanIsCurrentStep ==
  ASSUME TypeOK, OneAtATime, BeanIsCurrent, [Next]_vars
  PROVE  BeanIsCurrent'
<1>1. CASE BootStep \/ \E i \in Instances : InstanceStep(i)
  BY <1>1, ProcessSteps DEF BeanIsCurrent
<1>2. ASSUME NEW h \in Handlers, User(h) \/ HandlerStep(h) \/ QueryFails(h) PROVE BeanIsCurrent'
  <2> SUFFICES ASSUME NEW g \in Handlers, pc'[g] \in {"store", "isActive"}
               PROVE  wasActive'[g] <=> row'[target'[g]] = "active"
    BY DEF BeanIsCurrent
  <2>1. CASE g # h
    <3>1. pc'[g] = pc[g] /\ target'[g] = target[g] /\ wasActive'[g] = wasActive[g]
      BY <1>2, <2>1, OtherHandlers
    <3>2. target[g] \in Monitors /\ target[g] # target[h]
      BY <2>1, <3>1, NoneAssumption DEF TypeOK, OneAtATime
    <3>3. row'[target[g]] = row[target[g]]
      BY <1>2, <3>2, OtherMonitors
    <3>4. QED
      BY <3>1, <3>3 DEF BeanIsCurrent
  <2>2. CASE g = h
    <3>1. LoadBean(h) \/ StoreBean(h)
      BY <1>2, <2>2 DEF User, BeginAdd, BeginEdit, BeginResume, BeginPause, BeginDelete, Begin,
         QueryFails, HandlerStep, CheckOwner, SetActive, FindMonitor, Register, SetPaused,
         StopRegistered, InsertRow, CheckActive, DeleteFind, Unregister, DeleteRow,
         Goto, Return, TypeOK
    <3>2. QED
      BY <2>2, <3>1 DEF LoadBean, StoreBean, Goto, Return, BeanIsCurrent, TypeOK, dbVars
  <2>3. QED
    BY <2>1, <2>2
<1>3. CASE Crash
  BY <1>3, ColdTypes DEF Crash, BeanIsCurrent
<1>4. CASE UNCHANGED vars
  BY <1>4 DEF vars, dbVars, hVars, BeanIsCurrent
<1>5. QED
  BY <1>1, <1>2, <1>3, <1>4 DEF Next

LEMMA HeldIsFreshStep ==
  ASSUME TypeOK, BootFirst, OneAtATime, HeldIsFresh, [Next]_vars
  PROVE  HeldIsFresh'
<1> SUFFICES ASSUME NEW g \in Handlers, pc'[g] = "register"
             PROVE  snapshot'[held'[g]] = config'[target'[g]]
  BY DEF HeldIsFresh
<1>1. CASE BootStep \/ \E i \in Instances : InstanceStep(i)
  <2>1. pc[g] = "register" /\ held'[g] = held[g] /\ target'[g] = target[g] /\ UNCHANGED config
    BY <1>1, ProcessSteps
  <2>2. ~BootRead
    BY <2>1 DEF BootRead, BootFirst
  <2>3. QED
    BY <1>1, <2>1, <2>2, ProcessSteps DEF HeldIsFresh
<1>2. ASSUME NEW h \in Handlers, User(h) \/ HandlerStep(h) \/ QueryFails(h)
      PROVE  snapshot'[held'[g]] = config'[target'[g]]
  <2>1. CASE g # h
    <3>1. pc[g] = "register" /\ target'[g] = target[g] /\ held'[g] = held[g]
      BY <1>2, <2>1, OtherHandlers
    <3>2. /\ target[g] \in Monitors /\ target[g] # target[h]
          /\ held[g] \in Instances /\ held[g][1] = target[g]
      BY <2>1, <3>1, NoneAssumption DEF TypeOK, OneAtATime
    <3>3. config'[target[g]] = config[target[g]] /\ snapshot'[held[g]] = snapshot[held[g]]
      BY <1>2, <3>2, OtherMonitors, OtherInstances
    <3>4. QED
      BY <3>1, <3>3 DEF HeldIsFresh
  <2>2. CASE g = h
    <3>1. FindMonitor(h) /\ Exists(target[h])
      BY <1>2, <2>2 DEF User, BeginAdd, BeginEdit, BeginResume, BeginPause, BeginDelete, Begin,
         QueryFails, HandlerStep, CheckOwner, SetActive, FindMonitor, Register, SetPaused,
         StopRegistered, InsertRow, LoadBean, StoreBean, CheckActive, DeleteFind, Unregister,
         DeleteRow, Goto, Return, TypeOK
    <3> DEFINE m == target[h]
               i == <<m, made[m] + 1>>
    <3>2. m \in Monitors /\ made[m] < MaxInst /\ UNCHANGED <<config, target>>
      BY <3>1 DEF FindMonitor, Return, TypeOK, dbVars
    <3>3. i \in Instances
      BY <3>2, BoundAssumption DEF Instances, TypeOK
    <3>4. held'[h] = i /\ snapshot'[i] = config[m]
      BY <3>1, <3>3 DEF FindMonitor, TypeOK
    <3>5. QED
      BY <2>2, <3>2, <3>4
  <2>3. QED
    BY <2>1, <2>2
<1>3. CASE Crash
  BY <1>3, ColdTypes DEF Crash
<1>4. CASE UNCHANGED vars
  BY <1>4 DEF vars, dbVars, hVars, instVars, HeldIsFresh
<1>5. QED
  BY <1>1, <1>2, <1>3, <1>4 DEF Next

LEMMA OutdatedIsReplacedStep ==
  ASSUME IInv, OneAtATime, FreshInv, [Next]_vars, Failures = FALSE
  PROVE  OutdatedIsReplaced'
<1> USE DEF IInv, FreshInv
<1> SUFFICES ASSUME NEW m \in Monitors \ GroupMembers,
                    boot' = "loop", row'[m] = "active", monitorList'[m] # None
             PROVE  \/ snapshot'[monitorList'[m]] = config'[m]
                    \/ \E g \in Handlers : target'[g] = m /\ pc'[g] \in Restarting
  BY DEF OutdatedIsReplaced
<1>0. monitorList[m] # None => monitorList[m] \in Instances /\ monitorList[m][1] = m
  BY DEF TypeOK
<1>1. CASE BootRegister
  <2>1. boot = "register" /\ UNCHANGED <<row, config, snapshot>>
    BY <1>1 DEF BootRegister, dbVars
  <2>2. <<m, 0>> \in Instances
    BY BoundAssumption, InstanceMake
  <2>3. phase[<<m, 0>>] = "loaded"
    BY <2>1, <2>2 DEF BootLoads
  <2>4. monitorList'[m] = <<m, 0>>
    BY <1>1, <2>3 DEF BootRegister
  <2>5. QED
    BY <2>1, <2>2, <2>3, <2>4 DEF BootLoads
<1>2. CASE (BootStep /\ ~BootRegister) \/ \E i \in Instances : InstanceStep(i)
  <2>1. boot = "loop" /\ UNCHANGED <<row, config, snapshot, monitorList, pc, target>>
    BY <1>2, ProcessSteps DEF BootStep, BootRead, BootRegister, BootStart, InstanceStep,
       TagsLoaded, TimerFires, BeatEnds, PushInTime
  <2>2. QED
    BY <2>1 DEF OutdatedIsReplaced
<1>3. ASSUME NEW h \in Handlers, User(h) \/ HandlerStep(h)
      PROVE  \/ snapshot'[monitorList'[m]] = config'[m]
             \/ \E g \in Handlers : target'[g] = m /\ pc'[g] \in Restarting
  <2>0. boot = "loop"
    BY <1>3 DEF User, BeginAdd, BeginEdit, BeginResume, BeginPause, BeginDelete, Begin,
       HandlerStep, CheckOwner, SetActive, FindMonitor, Register, SetPaused, StopRegistered,
       InsertRow, LoadBean, StoreBean, CheckActive, DeleteFind, Unregister, DeleteRow
  <2>1. CASE m # target[h]
    <3>1. row'[m] = row[m] /\ config'[m] = config[m] /\ monitorList'[m] = monitorList[m]
      BY <1>3, <2>1, OtherMonitors
    <3>2. snapshot'[monitorList[m]] = snapshot[monitorList[m]]
      BY <1>0, <1>3, <2>1, <3>1, OtherInstances
    <3>3. ASSUME NEW g \in Handlers, target[g] = m, pc[g] \in Restarting
          PROVE  target'[g] = m /\ pc'[g] \in Restarting
      BY <1>3, <2>1, <3>3, OtherHandlers
    <3>4. QED
      BY <2>0, <3>1, <3>2, <3>3 DEF OutdatedIsReplaced
  <2>2. CASE m = target[h] /\ User(h)
    <3>1. UNCHANGED <<row, config, monitorList, snapshot>> /\ pc[h] = "idle"
      BY <2>2 DEF User, BeginAdd, BeginEdit, BeginResume, BeginPause, BeginDelete, Begin,
         dbVars, instVars
    <3>2. ASSUME NEW g \in Handlers, target[g] = m, pc[g] \in Restarting
          PROVE  target'[g] = m /\ pc'[g] \in Restarting
      BY <1>3, <3>1, <3>2, OtherHandlers DEF Restarting
    <3>3. QED
      BY <2>0, <3>1, <3>2 DEF OutdatedIsReplaced
  <2>3. CASE m = target[h] /\ HandlerStep(h)
    <3>0. \A g \in Handlers : target[g] = m => g = h
      BY <2>3, NoneAssumption DEF OneAtATime
    <3>1. CASE CheckOwner(h)
      <4>1. UNCHANGED <<row, config, monitorList, snapshot>>
        BY <3>1 DEF CheckOwner, dbVars, instVars
      <4>2. CASE pc[h] = "owner"
        BY <2>3, <3>1, <4>1, <4>2 DEF CheckOwner, Exists, Goto, Restarting, TypeOK
      <4>3. CASE pc[h] # "owner"
        <5>1. pc[h] \notin Restarting
          BY <3>1, <4>3 DEF CheckOwner, Restarting
        <5>2. QED
          BY <2>0, <3>0, <4>1, <5>1 DEF OutdatedIsReplaced
      <4>4. QED
        BY <4>2, <4>3
    <3>2. CASE SetActive(h) \/ InsertRow(h) \/ StoreBean(h)
      BY <2>3, <3>2 DEF SetActive, InsertRow, StoreBean, Goto, Restarting, TypeOK
    <3>3. CASE FindMonitor(h)
      BY <2>3, <3>3 DEF FindMonitor, Goto, Exists, Restarting, TypeOK, dbVars
    <3>4. CASE Register(h)
      <4>1. monitorList'[m] = held[h] /\ UNCHANGED <<snapshot, config>>
        BY <2>3, <3>4 DEF Register, TypeOK, dbVars
      <4>2. QED
        BY <2>3, <3>4, <4>1 DEF HeldIsFresh, Register
    <3>5. CASE SetPaused(h) \/ DeleteRow(h)
      <4>1. row[m] = "active"
        BY <2>3, <3>5 DEF SetPaused, DeleteRow, Exists, TypeOK
      <4>2. QED
        BY <2>3, <3>5, <4>1 DEF SetPaused, DeleteRow, Exists, TypeOK
    <3>6. CASE StopRegistered(h) \/ LoadBean(h) \/ DeleteFind(h)
      <4>1. UNCHANGED <<row, config, monitorList, snapshot>> /\ pc[h] \notin Restarting
        BY <3>6 DEF StopRegistered, LoadBean, DeleteFind, Restarting, dbVars, instVars
      <4>2. QED
        BY <2>0, <3>0, <4>1 DEF OutdatedIsReplaced
    <3>7. CASE CheckActive(h)
      <4>1. wasActive[h]
        BY <2>3, <3>7 DEF CheckActive, BeanIsCurrent, dbVars
      <4>2. QED
        BY <2>3, <3>7, <4>1 DEF CheckActive, Goto, Restarting, TypeOK
    <3>8. CASE Unregister(h)
      BY <2>3, <3>8 DEF Unregister, TypeOK
    <3>9. QED
      BY <2>3, <3>1, <3>2, <3>3, <3>4, <3>5, <3>6, <3>7, <3>8 DEF HandlerStep
  <2>4. QED
    BY <1>3, <2>1, <2>2, <2>3
<1>4. CASE Crash
  BY <1>4 DEF Crash
<1>5. CASE UNCHANGED vars
  BY <1>5 DEF vars, dbVars, hVars, instVars, OutdatedIsReplaced
<1>6. QED
  BY <1>1, <1>2, <1>3, <1>4, <1>5 DEF Next, QueryFails

\* An active monitor is checked with the configuration its row holds, as long as the
\* handlers that work on one monitor do so one after another and no query fails: an edit
\* stored is followed by a restart of the instance, and what is loaded was not edited since.
THEOREM ConfigFreshHolds ==
  ASSUME EarlyUsers = FALSE, Failures = FALSE
  PROVE  Spec /\ []OneAtATime => []ConfigFresh
<1>1. Init => IInv /\ FreshInv
  BY TypeInit, OrphanInit, BootLoadsInit, FreshInit DEF IInv, FreshInv
<1>2. IInv /\ FreshInv /\ OneAtATime /\ [Next]_vars => (IInv /\ FreshInv)'
  <2> SUFFICES ASSUME IInv, FreshInv, OneAtATime, [Next]_vars PROVE IInv' /\ FreshInv'
    OBVIOUS
  <2>1. IInv'
    BY TypeStep, BootFirstStep, LiveIsRegisteredStep DEF IInv
  <2>2. BootLoads' /\ BeanIsCurrent' /\ HeldIsFresh'
    BY BootLoadsStep, BeanIsCurrentStep, HeldIsFreshStep DEF IInv, FreshInv
  <2>3. OutdatedIsReplaced'
    BY OutdatedIsReplacedStep
  <2>4. QED
    BY <2>1, <2>2, <2>3 DEF FreshInv
<1>3. IInv /\ FreshInv => ConfigFresh
  <2> SUFFICES ASSUME TypeOK, OutdatedIsReplaced PROVE ConfigFresh
    BY DEF IInv, FreshInv
  <2>1. QED
    BY DEF OutdatedIsReplaced, ConfigFresh, Quiet
<1>4. QED
  BY <1>1, <1>2, <1>3, PTL DEF Spec

-------------------------------------------------------------------------------
(* An active monitor is watched.                                                *)

LEMMA WatchInit == Init => OneAnswer /\ Numbered /\ StopsPaused /\ ActiveIsWatched
BY ColdTypes DEF Init, OneAnswer, Numbered, StopsPaused, ActiveIsWatched, Delivered

\* With one connection a query is answered when no other answer is being handled.
LEMMA QueriesWait ==
  ASSUME Pooled = FALSE, NEW h \in Handlers, HandlerStep(h), pc[h] \notin Delivered
  PROVE  boot = "loop" /\ \A g \in Handlers : pc[g] \notin Delivered
BY DEF HandlerStep, CheckOwner, SetActive, FindMonitor, Register, SetPaused, StopRegistered,
   InsertRow, LoadBean, StoreBean, CheckActive, DeleteFind, Unregister, DeleteRow,
   ConnectionFree, Delivered

\* What is done with an answer does not end in another answer.
LEMMA AnswersEnd ==
  ASSUME TypeOK, NEW h \in Handlers, User(h) \/ HandlerStep(h), pc'[h] \in Delivered
  PROVE  HandlerStep(h) /\ pc[h] \notin Delivered
BY DEF User, BeginAdd, BeginEdit, BeginResume, BeginPause, BeginDelete, Begin,
   HandlerStep, CheckOwner, SetActive, FindMonitor, Register, SetPaused, StopRegistered,
   InsertRow, LoadBean, StoreBean, CheckActive, DeleteFind, Unregister, DeleteRow,
   Goto, Return, Delivered, TypeOK

LEMMA OneAnswerStep ==
  ASSUME Pooled = FALSE, Failures = FALSE, TypeOK, OneAnswer, [Next]_vars
  PROVE  OneAnswer'
<1>1. CASE BootStep \/ \E i \in Instances : InstanceStep(i)
  BY <1>1, ProcessSteps DEF OneAnswer
<1>2. ASSUME NEW h \in Handlers, User(h) \/ HandlerStep(h) PROVE OneAnswer'
  <2>1. \A g \in Handlers : g # h => pc'[g] = pc[g]
    BY <1>2, OtherHandlers
  <2>2. CASE pc'[h] \in Delivered
    BY <1>2, <2>1, <2>2, AnswersEnd, QueriesWait DEF OneAnswer
  <2>3. CASE pc'[h] \notin Delivered
    BY <2>1, <2>3 DEF OneAnswer
  <2>4. QED
    BY <2>2, <2>3
<1>3. CASE Crash
  BY <1>3, ColdTypes DEF Crash, OneAnswer, Delivered
<1>4. CASE UNCHANGED vars
  BY <1>4 DEF vars, hVars, OneAnswer
<1>5. QED
  BY <1>1, <1>2, <1>3, <1>4 DEF Next, QueryFails

\* While a handler takes a step no other handler has an answer to go on with, before or after.
LEMMA NoOtherAnswer ==
  ASSUME Pooled = FALSE, TypeOK, OneAnswer, NEW h \in Handlers, HandlerStep(h),
         NEW g \in Handlers, g # h
  PROVE  pc[g] \notin Delivered /\ pc'[g] \notin Delivered
<1>1. pc[g] \notin Delivered
  BY QueriesWait DEF OneAnswer
<1>2. QED
  BY <1>1, OtherHandlers

\* The steps that stop an instance stop the registered one.
LEMMA StopsRegistered ==
  ASSUME TypeOK, NEW h \in Handlers, Register(h) \/ StopRegistered(h) \/ Unregister(h)
  PROVE  /\ target[h] \in Monitors /\ UNCHANGED <<made, row>> /\ pc'[h] \notin Delivered
         /\ isStop' = IsStopAfterStop(monitorList[target[h]])
         /\ monitorList[target[h]] # None => monitorList[target[h]] \in Instances
                                             /\ monitorList[target[h]][1] = target[h]
BY DEF Register, StopRegistered, Unregister, Goto, Return, Delivered, TypeOK, dbVars

LEMMA NumberedStep ==
  ASSUME Pooled = FALSE, Failures = FALSE, IInv, WatchInv, [Next]_vars
  PROVE  Numbered'
<1> USE DEF IInv, WatchInv
<1>1. CASE BootRegister
  <2>1. \A m \in Monitors : monitorList'[m] # None => monitorList'[m][2] <= made'[m]
    BY <1>1, BoundAssumption DEF BootRegister, TypeOK, Numbered
  <2>2. /\ UNCHANGED <<isStop, made>>
        /\ \A g \in Handlers : pc'[g] # "register"
    BY <1>1 DEF BootRegister, BootFirst, hVars
  <2>3. QED
    BY <2>1, <2>2 DEF Numbered
<1>2. CASE (BootStep /\ ~BootRegister) \/ \E i \in Instances : InstanceStep(i)
  <2>1. UNCHANGED <<monitorList, made, isStop, pc, held, target>>
    BY <1>2, ProcessSteps DEF BootStep, BootRead, BootStart, InstanceStep, TagsLoaded, TimerFires,
       BeatEnds, PushInTime
  <2>2. QED
    BY <2>1 DEF Numbered
<1>3. ASSUME NEW h \in Handlers, User(h) PROVE Numbered'
  <2>1. UNCHANGED <<monitorList, made, isStop>> /\ pc'[h] # "register"
    BY <1>3 DEF User, BeginAdd, BeginEdit, BeginResume, BeginPause, BeginDelete, Begin, Goto,
       TypeOK, instVars
  <2>2. \A g \in Handlers : g # h => pc'[g] = pc[g] /\ target'[g] = target[g] /\ held'[g] = held[g]
    BY <1>3, OtherHandlers
  <2>3. QED
    BY <2>1, <2>2 DEF Numbered
<1>4. ASSUME NEW h \in Handlers, Register(h) \/ StopRegistered(h) \/ Unregister(h) PROVE Numbered'
  <2> DEFINE m == target[h]
             old == monitorList[m]
  <2>1. /\ m \in Monitors /\ UNCHANGED made /\ isStop' = IsStopAfterStop(old)
        /\ pc'[h] \notin Delivered
        /\ old # None => old \in Instances /\ old[1] = m /\ old[2] <= made[m]
    BY <1>4, StopsRegistered DEF Numbered
  <2>2. \A g \in Handlers : pc'[g] # "register"
    BY <1>4, <2>1, NoOtherAnswer DEF HandlerStep, Delivered
  <2>3. \A i \in Instances : isStop'[i] => i[2] <= made'[i[1]]
    BY <2>1, NoneIsNoInstance DEF IsStopAfterStop, Numbered
  <2>4. \A n \in Monitors : monitorList'[n] # None => monitorList'[n][2] <= made'[n]
    <3>1. CASE Register(h)
      <4>1. held[h] \in Instances /\ held[h][2] <= made[m]
        BY <3>1 DEF Register, Numbered, TypeOK
      <4>2. QED
        BY <2>1, <3>1, <4>1 DEF Register, TypeOK, Numbered
    <3>2. CASE StopRegistered(h) \/ Unregister(h)
      BY <2>1, <3>2 DEF StopRegistered, Unregister, TypeOK, Numbered
    <3>3. QED
      BY <1>4, <3>1, <3>2
  <2>5. QED
    BY <2>2, <2>3, <2>4 DEF Numbered
<1>5. ASSUME NEW h \in Handlers, FindMonitor(h), Exists(target[h]) PROVE Numbered'
  <2> DEFINE m == target[h]
             i == <<m, made[m] + 1>>
  <2>1. m \in Monitors /\ made[m] < MaxInst /\ UNCHANGED <<monitorList, isStop, target>>
    BY <1>5 DEF FindMonitor, Return, TypeOK
  <2>2. i \in Instances
    BY <2>1, BoundAssumption DEF Instances, TypeOK
  <2>3. made' = [made EXCEPT ![m] = @ + 1] /\ held'[h] = i
    BY <1>5 DEF FindMonitor, TypeOK
  <2>4. made'[m] = made[m] + 1 /\ \A n \in Monitors : n # m => made'[n] = made[n]
    BY <2>1, <2>3 DEF TypeOK
  <2>5. \A n \in Monitors : monitorList'[n] # None => monitorList'[n][2] <= made'[n]
    <3>1. ASSUME NEW n \in Monitors, monitorList[n] # None PROVE monitorList[n][2] <= made'[n]
      <4>1. monitorList[n][2] \in Nat /\ monitorList[n][2] <= made[n] /\ made[n] \in Nat
        BY <3>1, InstanceParts DEF Numbered, TypeOK
      <4>2. QED
        BY <2>4, <4>1
    <3>2. QED
      BY <2>1, <3>1
  <2>6. \A j \in Instances : isStop'[j] => j[2] <= made'[j[1]]
    <3>1. ASSUME NEW j \in Instances, isStop[j] PROVE j[2] <= made'[j[1]]
      <4>1. j[1] \in Monitors /\ j[2] \in Nat /\ j[2] <= made[j[1]] /\ made[j[1]] \in Nat
        BY <3>1, InstanceParts DEF Numbered, TypeOK
      <4>2. QED
        BY <2>4, <4>1
    <3>2. QED
      BY <2>1, <3>1
  <2>7. i # monitorList[m] /\ ~isStop[i]
    BY <2>1, <2>2, NoneIsNoInstance DEF Numbered, TypeOK
  <2>8. \A g \in Handlers : g # h => pc'[g] # "register"
    BY <1>5, NoOtherAnswer DEF HandlerStep, Delivered
  <2>9. /\ held'[h] # monitorList'[target'[h]] /\ ~isStop'[held'[h]]
        /\ held'[h][2] <= made'[target'[h]]
    <3>1. target'[h] = m /\ held'[h] = i /\ made'[m] = made[m] + 1 /\ made[m] \in Nat
      BY <2>1, <2>3, <2>4 DEF TypeOK
    <3>2. QED
      BY <2>1, <2>7, <3>1
  <2>10. \A g \in Handlers : pc'[g] = "register" => g = h
    BY <2>8
  <2>11. QED
    BY <2>5, <2>6, <2>9, <2>10 DEF Numbered
<1>6. ASSUME NEW h \in Handlers, HandlerStep(h),
             ~(Register(h) \/ StopRegistered(h) \/ Unregister(h)),
             ~(FindMonitor(h) /\ Exists(target[h]))
      PROVE  Numbered'
  <2>1. UNCHANGED <<monitorList, made, isStop>> /\ pc'[h] # "register"
    BY <1>6 DEF HandlerStep, CheckOwner, SetActive, FindMonitor, SetPaused, InsertRow, LoadBean,
       StoreBean, CheckActive, DeleteFind, DeleteRow, Goto, Return, TypeOK, instVars
  <2>2. \A g \in Handlers : pc'[g] # "register"
    BY <1>6, <2>1, NoOtherAnswer DEF Delivered
  <2>3. QED
    BY <2>1, <2>2 DEF Numbered
<1>7. CASE Crash
  BY <1>7, ColdTypes DEF Crash, Numbered
<1>8. CASE UNCHANGED vars
  BY <1>8 DEF vars, hVars, instVars, Numbered
<1>9. QED
  BY <1>1, <1>2, <1>3, <1>4, <1>5, <1>6, <1>7, <1>8 DEF Next, QueryFails

LEMMA StopsPausedStep ==
  ASSUME Pooled = FALSE, Failures = FALSE, IInv, WatchInv, [Next]_vars
  PROVE  StopsPaused'
<1> USE DEF IInv, WatchInv
<1> SUFFICES ASSUME NEW g \in Handlers, pc'[g] = "stop"
             PROVE  row'[target'[g]] # "active"
  BY DEF StopsPaused
<1>1. CASE BootStep \/ \E i \in Instances : InstanceStep(i)
  BY <1>1, ProcessSteps DEF StopsPaused
<1>2. ASSUME NEW h \in Handlers, User(h) PROVE row'[target'[g]] # "active"
  <2>1. UNCHANGED row /\ pc'[h] # "stop"
    BY <1>2 DEF User, BeginAdd, BeginEdit, BeginResume, BeginPause, BeginDelete, Begin, Goto,
       TypeOK, dbVars
  <2>2. QED
    BY <1>2, <2>1, OtherHandlers DEF StopsPaused
<1>3. ASSUME NEW h \in Handlers, HandlerStep(h) PROVE row'[target'[g]] # "active"
  <2>1. g = h
    BY <1>3, NoOtherAnswer DEF Delivered
  <2>2. SetPaused(h)
    BY <1>3, <2>1 DEF HandlerStep, CheckOwner, SetActive, FindMonitor, Register, StopRegistered,
       InsertRow, LoadBean, StoreBean, CheckActive, DeleteFind, Unregister, DeleteRow,
       Goto, Return, TypeOK
  <2>3. QED
    BY <2>1, <2>2 DEF SetPaused, Exists, TypeOK
<1>4. CASE Crash
  BY <1>4, ColdTypes DEF Crash
<1>5. CASE UNCHANGED vars
  BY <1>5 DEF vars, dbVars, hVars, StopsPaused
<1>6. QED
  BY <1>1, <1>2, <1>3, <1>4, <1>5 DEF Next, QueryFails

LEMMA ActiveIsWatchedStep ==
  ASSUME Pooled = FALSE, Failures = FALSE, IInv, WatchInv, [Next]_vars
  PROVE  ActiveIsWatched'
<1> USE DEF IInv, WatchInv
<1> DEFINE Worked(m) == \E g \in Handlers : target[g] = m /\ pc[g] \in Settling
<1> SUFFICES ASSUME NEW m \in Monitors, boot' = "loop", row'[m] = "active"
             PROVE  Monitored(m)' \/ Worked(m)'
  BY DEF ActiveIsWatched, Settling
<1>0. monitorList[m] # None => monitorList[m] \in Instances /\ monitorList[m][1] = m
  BY DEF TypeOK
<1>1. CASE BootRegister
  <2>1. boot = "register" /\ UNCHANGED <<row, isStop>>
    BY <1>1 DEF BootRegister, dbVars
  <2>2. <<m, 0>> \in Instances
    BY BoundAssumption, InstanceMake
  <2>3. phase[<<m, 0>>] = "loaded" /\ ~isStop[<<m, 0>>]
    BY <2>1, <2>2 DEF BootLoads
  <2>4. monitorList'[m] = <<m, 0>> /\ phase'[<<m, 0>>] = "queued"
    BY <1>1, <2>2, <2>3 DEF BootRegister
  <2>5. QED
    BY <2>1, <2>2, <2>3, <2>4, NoneIsNoInstance DEF Monitored, Live, Scheduled
<1>2. CASE (BootStep /\ ~BootRegister) \/ \E i \in Instances : InstanceStep(i)
  <2>1. boot = "loop" /\ UNCHANGED <<row, monitorList, pc, target>>
    BY <1>2, ProcessSteps DEF BootStep, BootRead, BootRegister, BootStart, InstanceStep,
       TagsLoaded, TimerFires, BeatEnds, PushInTime
  <2>2. \A j \in Instances : Live(j)' <=> Live(j)
    BY <1>2, <2>1, ChainsKeepLive DEF BootStep, BootRead, BootRegister
  <2>3. QED
    BY <1>0, <2>1, <2>2 DEF ActiveIsWatched, Monitored
<1>3. ASSUME NEW h \in Handlers, User(h) \/ HandlerStep(h) PROVE Monitored(m)' \/ Worked(m)'
  <2>0. boot = "loop"
    BY <1>3 DEF User, BeginAdd, BeginEdit, BeginResume, BeginPause, BeginDelete, Begin,
       HandlerStep, CheckOwner, SetActive, FindMonitor, Register, SetPaused, StopRegistered,
       InsertRow, LoadBean, StoreBean, CheckActive, DeleteFind, Unregister, DeleteRow
  <2>1. ASSUME NEW g \in Handlers, g # h, target[g] = m, pc[g] \in Settling PROVE Worked(m)'
    <3>1. target'[g] = m /\ pc'[g] \in Settling
      BY <1>3, <2>1, OtherHandlers
    <3>2. QED
      BY <3>1
  <2>2. CASE m # target[h]
    <3>1. row'[m] = row[m] /\ monitorList'[m] = monitorList[m]
      BY <1>3, <2>2, OtherMonitors
    <3>2. monitorList[m] # None => (Live(monitorList[m])' <=> Live(monitorList[m]))
      <4> SUFFICES ASSUME monitorList[m] # None
                   PROVE  Live(monitorList[m])' <=> Live(monitorList[m])
        OBVIOUS
      <4>1. /\ phase'[monitorList[m]] = phase[monitorList[m]]
            /\ isStop'[monitorList[m]] = isStop[monitorList[m]]
        BY <1>0, <1>3, <2>2, OtherInstances
      <4>2. QED
        BY <3>1, <4>1 DEF Live
    <3>3. QED
      BY <2>0, <2>1, <2>2, <3>1, <3>2 DEF ActiveIsWatched, Monitored
  <2>3. CASE m = target[h] /\ User(h)
    <3>1. UNCHANGED <<row, monitorList, phase, isStop>> /\ pc[h] = "idle"
      BY <2>3 DEF User, BeginAdd, BeginEdit, BeginResume, BeginPause, BeginDelete, Begin,
         dbVars, instVars
    <3>2. pc[h] \notin Settling
      BY <3>1 DEF Settling
    <3>3. QED
      BY <2>0, <2>1, <3>1, <3>2 DEF ActiveIsWatched, Monitored, Live
  <2>4. CASE m = target[h] /\ HandlerStep(h)
    <3>1. CASE CheckOwner(h)
      <4>1. UNCHANGED <<row, monitorList, phase, isStop>>
        BY <3>1 DEF CheckOwner, dbVars, instVars
      <4>2. CASE pc[h] = "owner"
        BY <2>4, <3>1, <4>1, <4>2 DEF CheckOwner, Exists, Goto, Settling, TypeOK
      <4>3. CASE pc[h] # "owner"
        <5>1. pc[h] \notin Settling
          BY <3>1, <4>3 DEF CheckOwner, Settling
        <5>2. QED
          BY <2>0, <2>1, <4>1, <5>1 DEF ActiveIsWatched, Monitored, Live
      <4>4. QED
        BY <4>2, <4>3
    <3>2. CASE SetActive(h) \/ InsertRow(h) \/ Unregister(h)
      BY <2>4, <3>2 DEF SetActive, InsertRow, Unregister, Goto, Settling, TypeOK
    <3>3. CASE FindMonitor(h)
      BY <2>4, <3>3 DEF FindMonitor, Goto, Exists, Settling, TypeOK, dbVars
    <3>4. CASE Register(h)
      <4>1. /\ held[h] \in Instances /\ ~isStop[held[h]] /\ held[h] # monitorList[m]
            /\ monitorList'[m] = held[h] /\ phase'[held[h]] = "tags"
            /\ isStop' = IsStopAfterStop(monitorList[m])
        BY <2>4, <3>4 DEF Register, Numbered, TypeOK, PhaseAfterStop
      <4>2. ~isStop'[held[h]]
        BY <4>1 DEF IsStopAfterStop
      <4>3. QED
        BY <4>1, <4>2, NoneIsNoInstance DEF Monitored, Live, Scheduled
    <3>5. CASE SetPaused(h) \/ DeleteRow(h)
      <4>1. row[m] = "active"
        BY <2>4, <3>5 DEF SetPaused, DeleteRow, Exists, TypeOK
      <4>2. QED
        BY <2>4, <3>5, <4>1 DEF SetPaused, DeleteRow, Exists, TypeOK
    <3>6. CASE StopRegistered(h)
      BY <2>4, <3>6 DEF StopRegistered, StopsPaused, dbVars
    <3>7. CASE LoadBean(h) \/ StoreBean(h) \/ CheckActive(h) \/ DeleteFind(h)
      <4>1. UNCHANGED <<row, monitorList, phase, isStop>> /\ pc[h] \notin Settling
        BY <3>7 DEF LoadBean, StoreBean, CheckActive, DeleteFind, Settling, dbVars, instVars
      <4>2. QED
        BY <2>0, <2>1, <4>1 DEF ActiveIsWatched, Monitored, Live
    <3>8. QED
      BY <2>4, <3>1, <3>2, <3>3, <3>4, <3>5, <3>6, <3>7 DEF HandlerStep
  <2>5. QED
    BY <1>3, <2>2, <2>3, <2>4
<1>4. CASE Crash
  BY <1>4 DEF Crash
<1>5. CASE UNCHANGED vars
  BY <1>5 DEF vars, dbVars, hVars, instVars, ActiveIsWatched, Monitored, Live
<1>6. QED
  BY <1>1, <1>2, <1>3, <1>4, <1>5 DEF Next, QueryFails

\* On a database with one connection no order of additions, edits, pauses, resumptions,
\* deletions, boots and crashes leaves an active monitor unwatched once its handlers are
\* done, however many of them overlap on it, as long as no query fails: an instance that is
\* registered was never stopped before, and only the instance of a paused row is stopped for good.
THEOREM ActiveIsMonitoredHolds ==
  ASSUME EarlyUsers = FALSE, Failures = FALSE, Pooled = FALSE
  PROVE  Spec => []ActiveIsMonitored
<1>1. Init => IInv /\ WatchInv
  BY TypeInit, OrphanInit, BootLoadsInit, WatchInit DEF IInv, WatchInv
<1>2. IInv /\ WatchInv /\ [Next]_vars => (IInv /\ WatchInv)'
  <2> SUFFICES ASSUME IInv, WatchInv, [Next]_vars PROVE IInv' /\ WatchInv'
    OBVIOUS
  <2>1. IInv'
    BY TypeStep, BootFirstStep, LiveIsRegisteredStep DEF IInv
  <2>2. BootLoads' /\ OneAnswer'
    BY BootLoadsStep, OneAnswerStep DEF IInv, WatchInv
  <2>3. Numbered' /\ StopsPaused' /\ ActiveIsWatched'
    BY NumberedStep, StopsPausedStep, ActiveIsWatchedStep
  <2>4. QED
    BY <2>1, <2>2, <2>3 DEF WatchInv
<1>3. IInv /\ WatchInv => ActiveIsMonitored
  BY DEF WatchInv, ActiveIsWatched, ActiveIsMonitored, Monitored, Quiet
<1>4. QED
  BY <1>1, <1>2, <1>3, PTL DEF Spec

===============================================================================
