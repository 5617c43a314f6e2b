--------------------------- MODULE MonitorLifecycle ---------------------------
(***************************************************************************)
(* Who is checking which monitor, and when does that stop?                 *)
(*                                                                         *)
(* The server keeps one row per monitor in the database and one live       *)
(* Monitor object ("instance") per running monitor in server.monitorList.  *)
(* An instance is a chain of heartbeats: start() awaits the tags, then     *)
(* beat() runs and re-arms a timer.  stop() clears the timer and sets      *)
(* isStop, which a beat already under way reads when it ends.              *)
(*                                                                         *)
(* The socket handlers add, editMonitor, resumeMonitor, pauseMonitor and   *)
(* deleteMonitor, and startMonitors at boot, each run in several steps with *)
(* a database query between them, and interleave at those queries.  Every  *)
(* query of a handler is one step; what the handler does to memory when    *)
(* the answer arrives is a second step (pc "register", "stop",             *)
(* "unregister").                                                          *)
(***************************************************************************)
EXTENDS Naturals, FiniteSets

CONSTANTS
  Monitors,      \* ids of monitor rows, existing or yet to be added
  PushMonitors,  \* the monitors of type "push"
  GroupMembers,  \* the monitors that have a parent group, which may be paused
  Handlers,      \* socket events that may be in progress at the same time
  MaxInst,       \* bound: instances created per monitor and process, boot's not counted
  MaxEdits,      \* bound: edits stored per monitor
  MaxCrash,      \* bound: process crashes
  Pooled,        \* TRUE: MariaDB pool; FALSE: SQLite, whose pool has one connection
  EarlyUsers,    \* TRUE: socket events may run before startMonitors has filled the list
  Failures,      \* TRUE: a query of a handler may fail
  None

ASSUME PushAssumption    == PushMonitors \subseteq Monitors
ASSUME GroupAssumption   == GroupMembers \subseteq Monitors
ASSUME BoundAssumption   == MaxInst \in Nat /\ MaxEdits \in Nat /\ MaxCrash \in Nat
ASSUME SwitchAssumption  == {Pooled, EarlyUsers, Failures} \subseteq BOOLEAN
ASSUME NoneAssumption    == None \notin Monitors /\ None \notin Monitors \X Nat

VARIABLES
  row,          \* the monitor table: "absent" | "active" | "paused" | "gone"
  config,       \* version of the configuration stored in the row
  monitorList,  \* server.monitorList: the registered instance of each monitor
  phase,        \* where the heartbeat chain of an instance is
  isStop,       \* Monitor.isStop
  snapshot,     \* the configuration version an instance was loaded with
  made,         \* instances created so far for a monitor, in this process
  pc,           \* the step each socket handler is at
  target,       \* the monitor it works on
  wasActive,    \* editMonitor's bean.active, read when the bean was loaded
  held,         \* the instance startMonitor has loaded and not yet registered
  boot,         \* startMonitors: "read" | "register" | "loop"
  crashes

dbVars   == <<row, config>>
instVars == <<phase, isStop, snapshot, made>>
hVars    == <<pc, target, wasActive, held>>
vars     == <<dbVars, monitorList, instVars, hVars, boot, crashes>>

\* Instance <<m, 0>> is the one startMonitors loads for m; later ones count up.
Instances == Monitors \X (0..MaxInst)

\* "loaded": read from the database only; "queued": in startMonitors' list, not
\* started; "tags": start() awaits getTags(); "waiting": a timer is armed;
\* "checking": a beat is under way; "dead": no timer and no beat.
Phases    == {"none", "loaded", "queued", "tags", "waiting", "checking", "dead"}
Scheduled == {"queued", "tags", "waiting", "checking"}

\* Handler steps: pcs that are waiting for a query, and those whose answer has
\* arrived and whose synchronous continuation has yet to run.
Querying  == {"owner", "activate", "find", "pauseOwner", "deactivate", "load",
              "store", "isActive", "insert", "deleteFind", "delete"}
Delivered == {"register", "stop", "unregister"}

IsPush(i) == i[1] \in PushMonitors

TypeOK ==
  /\ row \in [Monitors -> {"absent", "active", "paused", "gone"}]
  /\ config \in [Monitors -> 0..MaxEdits]
  /\ monitorList \in [Monitors -> Instances \cup {None}]
  /\ phase \in [Instances -> Phases]
  /\ isStop \in [Instances -> BOOLEAN]
  /\ snapshot \in [Instances -> 0..MaxEdits]
  /\ made \in [Monitors -> 0..MaxInst]
  /\ pc \in [Handlers -> {"idle"} \cup Querying \cup Delivered]
  /\ target \in [Handlers -> Monitors \cup {None}]
  /\ wasActive \in [Handlers -> BOOLEAN]
  /\ held \in [Handlers -> Instances \cup {None}]
  /\ boot \in {"read", "register", "loop"}
  /\ crashes \in 0..MaxCrash
  /\ \A h \in Handlers : pc[h] # "idle" => target[h] \in Monitors
  /\ \A h \in Handlers : pc[h] = "register" =>
        held[h] \in Instances /\ held[h][1] = target[h]
  /\ \A m \in Monitors : monitorList[m] # None => monitorList[m][1] = m

\* What the process knows when it starts: nothing.
Cold == [monitorList |-> [m \in Monitors |-> None],
         phase       |-> [i \in Instances |-> "none"],
         isStop      |-> [i \in Instances |-> FALSE],
         snapshot    |-> [i \in Instances |-> 0],
         made        |-> [m \in Monitors |-> 0],
         pc          |-> [h \in Handlers |-> "idle"],
         target      |-> [h \in Handlers |-> None],
         wasActive   |-> [h \in Handlers |-> FALSE],
         held        |-> [h \in Handlers |-> None]]

Init ==
  /\ row \in [Monitors -> {"absent", "active", "paused"}]
  /\ config = [m \in Monitors |-> 0]
  /\ monitorList = Cold.monitorList
  /\ phase = Cold.phase /\ isStop = Cold.isStop
  /\ snapshot = Cold.snapshot /\ made = Cold.made
  /\ pc = Cold.pc /\ target = Cold.target
  /\ wasActive = Cold.wasActive /\ held = Cold.held
  /\ boot = "read"
  /\ crashes = 0

-------------------------------------------------------------------------------
(* The database: with one connection an answer is handled before another   *)
(* query takes effect, and startMonitors' query is the first of all.       *)

ConnectionFree ==
  \/ Pooled
  \/ boot = "loop" /\ \A h \in Handlers : pc[h] \notin Delivered

Goto(h, step) == pc' = [pc EXCEPT ![h] = step]

\* The handler returns, or its catch block answers { ok: false }.
Return(h) ==
  /\ pc'        = [pc EXCEPT ![h] = "idle"]
  /\ target'    = [target EXCEPT ![h] = None]
  /\ wasActive' = [wasActive EXCEPT ![h] = FALSE]
  /\ held'      = [held EXCEPT ![h] = None]

\* Monitor.stop() on instance i, or on nothing.
PhaseAfterStop(i) ==
  [j \in Instances |-> IF j = i /\ phase[j] = "waiting" THEN "dead" ELSE phase[j]]
\* mutant: clearing the timer is taken to be enough, isStop is set only then.
IsStopAfterStop_Timer(i) ==
  [j \in Instances |-> (j = i /\ phase[j] = "waiting") \/ isStop[j]]

IsStopAfterStop(i) == [j \in Instances |-> j = i \/ isStop[j]]

-------------------------------------------------------------------------------
(* startMonitors(): read all active rows, register them, start one by one. *)

BootRead ==
  /\ boot = "read"
  /\ boot' = "register"
  /\ phase' = [i \in Instances |->
                 IF i[2] = 0 /\ row[i[1]] = "active" THEN "loaded" ELSE phase[i]]
  /\ snapshot' = [i \in Instances |->
                    IF i[2] = 0 /\ row[i[1]] = "active" THEN config[i[1]] ELSE snapshot[i]]
  /\ UNCHANGED <<dbVars, monitorList, isStop, made, hVars, crashes>>

\* mutant: the loop variable is shared, every key gets the same instance.
BootRegister_SharedVariable ==
  /\ boot = "register"
  /\ boot' = "loop"
  /\ monitorList' = [m \in Monitors |->
       IF phase[<<m, 0>>] = "loaded"
       THEN <<CHOOSE n \in Monitors : phase[<<n, 0>>] = "loaded", 0>> ELSE monitorList[m]]
  /\ phase' = [i \in Instances |->
                 IF i[2] = 0 /\ phase[i] = "loaded" THEN "queued" ELSE phase[i]]
  /\ UNCHANGED <<dbVars, isStop, snapshot, made, hVars, crashes>>

\* server.monitorList[monitor.id] = monitor, whatever was there before.
BootRegister ==
  /\ boot = "register"
  /\ boot' = "loop"
  /\ monitorList' = [m \in Monitors |->
                       IF phase[<<m, 0>>] = "loaded" THEN <<m, 0>> ELSE monitorList[m]]
  /\ phase' = [i \in Instances |->
                 IF i[2] = 0 /\ phase[i] = "loaded" THEN "queued" ELSE phase[i]]
  /\ UNCHANGED <<dbVars, isStop, snapshot, made, hVars, crashes>>

\* await monitor.start(io), for an instance that may have been stopped meanwhile.
BootStart(m) ==
  /\ boot = "loop"
  /\ phase[<<m, 0>>] = "queued"
  /\ \A n \in Monitors : phase[<<n, 0>>] # "tags"
  /\ phase' = [phase EXCEPT ![<<m, 0>>] = "tags"]
  /\ UNCHANGED <<dbVars, monitorList, isStop, snapshot, made, hVars, boot, crashes>>

-------------------------------------------------------------------------------
(* Monitor.start(): the heartbeat chain of one instance.                    *)

\* getTags() is answered: a push monitor arms a timer, the others beat at once.
TagsLoaded(i) ==
  /\ phase[i] = "tags"
  /\ phase' = [phase EXCEPT ![i] = IF IsPush(i) THEN "waiting" ELSE "checking"]
  /\ UNCHANGED <<dbVars, monitorList, isStop, snapshot, made, hVars, boot, crashes>>

TimerFires(i) ==
  /\ phase[i] = "waiting"
  /\ phase' = [phase EXCEPT ![i] = "checking"]
  /\ UNCHANGED <<dbVars, monitorList, isStop, snapshot, made, hVars, boot, crashes>>

\* mutant: the beat re-arms its timer whether or not it was stopped meanwhile.
BeatEnds_IgnoresStop(i) ==
  /\ phase[i] = "checking"
  /\ phase' = [phase EXCEPT ![i] = "waiting"]
  /\ UNCHANGED <<dbVars, monitorList, isStop, snapshot, made, hVars, boot, crashes>>

\* mutant: safeBeat() does not catch, a beat that throws is the last one.
BeatEnds_Uncaught(i) ==
  /\ phase[i] = "checking"
  /\ \E p \in {"dead", IF isStop[i] THEN "dead" ELSE "waiting"} :
       phase' = [phase EXCEPT ![i] = p]
  /\ UNCHANGED <<dbVars, monitorList, isStop, snapshot, made, hVars, boot, crashes>>

\* The end of beat(), or safeBeat()'s catch block: both look at isStop.
BeatEnds(i) ==
  /\ phase[i] = "checking"
  /\ phase' = [phase EXCEPT ![i] = IF isStop[i] THEN "dead" ELSE "waiting"]
  /\ UNCHANGED <<dbVars, monitorList, isStop, snapshot, made, hVars, boot, crashes>>

\* The push branch of beat() when the last push is recent enough: it arms the
\* timer and returns without looking at isStop.
PushInTime(i) ==
  /\ phase[i] = "checking"
  /\ IsPush(i)
  /\ phase' = [phase EXCEPT ![i] = "waiting"]
  /\ UNCHANGED <<dbVars, monitorList, isStop, snapshot, made, hVars, boot, crashes>>

-------------------------------------------------------------------------------
(* The socket handlers.                                                     *)

\* A socket event for monitor m arrives and the handler issues its first query.
Begin(h, m, first) ==
  /\ pc[h] = "idle"
  /\ EarlyUsers \/ boot = "loop"
  /\ Goto(h, first)
  /\ target' = [target EXCEPT ![h] = m]
  /\ UNCHANGED <<dbVars, monitorList, instVars, wasActive, held, boot, crashes>>

\* The bounds are tested here, so that a handler once begun never waits for one.
InFlight(m)    == Cardinality({g \in Handlers : target[g] = m})
MayRestart(m)  == made[m] + InFlight(m) < MaxInst

BeginAdd(h, m)    == row[m] = "absent" /\ InFlight(m) = 0 /\ MayRestart(m) /\ Begin(h, m, "insert")
BeginEdit(h, m)   == /\ row[m] # "absent" /\ MayRestart(m)
                     /\ config[m] + InFlight(m) < MaxEdits
                     /\ Begin(h, m, "load")
BeginResume(h, m) == row[m] # "absent" /\ MayRestart(m) /\ Begin(h, m, "owner")
BeginPause(h, m)  == row[m] # "absent" /\ Begin(h, m, "pauseOwner")
BeginDelete(h, m) == row[m] # "absent" /\ Begin(h, m, "deleteFind")

Exists(m) == row[m] \in {"active", "paused"}

\* startMonitor: checkOwner throws when the row is gone.
CheckOwner(h) ==
  /\ pc[h] \in {"owner", "pauseOwner"}
  /\ ConnectionFree
  /\ \/ /\ Exists(target[h])
        /\ Goto(h, IF pc[h] = "owner" THEN "activate" ELSE "deactivate")
        /\ UNCHANGED <<target, wasActive, held>>
     \/ ~Exists(target[h]) /\ Return(h)
  /\ UNCHANGED <<dbVars, monitorList, instVars, boot, crashes>>

\* startMonitor: UPDATE monitor SET active = 1
SetActive(h) ==
  /\ pc[h] = "activate"
  /\ ConnectionFree
  /\ row' = [row EXCEPT ![target[h]] = IF Exists(target[h]) THEN "active" ELSE @]
  /\ Goto(h, "find")
  /\ UNCHANGED <<config, monitorList, instVars, target, wasActive, held, boot, crashes>>

\* startMonitor: R.findOne loads a new instance, or null, whose .id then throws.
FindMonitor(h) ==
  LET m == target[h]  i == <<m, made[m] + 1>> IN
  /\ pc[h] = "find"
  /\ ConnectionFree
  /\ \/ /\ Exists(m)
        /\ made[m] < MaxInst
        /\ made'     = [made EXCEPT ![m] = @ + 1]
        /\ phase'    = [phase EXCEPT ![i] = "loaded"]
        /\ snapshot' = [snapshot EXCEPT ![i] = config[m]]
        /\ held'     = [held EXCEPT ![h] = i]
        /\ Goto(h, "register")
        /\ UNCHANGED <<isStop, target, wasActive>>
     \/ ~Exists(m) /\ Return(h) /\ UNCHANGED instVars
  /\ UNCHANGED <<dbVars, monitorList, boot, crashes>>

\* mutant: the registered instance is replaced without being stopped.
Register_NoStop(h) ==
  LET m == target[h]  i == held[h] IN
  /\ pc[h] = "register"
  /\ phase' = [phase EXCEPT ![i] = "tags"]
  /\ monitorList' = [monitorList EXCEPT ![m] = i]
  /\ Return(h)
  /\ UNCHANGED <<dbVars, isStop, snapshot, made, boot, crashes>>

\* mutant: the new instance is registered first, then "the registered one" is stopped.
Register_StopsLate(h) ==
  LET m == target[h]  i == held[h] IN
  /\ pc[h] = "register"
  /\ isStop' = IsStopAfterStop(i)
  /\ phase'  = [phase EXCEPT ![i] = "tags"]
  /\ monitorList' = [monitorList EXCEPT ![m] = i]
  /\ Return(h)
  /\ UNCHANGED <<dbVars, snapshot, made, boot, crashes>>

\* startMonitor: stop the registered instance, register the new one, start it.
Register(h) ==
  LET m == target[h]  i == held[h]  old == monitorList[m] IN
  /\ pc[h] = "register"
  /\ isStop' = IsStopAfterStop(old)
  /\ phase'  = [PhaseAfterStop(old) EXCEPT ![i] = "tags"]
  /\ monitorList' = [monitorList EXCEPT ![m] = i]
  /\ Return(h)
  /\ UNCHANGED <<dbVars, snapshot, made, boot, crashes>>

\* pauseMonitor: UPDATE monitor SET active = 0
SetPaused(h) ==
  /\ pc[h] = "deactivate"
  /\ ConnectionFree
  /\ row' = [row EXCEPT ![target[h]] = IF Exists(target[h]) THEN "paused" ELSE @]
  /\ Goto(h, "stop")
  /\ UNCHANGED <<config, monitorList, instVars, target, wasActive, held, boot, crashes>>

\* pauseMonitor: the instance stays in monitorList.
StopRegistered(h) ==
  LET old == monitorList[target[h]] IN
  /\ pc[h] = "stop"
  /\ isStop' = IsStopAfterStop(old)
  /\ phase'  = PhaseAfterStop(old)
  /\ Return(h)
  /\ UNCHANGED <<dbVars, monitorList, snapshot, made, boot, crashes>>

\* add: the row is stored, active or not, with its notifications.
InsertRow(h) ==
  /\ pc[h] = "insert"
  /\ ConnectionFree
  /\ \E a \in {"active", "paused"} :
       /\ row' = [row EXCEPT ![target[h]] = a]
       /\ IF a = "active" THEN Goto(h, "owner") /\ UNCHANGED <<target, wasActive, held>>
                          ELSE Return(h)
  /\ UNCHANGED <<config, monitorList, instVars, boot, crashes>>

\* editMonitor: R.findOne; a missing row makes the handler throw.
LoadBean(h) ==
  LET m == target[h] IN
  /\ pc[h] = "load"
  /\ ConnectionFree
  /\ \/ /\ Exists(m)
        /\ wasActive' = [wasActive EXCEPT ![h] = row[m] = "active"]
        /\ Goto(h, "store")
        /\ UNCHANGED <<target, held>>
     \/ ~Exists(m) /\ Return(h)
  /\ UNCHANGED <<dbVars, monitorList, instVars, boot, crashes>>

\* editMonitor: R.store(bean) writes the changed columns, never "active".
StoreBean(h) ==
  LET m == target[h] IN
  /\ pc[h] = "store"
  /\ ConnectionFree
  /\ config[m] < MaxEdits
  /\ config' = [config EXCEPT ![m] = IF Exists(m) THEN @ + 1 ELSE @]
  /\ Goto(h, "isActive")
  /\ UNCHANGED <<row, monitorList, instVars, target, wasActive, held, boot, crashes>>

\* mutant: the restart is left out when no check is under way or scheduled yet.
CheckActive_OnlyRunning(h) ==
  LET old == monitorList[target[h]] IN
  /\ pc[h] = "isActive"
  /\ ConnectionFree
  /\ IF wasActive[h] /\ old # None /\ phase[old] \in {"waiting", "checking"}
     THEN Goto(h, "owner") /\ UNCHANGED <<target, wasActive, held>>
     ELSE Return(h)
  /\ UNCHANGED <<dbVars, monitorList, instVars, boot, crashes>>

\* editMonitor: Monitor.isActive(bean.id, bean.active) uses the bean loaded at
\* the start and reads the parents now; only then restartMonitor.
CheckActive(h) ==
  /\ pc[h] = "isActive"
  /\ ConnectionFree
  /\ \E parentActive \in IF target[h] \in GroupMembers THEN BOOLEAN ELSE {TRUE} :
       IF wasActive[h] /\ parentActive
       THEN Goto(h, "owner") /\ UNCHANGED <<target, wasActive, held>>
       ELSE Return(h)
  /\ UNCHANGED <<dbVars, monitorList, instVars, boot, crashes>>

\* deleteMonitor: the queries before Monitor.deleteMonitor.
DeleteFind(h) ==
  /\ pc[h] = "deleteFind"
  /\ ConnectionFree
  /\ Goto(h, "unregister")
  /\ UNCHANGED <<dbVars, monitorList, instVars, target, wasActive, held, boot, crashes>>

\* Monitor.deleteMonitor: stop the instance and forget it ...
Unregister(h) ==
  LET m == target[h]  old == monitorList[m] IN
  /\ pc[h] = "unregister"
  /\ isStop' = IsStopAfterStop(old)
  /\ phase'  = PhaseAfterStop(old)
  /\ monitorList' = [monitorList EXCEPT ![m] = None]
  /\ Goto(h, "delete")
  /\ UNCHANGED <<dbVars, snapshot, made, target, wasActive, held, boot, crashes>>

\* ... then DELETE FROM monitor.
DeleteRow(h) ==
  /\ pc[h] = "delete"
  /\ ConnectionFree
  /\ row' = [row EXCEPT ![target[h]] = IF Exists(target[h]) THEN "gone" ELSE @]
  /\ Return(h)
  /\ UNCHANGED <<config, monitorList, instVars, boot, crashes>>

\* A query throws and the handler's catch block answers the client.
QueryFails(h) ==
  /\ Failures
  /\ pc[h] \in Querying
  /\ Return(h)
  /\ UNCHANGED <<dbVars, monitorList, instVars, boot, crashes>>

\* The process dies, with handlers part way through, and starts again.
Crash ==
  /\ crashes < MaxCrash
  /\ crashes' = crashes + 1
  /\ monitorList' = Cold.monitorList
  /\ phase' = Cold.phase /\ isStop' = Cold.isStop
  /\ snapshot' = Cold.snapshot /\ made' = Cold.made
  /\ pc' = Cold.pc /\ target' = Cold.target
  /\ wasActive' = Cold.wasActive /\ held' = Cold.held
  /\ boot' = "read"
  /\ UNCHANGED dbVars

-------------------------------------------------------------------------------
InstanceStep(i) == TagsLoaded(i) \/ TimerFires(i) \/ BeatEnds(i) \/ PushInTime(i)

HandlerStep(h) ==
  \/ CheckOwner(h) \/ SetActive(h) \/ FindMonitor(h) \/ Register(h)
  \/ SetPaused(h) \/ StopRegistered(h)
  \/ InsertRow(h) \/ LoadBean(h) \/ StoreBean(h) \/ CheckActive(h)
  \/ DeleteFind(h) \/ Unregister(h) \/ DeleteRow(h)

BootStep == BootRead \/ BootRegister \/ \E m \in Monitors : BootStart(m)

User(h) == \E m \in Monitors :
  \/ BeginAdd(h, m) \/ BeginEdit(h, m) \/ BeginResume(h, m)
  \/ BeginPause(h, m) \/ BeginDelete(h, m)

Next ==
  \/ BootStep
  \/ \E i \in Instances : InstanceStep(i)
  \/ \E h \in Handlers : User(h) \/ HandlerStep(h) \/ QueryFails(h)
  \/ Crash

Spec == Init /\ [][Next]_vars

\* The program's own steps keep happening: timers fire, every check ends (each has
\* a timeout), queries are answered.  Socket events and crashes need not happen,
\* and nothing forces a push to arrive in time.
Fairness ==
  /\ WF_vars(BootRead) /\ WF_vars(BootRegister)
  /\ \A m \in Monitors : WF_vars(BootStart(m))
  /\ \A i \in Instances : WF_vars(TagsLoaded(i)) /\ WF_vars(TimerFires(i))
                          /\ WF_vars(BeatEnds(i) \/ PushInTime(i))
  /\ \A h \in Handlers : WF_vars(HandlerStep(h))

FairSpec == Spec /\ Fairness

-------------------------------------------------------------------------------
(* Properties *)

Live(i)  == phase[i] \in Scheduled /\ ~isStop[i]
Quiet(m) == \A h \in Handlers : target[h] # m

\* The instances startMonitor and deleteMonitor replaced or removed, where some
\* step of the chain is still to come.
LeftBehind(i) == phase[i] \in Scheduled /\ monitorList[i[1]] # i

\* An instance that is not, or no longer, in monitorList has been stopped and has
\* no next check: it finishes the beat it is in and its chain is over, whatever
\* was registered in its place meanwhile.  The chain of a push monitor is the
\* exception: PushInTime arms the timer of a stopped instance again, which then
\* goes on beside the registered one, out of stop()'s reach.
NoOrphan ==
  \A i \in Instances :
    LeftBehind(i) => isStop[i] /\ (phase[i] = "waiting" => IsPush(i))

\* After stop() no timer is left behind: "isStop = true, no next check"
\* (monitor.js, end of beat).  Push monitors are the exception, see PushInTime.
NoNextCheck ==
  \A i \in Instances : isStop[i] /\ phase[i] = "waiting" => IsPush(i)

\* The same for every monitor type, as the log line of beat() has it.
StoppedMeansNoNextCheck ==
  \A i \in Instances : isStop[i] => phase[i] # "waiting"

\* When no handler is at work on it, a monitor whose row is active has a live
\* registered instance: no order of add, edit, resume, pause, delete, boot and
\* crashes leaves an active monitor unwatched.
ActiveIsMonitored ==
  \A m \in Monitors :
    row[m] = "active" /\ Quiet(m) /\ boot = "loop"
      => monitorList[m] # None /\ Live(monitorList[m])

\* When no handler is at work on it, a paused or deleted monitor has no instance
\* that goes on beating (pauseMonitor, deleteMonitor).
InactiveIsQuiet ==
  \A m \in Monitors :
    row[m] # "active" /\ Quiet(m) => \A i \in Instances : i[1] = m => ~Live(i)

\* When no handler is at work on it, an active monitor is checked with the
\* configuration its row holds (editMonitor restarts it), group members apart:
\* editMonitor does not restart a member of a paused group.
ConfigFresh ==
  \A m \in Monitors \ GroupMembers :
    row[m] = "active" /\ Quiet(m) /\ monitorList[m] # None /\ boot = "loop"
      => snapshot[monitorList[m]] = config[m]

\* An active monitor keeps being checked until it is paused or deleted, across
\* crashes: its next beat always comes.
KeepsBeating ==
  \A m \in Monitors :
    row[m] = "active" ~> \/ row[m] # "active"
                        \/ \E i \in Instances : i[1] = m /\ Live(i) /\ phase[i] = "checking"

\* The chain of a stopped instance ends, push monitors apart.
StoppedEnds ==
  \A i \in Instances :
    ~IsPush(i) /\ isStop[i] ~> phase[i] \in {"dead", "none"}
===============================================================================
