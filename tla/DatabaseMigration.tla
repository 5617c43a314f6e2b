--------------------------- MODULE DatabaseMigration ---------------------------
(***************************************************************************)
(* The aggregate table migration of version 2 (server/database.js,           *)
(* migrateAggregateTable) as the servers that share a database run it at     *)
(* their start: the old heartbeats are counted into the stat_* tables, then   *)
(* all but the important and the last ones are deleted.                       *)
(*                                                                           *)
(* It runs without a transaction.  The setting migrateAggregateTableState is   *)
(* what keeps a second server, or the next start after a crash, from counting  *)
(* again; extra/reset-migrate-aggregate-table-state.js is the way back.        *)
(***************************************************************************)
EXTENDS Naturals, FiniteSets

CONSTANTS
  Servers,     \* processes with this database
  Beats,       \* rows of the heartbeat table at first
  MonitorOf,   \* of a beat: the number of its monitor
  DateOf,      \* of a beat: the number of its day
  Kept,        \* beats that are important or among the last of their monitor
  DevCounted,  \* beats that 2.0.0-dev has already counted, in a database it was used with
  StartsRace,  \* TRUE: two servers may read the state before either has set it
  MaxStarts    \* bound: starts of a server

\* What an instance has to satisfy.
MigrationAssumption ==
  /\ MonitorOf \in [Beats -> Nat] /\ DateOf \in [Beats -> Nat]
  /\ Kept \subseteq Beats /\ DevCounted \subseteq Beats
  /\ StartsRace \in BOOLEAN /\ MaxStarts \in Nat

VARIABLES
  heartbeat,  \* the rows there are
  counted,    \* of a beat: how often it is counted in the stat_* tables
  state,      \* the setting: "", "migrating" or "migrated"
  boot,       \* of a server: the step it is at, what is left to migrate
  starts,
  old,        \* history: what was counted at first
  reset,      \* history: the operator has reset the state
  waived      \* history: the operator has set the state to "migrated" by the environment

mvars == <<heartbeat, counted, state, boot, starts, old, reset, waived>>

Steps == {"off", "read", "list", "test", "mark", "count", "clear", "finish", "serve"}
Off   == [step |-> "off", left |-> {}, batch |-> {}]

Monitors == {MonitorOf[b] : b \in Beats}
Empty    == \A b \in Beats : counted[b] = 0

TypeOK ==
  /\ heartbeat \subseteq Beats
  /\ counted \in [Beats -> 0..2]
  /\ state \in {"", "migrating", "migrated"}
  /\ boot \in [Servers -> [step : Steps, left : SUBSET Monitors, batch : SUBSET Beats]]
  /\ starts \in 0..MaxStarts
  /\ \A s \in Servers : boot[s].batch # {} => boot[s].step = "count" /\ state # ""

Init ==
  /\ heartbeat = Beats
  /\ \E D \in {{}, DevCounted} : counted = [b \in Beats |-> IF b \in D THEN 1 ELSE 0]
  /\ state = ""
  /\ boot = [s \in Servers |-> Off]
  /\ starts = 0 /\ old = counted /\ reset = FALSE /\ waived = FALSE

Goto(s, step) == boot' = [boot EXCEPT ![s].step = step]

-----------------------------------------------------------------------------
\* The process starts; SET_MIGRATE_AGGREGATE_TABLE_TO_TRUE=1 ends the matter for ever.
Start(s, skip) ==
  /\ boot[s].step = "off" /\ starts < MaxStarts
  /\ StartsRace \/ \A o \in Servers : boot[o].step \notin {"read", "list", "test", "mark"}
  /\ starts' = starts + 1
  /\ state' = IF skip THEN "migrated" ELSE state
  /\ waived' = (waived \/ skip)
  /\ Goto(s, "read")
  /\ UNCHANGED <<heartbeat, counted, old, reset>>

\* mutant: only "migrated" is looked for
ReadState_OnlyMigrated(s) ==
  /\ boot[s].step = "read"
  /\ Goto(s, IF state = "migrated" THEN "serve" ELSE "list")
  /\ UNCHANGED <<heartbeat, counted, state, starts, old, reset, waived>>

\* "migrating": another server is at it, or one was interrupted.  The process exits.
ReadState(s) ==
  /\ boot[s].step = "read"
  /\ boot' = [boot EXCEPT ![s] =
       CASE state = "migrated"  -> [@ EXCEPT !.step = "serve"]
         [] state = "migrating" -> Off
         [] OTHER               -> [@ EXCEPT !.step = "list"]]
  /\ UNCHANGED <<heartbeat, counted, state, starts, old, reset, waived>>

\* The monitors that have heartbeats.
ListMonitors(s) ==
  /\ boot[s].step = "list"
  /\ boot' = [boot EXCEPT ![s].step = "test", ![s].left = {MonitorOf[b] : b \in heartbeat}]
  /\ UNCHANGED <<heartbeat, counted, state, starts, old, reset, waived>>

\* mutant: the tables are not looked at
TestEmpty_NotLooked(s) ==
  /\ boot[s].step = "test"
  /\ Goto(s, "mark")
  /\ UNCHANGED <<heartbeat, counted, state, starts, old, reset, waived>>

\* Statistics of 2.0.0-dev are left alone: no migration, and the state stays as it is.
TestEmpty(s) ==
  /\ boot[s].step = "test"
  /\ boot' = [boot EXCEPT ![s] = IF Empty THEN [@ EXCEPT !.step = "mark"]
                                 ELSE [Off EXCEPT !.step = "serve"]]
  /\ UNCHANGED <<heartbeat, counted, state, starts, old, reset, waived>>

Mark(s) ==
  /\ boot[s].step = "mark"
  /\ state' = "migrating"
  /\ Goto(s, "count")
  /\ UNCHANGED <<heartbeat, counted, starts, old, reset, waived>>

\* One monitor and one date after the other, in order: its heartbeats are read ...
Dates(s, m) == {DateOf[b] : b \in {x \in heartbeat : MonitorOf[x] = m}}

\* mutant: the loop over the dates ends before the last one
NextMonitor_LastDateLost(s) ==
  /\ boot[s].step = "count" /\ boot[s].batch = {} /\ boot[s].left # {}
  /\ \E m \in boot[s].left :
       boot' = [boot EXCEPT ![s].left = @ \ {m},
                            ![s].batch = {b \in heartbeat : MonitorOf[b] = m
                                            /\ \E d \in Dates(s, m) : d > DateOf[b]}]
  /\ UNCHANGED <<heartbeat, counted, state, starts, old, reset, waived>>

NextMonitor(s) ==
  /\ boot[s].step = "count" /\ boot[s].batch = {} /\ boot[s].left # {}
  /\ \E m \in boot[s].left :
       /\ \A n \in boot[s].left : m <= n
       /\ boot' = [boot EXCEPT ![s].left = @ \ {m},
                               ![s].batch = {b \in heartbeat : MonitorOf[b] = m}]
  /\ UNCHANGED <<heartbeat, counted, state, starts, old, reset, waived>>

\* ... and counted, the earliest date first.
CountOne(s) ==
  /\ boot[s].step = "count"
  /\ \E b \in boot[s].batch :
       /\ \A c \in boot[s].batch : DateOf[b] <= DateOf[c]
       /\ counted[b] < 2
       /\ counted' = [counted EXCEPT ![b] = @ + 1]
       /\ boot' = [boot EXCEPT ![s].batch = @ \ {b}]
  /\ UNCHANGED <<heartbeat, state, starts, old, reset, waived>>

Counted(s) ==
  /\ boot[s].step = "count" /\ boot[s].batch = {} /\ boot[s].left = {}
  /\ boot' = [boot EXCEPT ![s].step = "clear", ![s].left = Monitors]
  /\ UNCHANGED <<heartbeat, counted, state, starts, old, reset, waived>>

Cleared(m) == {b \in heartbeat : MonitorOf[b] # m \/ b \in Kept}

\* clearHeartbeatData(): one monitor after the other, every monitor of the database.
ClearMonitor(s) ==
  /\ boot[s].step = "clear"
  /\ IF boot[s].left = {} THEN Goto(s, "finish") /\ UNCHANGED heartbeat
     ELSE \E m \in boot[s].left :
            /\ heartbeat' = Cleared(m)
            /\ boot' = [boot EXCEPT ![s].left = @ \ {m}]
  /\ UNCHANGED <<counted, state, starts, old, reset, waived>>

Finish(s) ==
  /\ boot[s].step = "finish"
  /\ state' = "migrated"
  /\ boot' = [boot EXCEPT ![s] = [Off EXCEPT !.step = "serve"]]
  /\ UNCHANGED <<heartbeat, counted, starts, old, reset, waived>>

\* The nightly job of a server that runs.
NightlyClear(s) ==
  /\ boot[s].step = "serve"
  /\ \E m \in Monitors : heartbeat' = Cleared(m)
  /\ UNCHANGED <<counted, state, boot, starts, old, reset, waived>>

\* The process is stopped, at any point.
Crash(s) ==
  /\ boot[s].step # "off"
  /\ boot' = [boot EXCEPT ![s] = Off]
  /\ UNCHANGED <<heartbeat, counted, state, starts, old, reset, waived>>

\* npm run reset-migrate-aggregate-table-state, after an interrupted migration.
Reset ==
  /\ state = "migrating" /\ \A s \in Servers : boot[s].step = "off"
  /\ counted' = [b \in Beats |-> 0]
  /\ state' = ""
  /\ reset' = TRUE
  /\ UNCHANGED <<heartbeat, boot, starts, old, waived>>

Next ==
  \/ \E s \in Servers :
       \/ \E skip \in BOOLEAN : Start(s, skip)
       \/ ReadState(s) \/ ListMonitors(s) \/ TestEmpty(s) \/ Mark(s) \/ NextMonitor(s)
       \/ CountOne(s) \/ Counted(s) \/ ClearMonitor(s) \/ Finish(s) \/ NightlyClear(s) \/ Crash(s)
  \/ Reset

Spec == Init /\ [][Next]_mvars

-----------------------------------------------------------------------------
(* Properties *)

\* No heartbeat is counted twice, wherever a migration is interrupted and whoever starts next,
\* if two servers do not read the state at the same time.
CountedOnce == \A b \in Beats : counted[b] <= 1

\* A server that runs never shows statistics of a migration that was interrupted: it has all of
\* its heartbeats counted, or what 2.0.0-dev had counted, unless the operator waived the migration.
NeverHalf ==
  \A s \in Servers : boot[s].step = "serve" /\ ~waived =>
    \/ counted = old
    \/ \A b \in heartbeat : counted[b] = 1

\* A heartbeat is deleted only when the statistics have it, in a database that was neither
\* used with 2.0.0-dev nor reset, and whose operator did not waive the migration.
ClearedWasCounted ==
  (\A b \in Beats : old[b] = 0) /\ ~reset /\ ~waived =>
    \A b \in Beats \ heartbeat : counted[b] = 1

\* However servers start, stop and crash: no heartbeat is counted twice, no server runs with a part
\* of its statistics, and what is deleted was counted.
MigrationIsSound == CountedOnce /\ NeverHalf /\ ClearedWasCounted

\* The same with the reset that database.js and the log advise after an interruption.
NothingLost ==
  (\A b \in Beats : old[b] = 0) /\ ~waived /\ state = "migrated" =>
    \A b \in Beats \ heartbeat : counted[b] = 1

===============================================================================
