----------------------- MODULE DatabaseMigrationProofs -----------------------
(***************************************************************************)
(* The migration of DatabaseMigration counts nothing twice and never leaves   *)
(* half of its work to a server that runs, for any number of servers, beats   *)
(* and restarts, as long as no two servers read the state at the same time.   *)
(* In the second half, what StatusPages (Page) says between requests, of any   *)
(* pages, domains and groups: also a sequence of queries a crash may cut.      *)
(***************************************************************************)
EXTENDS DatabaseMigration, TLAPS

Early   == {"read", "list", "test", "mark"}
Decided == {"list", "test", "mark"}
Late    == {"count", "clear", "finish"}

Step(s) == boot[s].step

Boot == [step : Steps, left : SUBSET Monitors, batch : SUBSET Beats]

\* The types the argument needs; TypeOK bounds counters that it does not.
Typed ==
  /\ heartbeat \subseteq Beats
  /\ counted \in [Beats -> Nat]
  /\ state \in {"", "migrating", "migrated"}
  /\ boot \in [Servers -> Boot]
  /\ \A s \in Servers : boot[s].batch # {} => boot[s].step = "count"
  /\ waived \in BOOLEAN

\* What keeps the servers apart: one of them is between the reading of the state and its
\* change, one of them migrates, and whoever has found no migration is alone with that.
Alone ==
  /\ \A s, o \in Servers : Step(s) \in Early /\ Step(o) \in Early => s = o
  /\ \A s, o \in Servers : Step(s) \in Late /\ Step(o) \in Late => s = o
  /\ \A s \in Servers : Step(s) \in Decided => state = ""
  /\ \A s \in Servers : Step(s) \in Late => state # ""

\* What the server that migrates has still to count is not counted yet.
Ahead ==
  /\ \A s \in Servers : Step(s) = "mark" => Empty
  /\ \A s \in Servers : Step(s) = "count" =>
       \A b \in Beats :
         /\ b \in boot[s].batch => counted[b] = 0 /\ MonitorOf[b] \notin boot[s].left
         /\ MonitorOf[b] \in boot[s].left => counted[b] = 0

\* What it has no longer to count is counted.
Behind ==
  /\ \A s \in Servers : Step(s) \in {"test", "mark"} =>
       \A b \in heartbeat : MonitorOf[b] \in boot[s].left
  /\ \A s \in Servers : Step(s) = "count" =>
       \A b \in heartbeat :
         counted[b] = 1 \/ b \in boot[s].batch \/ MonitorOf[b] \in boot[s].left
  /\ \A s \in Servers : Step(s) \in {"clear", "finish"} => \A b \in heartbeat : counted[b] = 1

\* What the state tells the next server, unless the operator has set it.
Told ==
  /\ state = "" => counted = old \/ Empty
  /\ ~waived /\ state = "migrated" =>
       /\ \A b \in heartbeat : counted[b] = 1
       /\ \A s \in Servers : Step(s) \notin Late
  /\ \A s \in Servers : Step(s) = "serve" /\ ~waived =>
       state = "migrated" \/ (state = "" /\ counted = old /\ ~Empty)

\* The inductive invariant.
IInv == Typed /\ Alone /\ Ahead /\ Behind /\ Told /\ CountedOnce

-----------------------------------------------------------------------------
\* The state of a fresh database satisfies it.
LEMMA InitIInv == MigrationAssumption /\ Init => IInv
<1> SUFFICES ASSUME MigrationAssumption, Init PROVE IInv
  OBVIOUS
<1>1. \A s \in Servers : boot[s] = Off /\ Step(s) = "off"
  BY DEF Init, Off, Step
<1>2. PICK D \in {{}, DevCounted} : counted = [b \in Beats |-> IF b \in D THEN 1 ELSE 0]
  BY DEF Init
<1>3. counted \in [Beats -> Nat] /\ CountedOnce
  BY <1>2 DEF CountedOnce
<1>4. Typed
  BY <1>3 DEF Init, Off, Typed, Boot, Steps, Monitors
<1>5. Alone /\ Ahead /\ Behind /\ Told
  BY <1>1 DEF Init, Alone, Ahead, Behind, Told, Early, Decided, Late
<1>6. QED
  BY <1>3, <1>4, <1>5 DEF IInv

\* A step of one server keeps the types of all, and leaves the others where they are.
LEMMA BootStep ==
  ASSUME Typed, NEW s \in Servers, NEW r \in Boot, r.batch # {} => r.step = "count",
         boot' = [boot EXCEPT ![s] = r]
  PROVE  /\ boot' \in [Servers -> Boot]
         /\ \A o \in Servers : boot'[o].batch # {} => boot'[o].step = "count"
BY DEF Typed

\* What a server can come to, from where it is.
LEMMA BootValues ==
  ASSUME Typed, NEW s \in Servers
  PROVE  /\ Off \in Boot /\ [Off EXCEPT !.step = "serve"] \in Boot
         /\ boot[s].left \subseteq Monitors /\ boot[s].batch \subseteq Beats
         /\ \A step \in Steps : [boot[s] EXCEPT !.step = step] \in Boot
         /\ \A step \in Steps, left \in SUBSET Monitors :
              [boot[s] EXCEPT !.step = step, !.left = left] \in Boot
         /\ \A left \in SUBSET Monitors, batch \in SUBSET Beats :
              [boot[s] EXCEPT !.left = left, !.batch = batch] \in Boot
         /\ \A left \in SUBSET Monitors : [boot[s] EXCEPT !.left = left] \in Boot
         /\ \A batch \in SUBSET Beats : [boot[s] EXCEPT !.batch = batch] \in Boot
BY DEF Typed, Boot, Off, Steps

\* Every action preserves the types.
LEMMA TypedStep ==
  ASSUME MigrationAssumption, Typed, [Next]_mvars
  PROVE  Typed'
<1>1. ASSUME NEW s \in Servers, NEW skip \in BOOLEAN, Start(s, skip) PROVE Typed'
  BY <1>1 DEF Typed, Start, Goto, Steps, Boot
<1>2. ASSUME NEW s \in Servers, ReadState(s) PROVE Typed'
  BY <1>2 DEF Typed, ReadState, Steps, Off, Boot
<1>3. ASSUME NEW s \in Servers, ListMonitors(s) PROVE Typed'
  <2>1. {MonitorOf[b] : b \in heartbeat} \in SUBSET Monitors
    BY DEF Typed, Monitors
  <2>2. QED
    BY <1>3, <2>1 DEF Typed, ListMonitors, Steps, Boot
<1>4. ASSUME NEW s \in Servers, TestEmpty(s) PROVE Typed'
  BY <1>4 DEF Typed, TestEmpty, Steps, Off, Boot
<1>5. ASSUME NEW s \in Servers, Mark(s) PROVE Typed'
  BY <1>5 DEF Typed, Mark, Goto, Steps, Boot
<1>6. ASSUME NEW s \in Servers, NextMonitor(s) PROVE Typed'
  <2>1. PICK m \in boot[s].left :
          boot' = [boot EXCEPT ![s].left = @ \ {m},
                               ![s].batch = {b \in heartbeat : MonitorOf[b] = m}]
    BY <1>6 DEF NextMonitor
  <2> DEFINE r == [boot[s] EXCEPT !.left = @ \ {m},
                                  !.batch = {b \in heartbeat : MonitorOf[b] = m}]
  <2>2. boot' = [boot EXCEPT ![s] = r]
    BY <2>1
  <2>3. boot[s].left \ {m} \in SUBSET Monitors /\ {b \in heartbeat : MonitorOf[b] = m} \in SUBSET Beats
    BY BootValues DEF Typed
  <2>4. r \in Boot /\ r.step = "count"
    BY <1>6, <2>3 DEF NextMonitor, Typed, Boot
  <2>5. QED
    BY <1>6, <2>2, <2>4, BootStep DEF NextMonitor, Typed
<1>7. ASSUME NEW s \in Servers, CountOne(s) PROVE Typed'
  <2>1. PICK b \in boot[s].batch : /\ counted' = [counted EXCEPT ![b] = @ + 1]
                                   /\ boot' = [boot EXCEPT ![s].batch = @ \ {b}]
    BY <1>7 DEF CountOne
  <2>2. counted' \in [Beats -> Nat]
    <3>1. b \in Beats /\ counted[b] + 1 \in Nat
      <4>1. boot[s] \in Boot
        BY DEF Typed
      <4>2. b \in Beats
        BY <4>1 DEF Boot
      <4>3. counted[b] \in Nat
        BY <4>2 DEF Typed
      <4>4. QED
        BY <4>2, <4>3
    <3>2. QED
      BY <2>1, <3>1 DEF Typed
  <2> DEFINE r == [boot[s] EXCEPT !.batch = @ \ {b}]
  <2>3. boot' = [boot EXCEPT ![s] = r]
    BY <2>1
  <2>4. r \in Boot /\ r.step = "count"
    BY <1>7 DEF CountOne, Typed, Boot
  <2>5. QED
    BY <1>7, <2>2, <2>3, <2>4, BootStep DEF CountOne, Typed
<1>8. ASSUME NEW s \in Servers, Counted(s) PROVE Typed'
  BY <1>8 DEF Typed, Counted, Steps, Boot
<1>9. ASSUME NEW s \in Servers, ClearMonitor(s) PROVE Typed'
  <2>1. CASE boot[s].left = {}
    <3> DEFINE r == [boot[s] EXCEPT !.step = "finish"]
    <3>1. boot' = [boot EXCEPT ![s] = r] /\ heartbeat' = heartbeat
      BY <1>9, <2>1 DEF ClearMonitor, Goto
    <3>2. r \in Boot /\ r.batch = {}
      BY <1>9 DEF ClearMonitor, Typed, Boot, Steps
    <3>3. QED
      BY <1>9, <3>1, <3>2, BootStep DEF ClearMonitor, Typed
  <2>2. CASE boot[s].left # {}
    <3>1. PICK m \in boot[s].left : /\ heartbeat' = Cleared(m)
                                    /\ boot' = [boot EXCEPT ![s].left = @ \ {m}]
      BY <1>9, <2>2 DEF ClearMonitor
    <3>2. heartbeat' \subseteq Beats
      BY <3>1 DEF Cleared, Typed
    <3> DEFINE r == [boot[s] EXCEPT !.left = @ \ {m}]
    <3>3. boot' = [boot EXCEPT ![s] = r]
      BY <3>1
    <3>4. r \in Boot /\ r.batch = {}
      BY <1>9 DEF ClearMonitor, Typed, Boot
    <3>5. QED
      BY <1>9, <3>2, <3>3, <3>4, BootStep DEF ClearMonitor, Typed
  <2>3. QED
    BY <2>1, <2>2
<1>10. ASSUME NEW s \in Servers, Finish(s) PROVE Typed'
  BY <1>10 DEF Typed, Finish, Steps, Off, Boot
<1>11. ASSUME NEW s \in Servers, NightlyClear(s) PROVE Typed'
  BY <1>11 DEF Typed, NightlyClear, Cleared
<1>12. ASSUME NEW s \in Servers, Crash(s) PROVE Typed'
  BY <1>12 DEF Typed, Crash, Steps, Off, Boot
<1>13. ASSUME Reset PROVE Typed'
  BY <1>13 DEF Typed, Reset
<1>14. ASSUME UNCHANGED mvars PROVE Typed'
  BY <1>14 DEF Typed, mvars
<1>15. QED
  BY <1>1, <1>2, <1>3, <1>4, <1>5, <1>6, <1>7, <1>8, <1>9, <1>10, <1>11, <1>12, <1>13, <1>14
  DEF Next

\* Before the migration: every step up to the mark keeps the invariant.
LEMMA DecidingStep ==
  ASSUME MigrationAssumption, ~StartsRace, IInv, Typed', NEW s \in Servers,
         \/ \E skip \in BOOLEAN : Start(s, skip)
         \/ ReadState(s) \/ ListMonitors(s) \/ TestEmpty(s) \/ Mark(s)
  PROVE  IInv'
<1> USE DEF IInv, Typed, Boot, Step, Empty
<1>1. ASSUME NEW skip \in BOOLEAN, Start(s, skip) PROVE IInv'
  <2>1. /\ boot'[s].step = "read" /\ \A o \in Servers : o # s => boot'[o] = boot[o]
        /\ \A o \in Servers : boot[o].step \notin Early
    BY <1>1 DEF Start, Goto, Early
  <2>2. Alone'
    BY <1>1, <2>1 DEF Start, Alone, Early, Decided, Late
  <2>3. Ahead' /\ Behind'
    <3>1. Ahead'
      BY <1>1, <2>1 DEF Start, Ahead
    <3>2. Behind'
      BY <1>1, <2>1 DEF Start, Behind
    <3>3. QED
      BY <3>1, <3>2
  <2>4. Told'
    BY <1>1, <2>1 DEF Start, Told, Late
  <2>5. QED
    BY <1>1, <2>2, <2>3, <2>4 DEF Start, CountedOnce
<1>2. ASSUME ReadState(s) PROVE IInv'
  <2>1. /\ \A o \in Servers : o # s => boot'[o] = boot[o]
        /\ boot[s].step = "read"
        /\ \/ boot'[s].step = "serve" /\ state = "migrated"
           \/ boot'[s].step = "off"
           \/ boot'[s].step = "list" /\ state = ""
        /\ UNCHANGED <<heartbeat, counted, state, old, waived>>
    BY <1>2 DEF ReadState, Off
  <2>2. Alone'
    BY <2>1 DEF Alone, Early, Decided, Late
  <2>3. Ahead'
    BY <2>1 DEF Ahead
  <2>4. Behind'
    BY <2>1 DEF Behind
  <2>5. Told'
    BY <2>1 DEF Told, Late
  <2>6. QED
    BY <2>1, <2>2, <2>3, <2>4, <2>5 DEF CountedOnce
<1>3. ASSUME ListMonitors(s) PROVE IInv'
  <2>1. /\ \A o \in Servers : o # s => boot'[o] = boot[o]
        /\ boot[s].step = "list" /\ boot'[s].step = "test"
        /\ \A b \in heartbeat : MonitorOf[b] \in boot'[s].left
        /\ UNCHANGED <<heartbeat, counted, state, old, waived>>
    BY <1>3 DEF ListMonitors
  <2>2. Alone'
    BY <2>1 DEF Alone, Early, Decided, Late
  <2>3. Ahead'
    BY <2>1 DEF Ahead
  <2>4. Behind'
    BY <2>1 DEF Behind
  <2>5. Told'
    BY <2>1 DEF Told, Late
  <2>6. QED
    BY <2>1, <2>2, <2>3, <2>4, <2>5 DEF CountedOnce
<1>4. ASSUME TestEmpty(s) PROVE IInv'
  <2>1. /\ \A o \in Servers : o # s => boot'[o] = boot[o]
        /\ boot[s].step = "test"
        /\ \/ boot'[s].step = "serve" /\ ~Empty
           \/ boot'[s].step = "mark" /\ Empty /\ boot'[s].left = boot[s].left
        /\ UNCHANGED <<heartbeat, counted, state, old, waived>>
    BY <1>4 DEF TestEmpty, Off
  <2>2. state = ""
    BY <2>1 DEF Alone, Decided
  <2>3. Alone'
    BY <2>1 DEF Alone, Early, Decided, Late
  <2>4. Ahead'
    BY <2>1 DEF Ahead
  <2>5. Behind'
    BY <2>1 DEF Behind
  <2>6. Told'
    BY <2>1, <2>2 DEF Told, Late
  <2>7. QED
    BY <2>1, <2>3, <2>4, <2>5, <2>6 DEF CountedOnce
<1>5. ASSUME Mark(s) PROVE IInv'
  <2>1. /\ \A o \in Servers : o # s => boot'[o] = boot[o]
        /\ boot[s].step = "mark" /\ boot'[s].step = "count"
        /\ boot'[s].left = boot[s].left /\ boot'[s].batch = boot[s].batch
        /\ state' = "migrating" /\ UNCHANGED <<heartbeat, counted, old, waived>>
    BY <1>5 DEF Mark, Goto
  <2>2. state = "" /\ Empty
    BY <2>1 DEF Alone, Ahead, Decided
  <2>3. \A o \in Servers : boot[o].step \notin Late
    BY <2>2 DEF Alone
  <2>4. \A o \in Servers : boot[o].step = "serve" => waived
    BY <2>2 DEF Told
  <2>5. Alone'
    <3>1. \A o \in Servers : boot'[o].step \notin Early
      BY <2>1 DEF Alone, Early
    <3>2. \A o \in Servers : boot'[o].step \in Late => o = s
      BY <2>1, <2>3
    <3>3. QED
      BY <2>1, <3>1, <3>2 DEF Alone, Early, Decided
  <2>6. Ahead' /\ Behind'
    <3>1. \A o \in Servers : o # s => boot'[o].step # "count"
      BY <2>1, <2>3 DEF Late
    <3>2. Ahead'
      <4>1. \A o \in Servers : boot'[o].step # "mark"
        BY <2>1 DEF Alone, Early
      <4>2. \A b \in Beats : counted'[b] = 0
        BY <2>1, <2>2
      <4>3. boot'[s].batch = {}
        BY <2>1
      <4>4. QED
        BY <2>1, <3>1, <4>1, <4>2, <4>3 DEF Ahead
    <3>3. Behind'
      BY <2>1, <2>3, <3>1 DEF Behind, Late
    <3>4. QED
      BY <3>2, <3>3
  <2>7. Told'
    BY <2>1, <2>4 DEF Told, Late
  <2>8. QED
    BY <2>1, <2>5, <2>6, <2>7 DEF CountedOnce
<1>6. QED
  BY <1>1, <1>2, <1>3, <1>4, <1>5

\* The migration itself.
LEMMA MigratingStep ==
  ASSUME MigrationAssumption, IInv, Typed', NEW s \in Servers,
         NextMonitor(s) \/ CountOne(s) \/ Counted(s) \/ ClearMonitor(s) \/ Finish(s)
  PROVE  IInv'
<1> USE DEF IInv, Step, Empty
<1>1. ASSUME NextMonitor(s) PROVE IInv'
  <2>1. PICK m \in boot[s].left :
          /\ boot'[s].left = boot[s].left \ {m}
          /\ boot'[s].batch = {b \in heartbeat : MonitorOf[b] = m}
          /\ boot'[s].step = "count" /\ boot[s].step = "count" /\ boot[s].batch = {}
    <3>1. boot \in [Servers -> Boot] /\ boot[s] \in Boot
      BY DEF Typed
    <3>2. PICK m \in boot[s].left :
            boot' = [boot EXCEPT ![s].left = @ \ {m},
                                 ![s].batch = {b \in heartbeat : MonitorOf[b] = m}]
      BY <1>1 DEF NextMonitor
    <3>3. /\ boot'[s].left = boot[s].left \ {m}
          /\ boot'[s].batch = {b \in heartbeat : MonitorOf[b] = m}
          /\ boot'[s].step = boot[s].step
      BY <3>1, <3>2 DEF Boot
    <3>4. QED
      BY <1>1, <3>3 DEF NextMonitor
  <2>2. /\ \A o \in Servers : o # s => boot'[o] = boot[o]
        /\ UNCHANGED <<heartbeat, counted, state, old, waived>>
    BY <1>1 DEF NextMonitor, Typed, Boot
  <2>3. Alone'
    BY <2>1, <2>2 DEF Alone, Early, Decided, Late
  <2>4. Ahead'
    BY <2>1, <2>2 DEF Ahead
  <2>5. Behind'
    BY <2>1, <2>2 DEF Behind
  <2>6. Told'
    BY <2>1, <2>2 DEF Told, Late
  <2>7. QED
    BY <2>2, <2>3, <2>4, <2>5, <2>6 DEF CountedOnce
<1>2. ASSUME CountOne(s) PROVE IInv'
  <2>1. PICK b \in boot[s].batch :
          /\ counted' = [counted EXCEPT ![b] = @ + 1]
          /\ boot' = [boot EXCEPT ![s].batch = @ \ {b}]
          /\ boot[s].step = "count"
    BY <1>2 DEF CountOne
  <2>0. /\ boot'[s].batch = boot[s].batch \ {b}
        /\ boot'[s].left = boot[s].left
        /\ boot'[s].step = "count"
    BY <2>1 DEF Typed, Boot
  <2>2. /\ \A o \in Servers : o # s => boot'[o] = boot[o]
        /\ UNCHANGED <<heartbeat, state, old, waived>>
    BY <1>2 DEF CountOne, Typed
  <2>3. /\ b \in Beats /\ counted[b] = 0 /\ MonitorOf[b] \notin boot[s].left
        /\ counted'[b] = 1 /\ \A c \in Beats : c # b => counted'[c] = counted[c]
    <3>1. b \in Beats /\ counted \in [Beats -> Nat]
      BY DEF Typed, Boot
    <3>2. counted[b] = 0 /\ MonitorOf[b] \notin boot[s].left
      BY <2>1, <3>1 DEF Ahead
    <3>3. QED
      BY <2>1, <3>1, <3>2
  <2>4. /\ state # "" /\ (waived \/ state # "migrated")
        /\ \A o \in Servers : o # s => boot[o].step \notin Late
        /\ \A o \in Servers : boot[o].step \notin Decided
    BY <2>1 DEF Alone, Told, Late
  <2>5. Alone'
    BY <2>0, <2>1, <2>2 DEF Alone, Early, Decided, Late
  <2>6. Ahead'
    <3>1. \A o \in Servers : boot'[o].step # "mark"
      BY <2>0, <2>1, <2>2, <2>4 DEF Decided
    <3>2. \A o \in Servers : boot'[o].step = "count" => o = s
      BY <2>2, <2>4 DEF Late
    <3>3. QED
      BY <2>0, <2>1, <2>3, <3>1, <3>2 DEF Ahead
  <2>7. Behind'
    <3>1. \A o \in Servers : boot'[o].step \in {"test", "mark", "count", "clear", "finish"} => o = s
      BY <2>0, <2>1, <2>2, <2>4 DEF Decided, Late
    <3>2. QED
      BY <2>0, <2>1, <2>2, <2>3, <3>1 DEF Behind
  <2>8. Told'
    BY <2>0, <2>1, <2>2, <2>4 DEF Told, Late
  <2>9. CountedOnce'
    <3>1. \A c \in Beats : counted[c] <= 1
      BY DEF CountedOnce
    <3>2. QED
      BY <2>3, <3>1 DEF CountedOnce
  <2>10. QED
    BY <2>5, <2>6, <2>7, <2>8, <2>9
<1>3. ASSUME Counted(s) PROVE IInv'
  <2>1. /\ boot'[s].step = "clear" /\ boot[s].step = "count"
        /\ boot[s].batch = {} /\ boot[s].left = {}
        /\ \A o \in Servers : o # s => boot'[o] = boot[o]
        /\ UNCHANGED <<heartbeat, counted, state, old, waived>>
    BY <1>3 DEF Counted, Typed, Boot
  <2>2. Alone'
    BY <2>1 DEF Alone, Early, Decided, Late
  <2>3. Ahead'
    BY <2>1 DEF Ahead
  <2>4. Behind'
    BY <2>1 DEF Behind
  <2>5. Told'
    BY <2>1 DEF Told, Late
  <2>6. QED
    BY <2>1, <2>2, <2>3, <2>4, <2>5 DEF CountedOnce
<1>4. ASSUME ClearMonitor(s) PROVE IInv'
  <2>1. /\ boot'[s].step \in {"clear", "finish"} /\ boot[s].step = "clear"
        /\ \A o \in Servers : o # s => boot'[o] = boot[o]
        /\ UNCHANGED <<counted, state, old, waived>>
    <3>1. CASE boot[s].left = {}
      <4>1. boot' = [boot EXCEPT ![s].step = "finish"]
        BY <1>4, <3>1 DEF ClearMonitor, Goto
      <4>2. boot'[s].step = "finish" /\ \A o \in Servers : o # s => boot'[o] = boot[o]
        BY <4>1 DEF Typed, Boot
      <4>3. QED
        BY <1>4, <4>2 DEF ClearMonitor
    <3>2. CASE boot[s].left # {}
      <4>1. PICK m \in boot[s].left : boot' = [boot EXCEPT ![s].left = @ \ {m}]
        BY <1>4, <3>2 DEF ClearMonitor
      <4>2. boot'[s].step = "clear" /\ \A o \in Servers : o # s => boot'[o] = boot[o]
        BY <1>4, <4>1 DEF ClearMonitor, Typed, Boot
      <4>3. QED
        BY <1>4, <4>2 DEF ClearMonitor
    <3>3. QED
      BY <3>1, <3>2
  <2>2. heartbeat' \subseteq heartbeat
    BY <1>4 DEF ClearMonitor, Cleared, Typed, Boot
  <2>3. Alone'
    BY <2>1 DEF Alone, Early, Decided, Late
  <2>4. Ahead'
    BY <2>1 DEF Ahead
  <2>5. Behind'
    BY <2>1, <2>2 DEF Behind
  <2>6. Told'
    BY <2>1, <2>2 DEF Told, Late
  <2>7. QED
    BY <2>1, <2>3, <2>4, <2>5, <2>6 DEF CountedOnce
<1>5. ASSUME Finish(s) PROVE IInv'
  <2>1. /\ boot'[s].step = "serve" /\ boot[s].step = "finish" /\ state' = "migrated"
        /\ \A o \in Servers : o # s => boot'[o] = boot[o]
        /\ UNCHANGED <<heartbeat, counted, old, waived>>
    BY <1>5 DEF Finish, Off, Typed, Boot
  <2>2. \A o \in Servers : o # s => boot[o].step \notin Late
    BY <2>1 DEF Alone, Late
  <2>3. \A o \in Servers : boot[o].step \notin Decided
    BY <2>1 DEF Alone, Late
  <2>4. Alone'
    BY <2>1, <2>3 DEF Alone, Early, Decided, Late
  <2>5. Ahead'
    BY <2>1 DEF Ahead
  <2>6. Behind'
    BY <2>1 DEF Behind
  <2>7. Told'
    BY <2>1, <2>2 DEF Told, Behind, Late
  <2>8. QED
    BY <2>1, <2>4, <2>5, <2>6, <2>7 DEF CountedOnce
<1>6. QED
  BY <1>1, <1>2, <1>3, <1>4, <1>5

\* What else happens: the nightly job, crashes and the reset.
LEMMA OtherStep ==
  ASSUME MigrationAssumption, IInv, Typed',
         Reset \/ (\E s \in Servers : NightlyClear(s) \/ Crash(s)) \/ UNCHANGED mvars
  PROVE  IInv'
<1> USE DEF IInv, Step, Empty
<1>1. ASSUME NEW s \in Servers, NightlyClear(s) PROVE IInv'
  <2>1. heartbeat' \subseteq heartbeat /\ UNCHANGED <<counted, state, boot, old, waived>>
    BY <1>1 DEF NightlyClear, Cleared, Typed, Boot
  <2>2. Alone' /\ Ahead' /\ CountedOnce'
    BY <2>1 DEF Alone, Ahead, CountedOnce
  <2>3. Behind'
    BY <2>1 DEF Behind
  <2>4. Told'
    BY <2>1 DEF Told
  <2>5. QED
    BY <2>2, <2>3, <2>4
<1>2. ASSUME NEW s \in Servers, Crash(s) PROVE IInv'
  <2>1. /\ boot'[s].step = "off" /\ \A o \in Servers : o # s => boot'[o] = boot[o]
        /\ UNCHANGED <<heartbeat, counted, state, old, waived>>
    BY <1>2 DEF Crash, Off, Typed, Boot
  <2>2. Alone'
    BY <2>1 DEF Alone, Early, Decided, Late
  <2>3. Ahead'
    BY <2>1 DEF Ahead
  <2>4. Behind'
    BY <2>1 DEF Behind
  <2>5. Told'
    BY <2>1 DEF Told, Late
  <2>6. QED
    BY <2>1, <2>2, <2>3, <2>4, <2>5 DEF CountedOnce
<1>3. ASSUME Reset PROVE IInv'
  <2>1. /\ \A s \in Servers : boot'[s].step = "off"
        /\ \A b \in Beats : counted'[b] = 0
        /\ state' = "" /\ UNCHANGED <<heartbeat, old, waived>>
    BY <1>3 DEF Reset, Typed, Boot
  <2>2. Alone' /\ Ahead' /\ Behind'
    BY <2>1 DEF Alone, Ahead, Behind, Early, Decided, Late
  <2>3. Told'
    BY <2>1 DEF Told
  <2>4. CountedOnce'
    <3>1. \A b \in Beats : counted'[b] \in Nat /\ counted'[b] = 0
      BY <2>1 DEF Typed
    <3>2. QED
      BY <3>1 DEF CountedOnce
  <2>5. QED
    BY <2>2, <2>3, <2>4
<1>4. ASSUME UNCHANGED mvars PROVE IInv'
  BY <1>4 DEF mvars, Alone, Ahead, Behind, Told, CountedOnce
<1>5. QED
  BY <1>1, <1>2, <1>3, <1>4

\* IInv is inductive.
LEMMA IInvStep ==
  ASSUME MigrationAssumption, ~StartsRace, IInv, [Next]_mvars
  PROVE  IInv'
<1>1. Typed'
  BY TypedStep DEF IInv
<1>2. CASE \E s \in Servers :
             \/ \E skip \in BOOLEAN : Start(s, skip)
             \/ ReadState(s) \/ ListMonitors(s) \/ TestEmpty(s) \/ Mark(s)
  BY <1>1, <1>2, DecidingStep
<1>3. CASE \E s \in Servers :
             NextMonitor(s) \/ CountOne(s) \/ Counted(s) \/ ClearMonitor(s) \/ Finish(s)
  BY <1>1, <1>3, MigratingStep
<1>4. CASE Reset \/ (\E s \in Servers : NightlyClear(s) \/ Crash(s)) \/ UNCHANGED mvars
  BY <1>1, <1>4, OtherStep
<1>5. QED
  BY <1>2, <1>3, <1>4 DEF Next

-----------------------------------------------------------------------------
\* Whoever starts, stops, crashes or is reset, at whatever step of migrateAggregateTable(): no
\* heartbeat is counted twice, if no two servers read the state at once.
THEOREM NothingIsCountedTwice ==
  ASSUME MigrationAssumption, ~StartsRace
  PROVE  Spec => []CountedOnce
<1>1. Init => IInv
  BY InitIInv
<1>2. IInv /\ [Next]_mvars => IInv'
  BY IInvStep
<1>3. IInv => CountedOnce
  BY DEF IInv
<1>4. QED
  BY <1>1, <1>2, <1>3, PTL DEF Spec

\* A server that has come through migrateAggregateTable() has complete statistics, or those it
\* found, unless the operator has waived the migration: an interrupted one never passes for done.
THEOREM NoneIsLeftHalf ==
  ASSUME MigrationAssumption, ~StartsRace
  PROVE  Spec => []NeverHalf
<1>1. Init => IInv
  BY InitIInv
<1>2. IInv /\ [Next]_mvars => IInv'
  BY IInvStep
<1>3. IInv => NeverHalf
  BY DEF IInv, Told, NeverHalf, Step
<1>4. QED
  BY <1>1, <1>2, <1>3, PTL DEF Spec
-----------------------------------------------------------------------------
\* What is deleted was counted: the migration clears after it has counted, and the nightly job
\* only runs in a server whose statistics are complete.
LEMMA ClearedStep ==
  ASSUME MigrationAssumption, IInv, ClearedWasCounted, [Next]_mvars
  PROVE  ClearedWasCounted'
<1> SUFFICES ASSUME \A b \in Beats : old'[b] = 0, ~reset', ~waived', NEW b \in Beats, b \notin heartbeat'
             PROVE  counted'[b] = 1
  BY DEF ClearedWasCounted
<1>1. /\ Typed /\ Ahead /\ Behind /\ Told /\ counted \in [Beats -> Nat] /\ boot \in [Servers -> Boot]
  BY DEF IInv, Typed
<1>2. ASSUME UNCHANGED <<heartbeat, counted, old, reset>>, waived => waived' PROVE counted'[b] = 1
  BY <1>2 DEF ClearedWasCounted
<1>3. ASSUME NEW s \in Servers, NEW skip \in BOOLEAN, Start(s, skip) PROVE counted'[b] = 1
  BY <1>2, <1>3 DEF Start
<1>4. ASSUME NEW s \in Servers, CountOne(s) PROVE counted'[b] = 1
  <2>1. PICK c \in boot[s].batch : counted' = [counted EXCEPT ![c] = @ + 1]
    BY <1>4 DEF CountOne
  <2>2. b \notin heartbeat /\ counted[b] = 1
    BY <1>4 DEF CountOne, ClearedWasCounted
  <2>3. b \in boot[s].batch => counted[b] = 0
    BY <1>1, <1>4 DEF CountOne, Ahead, Step
  <2>4. QED
    BY <1>1, <2>1, <2>2, <2>3
<1>5. ASSUME NEW s \in Servers, ClearMonitor(s) PROVE counted'[b] = 1
  <2>1. b \in heartbeat => counted[b] = 1
    BY <1>1, <1>5 DEF ClearMonitor, Behind, Step
  <2>2. QED
    BY <1>5, <2>1 DEF ClearMonitor, ClearedWasCounted
<1>6. ASSUME NEW s \in Servers, NightlyClear(s) PROVE counted'[b] = 1
  <2>1. b \in heartbeat => counted[b] = 1
    <3>1. boot[s].step = "serve" /\ ~waived /\ \A c \in Beats : old[c] = 0
      BY <1>6 DEF NightlyClear
    <3>2. state = "migrated" \/ (counted = old /\ ~Empty)
      BY <1>1, <3>1 DEF Told, Step
    <3>3. state = "migrated"
      BY <3>1, <3>2 DEF Empty
    <3>4. QED
      BY <1>1, <3>1, <3>3 DEF Told
  <2>2. QED
    BY <1>6, <2>1 DEF NightlyClear, ClearedWasCounted
<1>7. ASSUME Reset PROVE counted'[b] = 1
  BY <1>7 DEF Reset
<1>8. CASE \E s \in Servers : \/ ReadState(s) \/ ListMonitors(s) \/ TestEmpty(s) \/ Mark(s) \/ NextMonitor(s)
                              \/ Counted(s) \/ Finish(s) \/ Crash(s)
  BY <1>2, <1>8 DEF ReadState, ListMonitors, TestEmpty, Mark, NextMonitor, Counted, Finish, Crash
<1>9. CASE UNCHANGED mvars
  BY <1>2, <1>9 DEF mvars
<1>10. QED
  BY <1>3, <1>4, <1>5, <1>6, <1>7, <1>8, <1>9 DEF Next

\* Starts are counted up to their bound.
Started == starts \in 0..MaxStarts

LEMMA StartsStep ==
  ASSUME MigrationAssumption, Started, [Next]_mvars
  PROVE  Started'
<1>1. starts' = starts \/ (starts < MaxStarts /\ starts' = starts + 1)
  BY DEF Next, mvars, Started, Start, ReadState, ListMonitors, TestEmpty, Mark, NextMonitor, CountOne, Counted, ClearMonitor,
         Finish, NightlyClear, Crash, Reset
<1>2. QED
  BY <1>1 DEF Started, MigrationAssumption

\* The tables of the migration have their types; only a server that migrates holds heartbeats it
\* has read, and the state says that somebody does.
THEOREM MigrationTypes ==
  ASSUME MigrationAssumption, ~StartsRace
  PROVE  Spec => []TypeOK
<1>0. Init => Started
  <2>1. Init => starts = 0
    BY DEF Init
  <2>2. MaxStarts \in Nat
    BY DEF MigrationAssumption
  <2>3. QED
    BY <2>1, <2>2 DEF Started
<1>1. Init => IInv /\ Started
  BY <1>0, InitIInv
<1>2. IInv /\ Started /\ [Next]_mvars => IInv' /\ Started'
  BY IInvStep, StartsStep
<1>3. IInv /\ Started => TypeOK
  <2> SUFFICES ASSUME IInv, Started PROVE TypeOK
    OBVIOUS
  <2>1. Typed /\ Alone /\ CountedOnce
    BY DEF IInv
  <2>2. counted \in [Beats -> 0..2]
    <3>1. \A b \in Beats : counted[b] \in Nat /\ counted[b] <= 1
      BY <2>1 DEF Typed, CountedOnce
    <3>2. \A b \in Beats : counted[b] \in 0..2
      BY <3>1
    <3>3. QED
      BY <2>1, <3>2 DEF Typed
  <2>3. \A s \in Servers : boot[s].batch # {} => boot[s].step = "count" /\ state # ""
    BY <2>1 DEF Typed, Alone, Step, Late
  <2>4. QED
    BY <2>1, <2>2, <2>3 DEF Typed, Boot, TypeOK, Started
<1>4. QED
  BY <1>1, <1>2, <1>3, PTL DEF Spec

\* A heartbeat is deleted only when the statistics have it, in a database that was neither used
\* with 2.0.0-dev nor reset, unless the operator has waived the migration.
THEOREM NothingUncountedIsCleared ==
  ASSUME MigrationAssumption, ~StartsRace
  PROVE  Spec => []ClearedWasCounted
<1>1. Init => IInv /\ ClearedWasCounted
  BY InitIInv DEF Init, ClearedWasCounted
<1>2. IInv /\ ClearedWasCounted /\ [Next]_mvars => IInv' /\ ClearedWasCounted'
  BY IInvStep, ClearedStep
<1>3. QED
  BY <1>1, <1>2, PTL DEF Spec

\* The three together, for any servers, beats and number of starts.
THEOREM MigrationSound ==
  ASSUME MigrationAssumption, ~StartsRace
  PROVE  Spec => []MigrationIsSound
<1>1. CountedOnce /\ NeverHalf /\ ClearedWasCounted => MigrationIsSound
  BY DEF MigrationIsSound
<1>2. QED
  BY <1>1, NothingIsCountedTwice, NoneIsLeftHalf, NothingUncountedIsCleared, PTL

-------------------------------------------------------------------------------
(* The second half: status pages.                                              *)

CONSTANTS
  PageIds, Slugs, Domains, GroupIds,
  PageTasks,     \* socket events that may be in progress at once
  PagesOverlap,  \* TRUE: two of them may be
  MaxPageOps,    \* bound: socket events
  MaxPageCrashes,
  NoPage         \* no page, no slug; as the entry page: the dashboard

VARIABLES
  slug,      \* status_page: the slug of a page that exists
  groupOf,   \* group: the page a group is on
  cname,     \* status_page_cname: the page of a domain
  spentIds,  \* ids of pages and groups given so far
  mapping,   \* StatusPage.domainMappingList
  entryPage, entrySetting,  \* server.entryPage, the setting
  ptask,     \* what a handler is at
  pageOps, pageCrashes,
  outdated,  \* history: domains whose page was deleted since the map was loaded, or renamed by
             \* a save that failed before it loaded the map
  adrift     \* history: the entry page was chosen though no page has the slug, or its page was
             \* renamed by a save that did not reach its end

Page == INSTANCE StatusPages

-------------------------------------------------------------------------------
(* Status pages: types.                                                        *)

\* What a request may be at.
Tasks ==
  [op : {"none", "save", "delete", "entry"}, step : Page!Steps,
   page : PageIds \cup {NoPage}, from : Slugs \cup {NoPage}, to : Slugs \cup {NoPage},
   domains : SUBSET Domains, list : SUBSET GroupIds, fresh : Nat, kept : SUBSET GroupIds,
   answer : [Domains -> Slugs \cup {NoPage}]]

\* A save has a slug to store, and what comes after the search has found a page.
Guided(q) ==
  /\ q.op = "save" => q.from \in Slugs /\ q.to \in Slugs
  /\ q.op = "delete" => q.from \in Slugs
  /\ q.step \in {"store", "domains", "load", "assign", "groups", "sweep"} => q.op = "save" /\ q.page \in PageIds
  /\ q.step \in {"remove", "page"} => q.op = "delete" /\ q.page \in PageIds
  /\ q.step = "setting" => q.op \in {"save", "delete"} /\ q.page \in PageIds
  /\ q.step = "entry" => q.op \in {"save", "entry"}
  /\ q.op = "save" /\ q.step = "entry" => q.page \in PageIds
  /\ q.step = "find" => q.op \in {"save", "delete"}

TasksInv == Page!TypeOK /\ \A t \in PageTasks : Guided(ptask[t])

\* PageOf finds the page with a slug, if there is one.
LEMMA PageOfIs ==
  ASSUME Page!PagesAssumption
  PROVE  /\ \A s : Page!PageOf(s) # NoPage => Page!PageOf(s) \in Page!Pages /\ slug[Page!PageOf(s)] = s
         /\ \A s : Page!PageOf(s) = NoPage => \A p \in Page!Pages : slug[p] # s
BY DEF Page!PageOf, Page!Pages, Page!PagesAssumption

\* The join has the type of the map.
LEMMA MappedTypes ==
  ASSUME Page!PagesAssumption, Page!TypeOK
  PROVE  /\ Page!Mapped \in [Domains -> Slugs \cup {NoPage}]
         /\ \A p \in Page!Pages \cup {NoPage} : Page!SlugOf(p) \in Slugs \cup {NoPage}
         /\ \A p \in Page!Pages : slug[p] \in Slugs /\ p \in PageIds
BY DEF Page!Mapped, Page!SlugOf, Page!Pages, Page!TypeOK

\* A request that is over.
LEMMA RestIs ==
  ASSUME Page!PagesAssumption, Page!TypeOK
  PROVE  Page!Rest \in Tasks /\ Guided(Page!Rest) /\ Page!Rest.step = "idle" /\ Page!Rest.op = "none" /\ Page!Rest.kept = {}
BY MappedTypes DEF Page!Rest, Tasks, Guided, Page!Steps

\* The invariant from the types of what a step writes.
LEMMA TasksAgain ==
  ASSUME TasksInv, NEW t \in PageTasks, NEW x \in Tasks, Guided(x), ptask' = [ptask EXCEPT ![t] = x],
         slug' \in [PageIds -> Slugs \cup {NoPage}], \A p, q \in Page!Pages' : slug'[p] = slug'[q] => p = q,
         groupOf' \in [GroupIds -> PageIds \cup {NoPage}], cname' \in [Domains -> Page!Pages' \cup {NoPage}],
         Page!Pages' \subseteq spentIds', {g \in GroupIds : groupOf'[g] # NoPage} \subseteq spentIds',
         mapping' \in [Domains -> Slugs \cup {NoPage}],
         entryPage' \in Slugs \cup {NoPage}, entrySetting' \in Slugs \cup {NoPage},
         pageOps' \in 0..MaxPageOps, pageCrashes' = pageCrashes, outdated' \subseteq Domains, adrift' \in BOOLEAN
  PROVE  TasksInv'
<1>1. ptask \in [PageTasks -> Tasks] /\ \A u \in PageTasks : Guided(ptask[u])
  BY DEF TasksInv, Page!TypeOK, Tasks
<1>2. ptask' \in [PageTasks -> Tasks] /\ \A u \in PageTasks : Guided(ptask'[u])
  BY <1>1
<1>3. Page!TypeOK'
  BY <1>2 DEF TasksInv, Page!TypeOK, Tasks
<1>4. (\A u \in PageTasks : Guided(ptask[u]))'
  BY <1>2 DEF Guided
<1>5. QED
  BY <1>3, <1>4 DEF TasksInv

\* The types hold at first ...
LEMMA PagesTypeInit == ASSUME Page!PagesAssumption PROVE Page!Init => TasksInv
<1> SUFFICES ASSUME Page!Init PROVE TasksInv
  OBVIOUS
<1>1. PICK p \in PageIds : p = CHOOSE x \in PageIds : TRUE
  BY DEF Page!PagesAssumption
<1>2. PICK s \in Slugs : s = CHOOSE x \in Slugs : TRUE
  BY DEF Page!PagesAssumption
<1>3. /\ slug = [q \in PageIds |-> IF q = p THEN s ELSE NoPage] /\ spentIds = {p}
      /\ entryPage \in {s, NoPage} /\ entrySetting = entryPage
  BY <1>1, <1>2 DEF Page!Init
<1>4. Page!Pages = {p}
  BY <1>3 DEF Page!Pages, Page!PagesAssumption
<1>5. mapping \in [Domains -> Slugs \cup {NoPage}] /\ Page!Mapped \in [Domains -> Slugs \cup {NoPage}]
  BY DEF Page!Init, Page!Mapped, Page!SlugOf
<1>6. ptask \in [PageTasks -> Tasks] /\ \A t \in PageTasks : Guided(ptask[t])
  BY <1>5 DEF Page!Init, Page!Rest, Tasks, Guided, Page!Steps
<1>7. pageOps \in 0..MaxPageOps /\ pageCrashes \in 0..MaxPageCrashes
  BY DEF Page!Init, Page!PagesAssumption
<1>8. QED
  BY <1>3, <1>4, <1>5, <1>6, <1>7 DEF Page!Init, TasksInv, Page!TypeOK, Tasks

\* A request that begins is counted.
LEMMA BegunPages ==
  ASSUME Page!PagesAssumption, TasksInv, NEW t \in PageTasks, NEW x, Page!Begin(t, x)
  PROVE  pageOps' \in 0..MaxPageOps /\ ptask' = [ptask EXCEPT ![t] = x]
BY DEF Page!Begin, TasksInv, Page!TypeOK, Page!PagesAssumption

\* ... and every step keeps them.
LEMMA PagesTypeStep == ASSUME Page!PagesAssumption PROVE TasksInv /\ [Page!Next]_(Page!pvars) => TasksInv'
<1> SUFFICES ASSUME TasksInv, [Page!Next]_(Page!pvars) PROVE TasksInv'
  OBVIOUS
<1>0. /\ ptask \in [PageTasks -> Tasks] /\ \A u \in PageTasks : Guided(ptask[u])
      /\ slug \in [PageIds -> Slugs \cup {NoPage}] /\ \A p, q \in Page!Pages : slug[p] = slug[q] => p = q
      /\ groupOf \in [GroupIds -> PageIds \cup {NoPage}] /\ cname \in [Domains -> Page!Pages \cup {NoPage}]
      /\ Page!Pages \subseteq spentIds /\ {g \in GroupIds : groupOf[g] # NoPage} \subseteq spentIds
      /\ mapping \in [Domains -> Slugs \cup {NoPage}]
      /\ entryPage \in Slugs \cup {NoPage} /\ entrySetting \in Slugs \cup {NoPage}
      /\ pageOps \in 0..MaxPageOps /\ pageCrashes \in 0..MaxPageCrashes /\ outdated \subseteq Domains
      /\ adrift \in BOOLEAN /\ NoPage \notin PageIds /\ NoPage \notin Slugs /\ MaxPageOps \in Nat
  BY DEF TasksInv, Page!TypeOK, Tasks, Page!PagesAssumption
<1>1. ASSUME NEW t \in PageTasks, NEW x \in Tasks, Guided(x), ptask' = [ptask EXCEPT ![t] = x],
             UNCHANGED <<slug, groupOf, cname, spentIds, mapping, pageCrashes, outdated>>, pageOps' \in 0..MaxPageOps,
             adrift' \in BOOLEAN, entryPage' \in Slugs \cup {NoPage}, entrySetting' \in Slugs \cup {NoPage}
      PROVE  TasksInv'
  <2>1. Page!Pages' = Page!Pages
    BY <1>1 DEF Page!Pages
  <2>2. QED
    BY <1>0, <1>1, <2>1, TasksAgain
<1>2. ASSUME NEW p \in PageIds, NEW s \in Slugs, Page!AddPage(p, s) PROVE TasksInv'
  <2>1. CASE slug' = slug
    <3>1. Page!Pages' = Page!Pages
      BY <2>1 DEF Page!Pages
    <3>2. QED
      BY <1>0, <1>2, <2>1, <3>1 DEF Page!AddPage, TasksInv, Page!TypeOK
  <2>2. CASE Page!PageOf(s) = NoPage /\ slug' = [slug EXCEPT ![p] = s]
    <3>1. Page!Pages' = Page!Pages \cup {p} /\ p \notin Page!Pages
      BY <1>0, <1>2, <2>2 DEF Page!Pages, Page!AddPage
    <3>2. \A x \in Page!Pages : slug[x] # s /\ slug'[x] = slug[x]
      BY <1>0, <2>2, <3>1, PageOfIs DEF Page!Pages
    <3>3. slug' \in [PageIds -> Slugs \cup {NoPage}] /\ slug'[p] = s
      BY <1>0, <2>2
    <3>4. \A x, y \in Page!Pages' : slug'[x] = slug'[y] => x = y
      BY <1>0, <3>1, <3>2, <3>3
    <3>5. cname' \in [Domains -> Page!Pages' \cup {NoPage}]
      BY <1>0, <1>2, <3>1 DEF Page!AddPage
    <3>6. Page!Pages' \subseteq spentIds' /\ {g \in GroupIds : groupOf'[g] # NoPage} \subseteq spentIds'
      BY <1>0, <1>2, <3>1 DEF Page!AddPage
    <3>7. pageOps' \in 0..MaxPageOps
      BY <1>0, <1>2 DEF Page!AddPage
    <3>8. QED
      BY <1>0, <1>2, <3>3, <3>4, <3>5, <3>6, <3>7 DEF Page!AddPage, TasksInv, Page!TypeOK
  <2>3. QED
    BY <1>2, <2>1, <2>2 DEF Page!AddPage
<1>3. ASSUME NEW t \in PageTasks, NEW p \in PageIds, NEW to \in Slugs, NEW domains \in SUBSET Domains,
             NEW list \in SUBSET GroupIds, NEW fresh \in 0..1, Page!BeginSave(t, p, to, domains, list, fresh)
      PROVE  TasksInv'
  <2> DEFINE x == [Page!Rest EXCEPT !.op = "save", !.step = "find", !.from = slug[p], !.to = to,
                           !.domains = domains, !.list = list, !.fresh = fresh]
  <2>1. slug[p] \in Slugs
    BY <1>3, MappedTypes DEF Page!BeginSave, TasksInv
  <2>0. fresh \in Nat /\ "find" \in Page!Steps
    BY DEF Page!Steps
  <2>2. x \in Tasks /\ Guided(x)
    <3>1. Page!Rest \in Tasks
      BY RestIs DEF TasksInv
    <3>2. QED
      BY <2>0, <2>1, <3>1 DEF Tasks, Guided
  <2>3. Page!Begin(t, x)
    BY <1>3 DEF Page!BeginSave
  <2> HIDE DEF x
  <2>4. QED
    BY <1>0, <1>1, <1>3, <2>2, <2>3, BegunPages DEF Page!BeginSave
<1>4. ASSUME NEW t \in PageTasks, NEW p \in PageIds, Page!BeginDelete(t, p) PROVE TasksInv'
  <2> DEFINE x == [Page!Rest EXCEPT !.op = "delete", !.step = "find", !.from = slug[p]]
  <2>1. slug[p] \in Slugs
    BY <1>4, MappedTypes DEF Page!BeginDelete, TasksInv
  <2>2. x \in Tasks /\ Guided(x)
    BY <2>1, MappedTypes DEF Page!Rest, Tasks, Guided, Page!Steps, TasksInv
  <2>3. Page!Begin(t, x)
    BY <1>4 DEF Page!BeginDelete
  <2> HIDE DEF x
  <2>4. QED
    BY <1>0, <1>1, <1>4, <2>2, <2>3, BegunPages DEF Page!BeginDelete
<1>5. ASSUME NEW t \in PageTasks, NEW s \in Slugs \cup {NoPage}, Page!SetEntry(t, s) PROVE TasksInv'
  <2> DEFINE x == [Page!Rest EXCEPT !.op = "entry", !.step = "entry", !.to = s]
  <2>1. x \in Tasks /\ Guided(x)
    BY <1>5, MappedTypes DEF Page!Rest, Tasks, Guided, Page!Steps, TasksInv
  <2>2. Page!Begin(t, x) /\ entrySetting' = s /\ adrift' \in BOOLEAN
    BY <1>5 DEF Page!SetEntry
  <2> HIDE DEF x
  <2>3. QED
    BY <1>0, <1>1, <1>5, <2>1, <2>2, BegunPages DEF Page!SetEntry
<1>6. ASSUME NEW t \in PageTasks, NEW step \in Page!Steps \ {"idle"}, NEW x,
             x = [ptask[t] EXCEPT !.step = step], Guided(x)
      PROVE  x \in Tasks
  BY <1>0, <1>6 DEF Tasks
<1>7. ASSUME NEW t \in PageTasks, NEW step \in Page!Steps \ {"idle"}, Page!Goto(t, step), Guided([ptask[t] EXCEPT !.step = step])
      PROVE  \E x \in Tasks : Guided(x) /\ ptask' = [ptask EXCEPT ![t] = x]
  <2>1. ptask' = [ptask EXCEPT ![t] = [ptask[t] EXCEPT !.step = step]]
    BY <1>0, <1>7 DEF Page!Goto
  <2>2. QED
    BY <1>6, <1>7, <2>1
<1>8. ASSUME NEW t \in PageTasks, Page!Work(t) PROVE TasksInv'
  <2>0. ptask[t] \in Tasks /\ Guided(ptask[t])
    BY <1>0
  <2>d. "done" \in Page!Steps \ {"idle"} /\ Guided([ptask[t] EXCEPT !.step = "done"])
    BY <2>0 DEF Guided, Page!Steps, Tasks
  <2>1. CASE Page!FindPage(t)
    <3> DEFINE p == Page!PageOf(ptask[t].from)
               x == [ptask[t] EXCEPT !.page = p, !.step = IF p = NoPage THEN "done" ELSE "store"]
    <3>1. p \in PageIds \cup {NoPage}
      BY PageOfIs DEF Page!Pages
    <3>2. x \in Tasks /\ Guided(x)
      BY <2>0, <2>1, <3>1 DEF Page!FindPage, Tasks, Guided, Page!Steps
    <3>3. ptask' = [ptask EXCEPT ![t] = x]
      BY <1>0, <2>1 DEF Page!FindPage
    <3> HIDE DEF x
    <3>4. QED
      BY <1>0, <1>1, <2>1, <3>2, <3>3 DEF Page!FindPage
  <2>2. CASE Page!StorePage(t)
    <3> DEFINE q == ptask[t]
    <3>1. q.op = "save" /\ q.to \in Slugs /\ q.page \in PageIds
      BY <2>0, <2>2 DEF Page!StorePage, Guided
    <3>2. Guided([ptask[t] EXCEPT !.step = "domains"]) /\ "domains" \in Page!Steps \ {"idle"}
      BY <2>0, <2>2 DEF Page!StorePage, Guided, Page!Steps, Tasks
    <3>3. PICK x \in Tasks : Guided(x) /\ ptask' = [ptask EXCEPT ![t] = x]
      BY <1>7, <2>2, <2>d, <3>2 DEF Page!StorePage
    <3>4. CASE slug' = slug
      BY <1>0, <1>1, <2>2, <3>3, <3>4 DEF Page!StorePage
    <3>5. CASE Page!PageOf(q.to) \in {NoPage, q.page} /\ q.page \in Page!Pages /\ slug' = [slug EXCEPT ![q.page] = q.to]
      <4>1. Page!Pages' = Page!Pages
        BY <1>0, <3>1, <3>5 DEF Page!Pages
      <4>2. \A y \in Page!Pages : y # q.page => slug[y] # q.to /\ slug'[y] = slug[y]
        BY <1>0, <3>5, PageOfIs DEF Page!Pages
      <4>3. slug' \in [PageIds -> Slugs \cup {NoPage}] /\ slug'[q.page] = q.to
        BY <1>0, <3>1, <3>5
      <4>4. \A y, z \in Page!Pages' : slug'[y] = slug'[z] => y = z
        BY <1>0, <4>1, <4>2, <4>3
      <4>5. QED
        BY <1>0, <2>2, <3>3, <4>1, <4>3, <4>4, TasksAgain DEF Page!StorePage
    <3>6. QED
      BY <2>2, <3>4, <3>5 DEF Page!StorePage
  <2>3. CASE Page!StoreDomains(t)
    <3> DEFINE q == ptask[t]
    <3>1. Guided([ptask[t] EXCEPT !.step = "load"]) /\ "load" \in Page!Steps \ {"idle"}
      BY <2>0, <2>3 DEF Page!StoreDomains, Guided, Page!Steps, Tasks
    <3>2. PICK x \in Tasks : Guided(x) /\ ptask' = [ptask EXCEPT ![t] = x]
      BY <1>7, <2>3, <3>1 DEF Page!StoreDomains
    <3>3. Page!Pages' = Page!Pages
      BY <2>3 DEF Page!StoreDomains, Page!Pages
    <3>4. cname' \in [Domains -> Page!Pages \cup {NoPage}]
      BY <1>0, <2>0, <2>3 DEF Page!StoreDomains, Tasks
    <3>5. QED
      BY <1>0, <2>3, <3>2, <3>3, <3>4, TasksAgain DEF Page!StoreDomains
  <2>4. CASE Page!LoadMapping(t)
    <3> DEFINE x == [ptask[t] EXCEPT !.step = "assign", !.answer = Page!Mapped]
    <3>1. x \in Tasks /\ Guided(x)
      BY <2>0, <2>4, MappedTypes DEF Page!LoadMapping, Tasks, Guided, Page!Steps, TasksInv
    <3>2. ptask' = [ptask EXCEPT ![t] = x]
      BY <1>0, <2>4 DEF Page!LoadMapping
    <3> HIDE DEF x
    <3>3. QED
      BY <1>0, <1>1, <2>4, <3>1, <3>2 DEF Page!LoadMapping
  <2>5. CASE Page!AssignMapping(t)
    <3>1. Guided([ptask[t] EXCEPT !.step = "groups"]) /\ "groups" \in Page!Steps \ {"idle"}
      BY <2>0, <2>5 DEF Page!AssignMapping, Guided, Page!Steps, Tasks
    <3>2. PICK x \in Tasks : Guided(x) /\ ptask' = [ptask EXCEPT ![t] = x]
      BY <1>7, <2>5, <3>1 DEF Page!AssignMapping
    <3>3. Page!Pages' = Page!Pages /\ mapping' \in [Domains -> Slugs \cup {NoPage}]
      BY <2>0, <2>5 DEF Page!AssignMapping, Page!Pages, Tasks
    <3>4. QED
      BY <1>0, <2>5, <3>2, <3>3, TasksAgain DEF Page!AssignMapping
  <2>6. CASE Page!StoreGroup(t)
    <3> DEFINE q == ptask[t]
    <3>1. Page!Pages' = Page!Pages /\ adrift' \in BOOLEAN /\ q.page \in PageIds
      BY <1>0, <2>0, <2>6 DEF Page!StoreGroup, Page!LeavesEntry, Page!Pages, Guided
    <3>2. \E x \in Tasks : Guided(x) /\ ptask' = [ptask EXCEPT ![t] = x]
      <4>1. CASE Page!Goto(t, "done")
        BY <1>7, <2>d, <4>1
      <4>2. CASE \E g \in q.list : ptask' = [ptask EXCEPT ![t].list = @ \ {g}, ![t].kept = @ \cup {g}]
        <5>1. PICK g \in q.list : ptask' = [ptask EXCEPT ![t].list = @ \ {g}, ![t].kept = @ \cup {g}]
          BY <4>2
        <5> DEFINE x == [ptask[t] EXCEPT !.list = ptask[t].list \ {g}, !.kept = ptask[t].kept \cup {g}]
        <5>2. x \in Tasks /\ Guided(x)
          BY <2>0 DEF Tasks, Guided
        <5>3. ptask' = [ptask EXCEPT ![t] = x]
          BY <1>0, <5>1
        <5>4. QED
          BY <5>2, <5>3
      <4>3. CASE \E g \in GroupIds : q.fresh > 0 /\ ptask' = [ptask EXCEPT ![t].fresh = @ - 1, ![t].kept = @ \cup {g}]
        <5>1. PICK g \in GroupIds : q.fresh > 0 /\ ptask' = [ptask EXCEPT ![t].fresh = @ - 1, ![t].kept = @ \cup {g}]
          BY <4>3
        <5> DEFINE x == [ptask[t] EXCEPT !.fresh = ptask[t].fresh - 1, !.kept = ptask[t].kept \cup {g}]
        <5>0. ptask[t].fresh - 1 \in Nat /\ ptask[t].kept \cup {g} \in SUBSET GroupIds
          BY <2>0, <5>1 DEF Tasks
        <5>2. x \in Tasks /\ Guided(x)
          BY <2>0, <5>0 DEF Tasks, Guided
        <5>3. ptask' = [ptask EXCEPT ![t] = x]
          BY <1>0, <5>1
        <5>4. QED
          BY <5>2, <5>3
      <4>4. QED
        BY <2>6, <4>1, <4>2, <4>3 DEF Page!StoreGroup
    <3>3. /\ groupOf' \in [GroupIds -> PageIds \cup {NoPage}] /\ spentIds \subseteq spentIds'
          /\ {g \in GroupIds : groupOf'[g] # NoPage} \subseteq spentIds'
      <4>1. CASE UNCHANGED <<groupOf, spentIds>>
        BY <1>0, <4>1
      <4>2. CASE \E g \in GroupIds : groupOf' = [groupOf EXCEPT ![g] = q.page] /\ spentIds' = spentIds \cup {g}
        BY <1>0, <3>1, <4>2
      <4>3. QED
        BY <2>6, <4>1, <4>2 DEF Page!StoreGroup
    <3>4. QED
      BY <1>0, <2>6, <3>1, <3>2, <3>3, TasksAgain DEF Page!StoreGroup
  <2>7. CASE Page!GroupsStored(t)
    <3>1. Guided([ptask[t] EXCEPT !.step = "sweep"]) /\ "sweep" \in Page!Steps \ {"idle"}
      BY <2>0, <2>7 DEF Page!GroupsStored, Guided, Page!Steps, Tasks
    <3>2. PICK x \in Tasks : Guided(x) /\ ptask' = [ptask EXCEPT ![t] = x]
      BY <1>7, <2>7, <3>1 DEF Page!GroupsStored
    <3>3. QED
      BY <1>0, <1>1, <2>7, <3>2 DEF Page!GroupsStored
  <2>8. CASE Page!SweepGroups(t)
    <3>1. Guided([ptask[t] EXCEPT !.step = "entry"]) /\ "entry" \in Page!Steps \ {"idle"}
      BY <2>0, <2>8 DEF Page!SweepGroups, Guided, Page!Steps, Tasks
    <3>2. PICK x \in Tasks : Guided(x) /\ ptask' = [ptask EXCEPT ![t] = x]
      BY <1>7, <2>8, <3>1 DEF Page!SweepGroups
    <3>3. /\ Page!Pages' = Page!Pages /\ groupOf' \in [GroupIds -> PageIds \cup {NoPage}]
          /\ {g \in GroupIds : groupOf'[g] # NoPage} \subseteq spentIds'
      BY <1>0, <2>8 DEF Page!SweepGroups, Page!Pages
    <3>4. QED
      BY <1>0, <2>8, <3>2, <3>3, TasksAgain DEF Page!SweepGroups
  <2>9. CASE Page!RenameEntry(t)
    <3>1. Guided([ptask[t] EXCEPT !.step = "setting"]) /\ "setting" \in Page!Steps \ {"idle"}
      BY <2>0, <2>9 DEF Page!RenameEntry, Guided, Page!Steps, Tasks
    <3>2. PICK x \in Tasks : Guided(x) /\ ptask' = [ptask EXCEPT ![t] = x]
      BY <1>7, <2>9, <2>d, <3>1 DEF Page!RenameEntry
    <3>3. entryPage' \in Slugs \cup {NoPage}
      BY <1>0, <2>0, <2>9 DEF Page!RenameEntry, Guided
    <3>4. QED
      BY <1>0, <1>1, <2>9, <3>2, <3>3 DEF Page!RenameEntry
  <2>10. CASE Page!StoreEntry(t)
    <3>1. ptask[t].op = "delete" => Guided([ptask[t] EXCEPT !.step = "remove"])
      BY <2>0, <2>10 DEF Page!StoreEntry, Guided, Tasks
    <3>2. "remove" \in Page!Steps \ {"idle"}
      BY DEF Page!Steps
    <3>3. PICK x \in Tasks : Guided(x) /\ ptask' = [ptask EXCEPT ![t] = x]
      BY <1>7, <2>10, <2>d, <3>1, <3>2 DEF Page!StoreEntry
    <3>4. QED
      BY <1>0, <1>1, <2>10, <3>3 DEF Page!StoreEntry
  <2>11. CASE Page!FindDelete(t)
    <3> DEFINE p == Page!PageOf(ptask[t].from)
               s == CASE p = NoPage -> "done"
                      [] p # NoPage /\ entryPage = ptask[t].from -> "setting"
                      [] OTHER -> "remove"
               x == [ptask[t] EXCEPT !.page = p, !.step = s]
    <3>1. p \in PageIds \cup {NoPage}
      BY PageOfIs DEF Page!Pages
    <3>2. s \in {"done", "setting", "remove"} /\ (p = NoPage => s = "done")
      OBVIOUS
    <3>3. ptask' = [ptask EXCEPT ![t] = x]
      BY <1>0, <2>11 DEF Page!FindDelete
    <3>4. entryPage' \in Slugs \cup {NoPage}
      BY <1>0, <2>11 DEF Page!FindDelete
    <3> HIDE DEF p, s
    <3>5. x \in Tasks /\ Guided(x)
      BY <2>0, <2>11, <3>1, <3>2 DEF Page!FindDelete, Tasks, Guided, Page!Steps
    <3> HIDE DEF x
    <3>6. QED
      BY <1>0, <1>1, <2>11, <3>3, <3>4, <3>5 DEF Page!FindDelete
  <2>12. CASE Page!RemoveGroups(t)
    <3>1. Guided([ptask[t] EXCEPT !.step = "page"]) /\ "page" \in Page!Steps \ {"idle"}
      BY <2>0, <2>12 DEF Page!RemoveGroups, Guided, Page!Steps, Tasks
    <3>2. PICK x \in Tasks : Guided(x) /\ ptask' = [ptask EXCEPT ![t] = x]
      BY <1>7, <2>12, <3>1 DEF Page!RemoveGroups
    <3>3. /\ Page!Pages' = Page!Pages /\ groupOf' \in [GroupIds -> PageIds \cup {NoPage}]
          /\ {g \in GroupIds : groupOf'[g] # NoPage} \subseteq spentIds'
      BY <1>0, <2>12 DEF Page!RemoveGroups, Page!Pages
    <3>4. QED
      BY <1>0, <2>12, <3>2, <3>3, TasksAgain DEF Page!RemoveGroups
  <2>13. CASE Page!RemovePage(t)
    <3> DEFINE p == ptask[t].page
    <3>1. PICK x \in Tasks : Guided(x) /\ ptask' = [ptask EXCEPT ![t] = x]
      BY <1>7, <2>13, <2>d DEF Page!RemovePage
    <3>2. p \in PageIds /\ slug' = [slug EXCEPT ![p] = NoPage]
      BY <2>0, <2>13 DEF Page!RemovePage, Guided
    <3>3. slug' \in [PageIds -> Slugs \cup {NoPage}] /\ Page!Pages' = Page!Pages \ {p} /\ \A y \in Page!Pages' : slug'[y] = slug[y]
      BY <1>0, <3>2 DEF Page!Pages
    <3>4. cname' \in [Domains -> Page!Pages' \cup {NoPage}]
      BY <1>0, <2>13, <3>3 DEF Page!RemovePage
    <3>5. outdated' \subseteq Domains
      BY <1>0, <2>13 DEF Page!RemovePage
    <3>6. \A y, z \in Page!Pages' : slug'[y] = slug'[z] => y = z
      BY <1>0, <3>3
    <3>7. Page!Pages' \subseteq spentIds' /\ {g \in GroupIds : groupOf'[g] # NoPage} \subseteq spentIds'
      BY <1>0, <2>13, <3>3 DEF Page!RemovePage
    <3>8. QED
      BY <1>0, <2>13, <3>1, <3>3, <3>4, <3>5, <3>6, <3>7, TasksAgain DEF Page!RemovePage
  <2>14. CASE Page!BelieveEntry(t)
    <3>1. PICK x \in Tasks : Guided(x) /\ ptask' = [ptask EXCEPT ![t] = x]
      BY <1>7, <2>14, <2>d DEF Page!BelieveEntry
    <3>2. entryPage' \in Slugs \cup {NoPage}
      BY <2>0, <2>14 DEF Page!BelieveEntry, Tasks
    <3>3. QED
      BY <1>0, <1>1, <2>14, <3>1, <3>2 DEF Page!BelieveEntry
  <2>15. CASE Page!Done(t)
    <3>1. Page!Rest \in Tasks /\ Guided(Page!Rest) /\ ptask' = [ptask EXCEPT ![t] = Page!Rest]
      BY <2>15, RestIs DEF Page!Done, TasksInv
    <3>2. QED
      BY <1>0, <1>1, <2>15, <3>1 DEF Page!Done
  <2>16. CASE Page!DomainsFail(t)
    <3>1. PICK x \in Tasks : Guided(x) /\ ptask' = [ptask EXCEPT ![t] = x]
      BY <1>7, <2>16, <2>d DEF Page!DomainsFail
    <3>2. Page!Pages' = Page!Pages
      BY <2>16 DEF Page!DomainsFail, Page!Pages
    <3>3. outdated' \subseteq Domains /\ adrift' \in BOOLEAN
      BY <1>0, <2>16 DEF Page!DomainsFail, Page!LeavesEntry
    <3>4. QED
      BY <1>0, <2>16, <3>1, <3>2, <3>3, TasksAgain DEF Page!DomainsFail
  <2>17. QED
    BY <1>8, <2>1, <2>2, <2>3, <2>4, <2>5, <2>6, <2>7, <2>8, <2>9, <2>10, <2>11, <2>12, <2>13, <2>14, <2>15, <2>16 DEF Page!Work
<1>9. ASSUME Page!Restart PROVE TasksInv'
  <2>1. ptask' \in [PageTasks -> Tasks] /\ \A t \in PageTasks : Guided(ptask'[t])
    BY <1>9, RestIs DEF Page!Restart, TasksInv
  <2>2. Page!Pages' = Page!Pages /\ mapping' \in [Domains -> Slugs \cup {NoPage}]
    BY <1>9, MappedTypes DEF Page!Restart, Page!Pages, TasksInv
  <2>3. pageCrashes' \in 0..MaxPageCrashes
    BY <1>0, <1>9 DEF Page!Restart, Page!PagesAssumption
  <2>4. adrift' \in BOOLEAN /\ outdated' \subseteq Domains
    BY <1>0, <1>9 DEF Page!Restart
  <2>5. (\A t \in PageTasks : Guided(ptask[t]))'
    BY <2>1 DEF Guided
  <2>6. QED
    BY <1>0, <1>9, <2>1, <2>2, <2>3, <2>4, <2>5 DEF Page!Restart, TasksInv, Page!TypeOK, Tasks
<1>10. ASSUME UNCHANGED Page!pvars PROVE TasksInv'
  <2>1. Page!Pages' = Page!Pages
    BY <1>10 DEF Page!pvars, Page!Pages
  <2>2. QED
    BY <1>0, <1>10, <2>1 DEF Page!pvars, TasksInv, Page!TypeOK, Guided
<1>11. QED
  BY <1>2, <1>3, <1>4, <1>5, <1>8, <1>9, <1>10 DEF Page!Next

\* The tables of pages, groups and domains keep their types, whatever overlaps, fails and crashes:
\* no two pages have one slug, and no domain leads to a page that is gone.
THEOREM PageTypes == ASSUME Page!PagesAssumption PROVE Page!Spec => []Page!TypeOK
<1>1. TasksInv => Page!TypeOK
  BY DEF TasksInv
<1>2. QED
  BY <1>1, PagesTypeInit, PagesTypeStep, PTL DEF Page!Spec

-------------------------------------------------------------------------------
(* Status pages: what requests leave, one at a time.                           *)

\* One request is in progress at most.
OneRequest == \A t, u \in PageTasks : ptask[t].step # "idle" /\ ptask[u].step # "idle" => t = u

\* The dashboard, or the slug of a page.
Shown(s) == s = NoPage \/ \E p \in Page!Pages : slug[p] = s

\* Where a save has stored the page and goes on.
Saved == {"domains", "load", "assign", "groups", "sweep", "entry", "setting"}

\* The page has the slug it was found by, or the one it was given.
SlugAt(q) ==
  /\ q.op = "save" /\ q.step = "store" => slug[q.page] = q.from
  /\ q.op = "save" /\ q.step \in Saved => slug[q.page] = q.to
  /\ q.op = "delete" /\ q.step \in {"setting", "remove", "page"} => slug[q.page] = q.from

\* The map agrees with the tables but from the store of the page to the assignment; up to the
\* store of the domains it can only be wrong of those of a page that was renamed.
MapAgrees == \A d \in Domains \ outdated : mapping[d] = Page!Mapped[d]
Renames(q, d) == q.from # q.to /\ cname[d] = q.page
MapAt(q) ==
  /\ q.step = "domains" => \A d \in Domains \ outdated : Renames(q, d) \/ mapping[d] = Page!Mapped[d]
  /\ q.step = "assign" => q.answer = Page!Mapped
  /\ q.step \notin {"domains", "load", "assign"} => MapAgrees

\* What counts as kept is on the page, and after the sweep nothing else.
GroupsAt(q) ==
  /\ q.step \in {"find", "store", "domains", "load", "assign"} => q.kept = {}
  /\ q.step \in {"groups", "sweep"} => q.kept \subseteq Page!Groups(q.page)
  /\ q.op = "save" /\ q.step = "entry" => Page!Groups(q.page) = q.kept

\* The entry page and the setting differ only between the change of one and that of the other.
EntryAt(q) ==
  /\ q.op = "entry" /\ q.step = "entry" => entrySetting = q.to
  /\ q.op = "save" /\ q.step = "setting" => entryPage = q.to
  /\ q.op = "delete" /\ q.step = "setting" => entryPage = NoPage
  /\ q.op = "delete" /\ q.step \in {"remove", "page"} => entryPage # q.from
  /\ q.step # "setting" /\ ~(q.op = "entry" /\ q.step = "entry") => entryPage = entrySetting

\* Both exist, unless they are the slug that a save replaces, or the entry page is about to be.
ShownAt(q) ==
  ~adrift => \A s \in {entrySetting} \cup IF q.op = "entry" /\ q.step = "entry" THEN {} ELSE {entryPage} :
                Shown(s) \/ (q.op = "save" /\ q.step \in Saved /\ q.from # q.to /\ s = q.from)

At(q) == SlugAt(q) /\ MapAt(q) /\ GroupsAt(q) /\ EntryAt(q) /\ ShownAt(q)

\* Between requests.
Resting == MapAgrees /\ entryPage = entrySetting /\ (~adrift => Shown(entryPage))

PagesInv ==
  /\ TasksInv /\ OneRequest
  /\ \A t \in PageTasks : \A q \in Tasks : q = ptask[t] /\ q.step # "idle" => At(q)
  /\ Page!Quiet => Resting

\* What exists and the join depend on the pages and the domains only.
LEMMA ShownStays == ASSUME slug' = slug, NEW s PROVE Shown(s)' <=> Shown(s)
BY DEF Shown, Page!Pages

\* So does the join of the domains ...
LEMMA MapStays == ASSUME slug' = slug, cname' = cname PROVE Page!Mapped' = Page!Mapped
BY DEF Page!Mapped, Page!SlugOf

\* ... and its agreement with the map.
LEMMA AgreesStays ==
  ASSUME slug' = slug, cname' = cname, mapping' = mapping, outdated' = outdated
  PROVE  MapAgrees' <=> MapAgrees
BY MapStays DEF MapAgrees

\* A request begins when there is none: nothing was under way.
LEMMA BeginsFromRest ==
  ASSUME PagesInv, PagesOverlap = FALSE, NEW t \in PageTasks, NEW x \in Tasks, Page!Begin(t, x), x.step # "idle",
         TasksInv', At(x)'
  PROVE  PagesInv'
<1>1. /\ ptask \in [PageTasks -> Tasks] /\ \A u \in PageTasks : ptask[u].step = "idle"
      /\ ptask' = [ptask EXCEPT ![t] = x]
  BY DEF PagesInv, TasksInv, Page!TypeOK, Tasks, Page!Begin
<1>2. ptask'[t] = x /\ \A u \in PageTasks : u # t => ptask'[u].step = "idle"
  BY <1>1
<1>3. ~Page!Quiet' /\ OneRequest'
  BY <1>2 DEF Page!Quiet, OneRequest
<1>4. ASSUME NEW u \in PageTasks, NEW q \in Tasks, q = ptask'[u], q.step # "idle" PROVE At(q)'
  <2>1. u = t /\ q = x
    BY <1>2, <1>4
  <2>2. QED
    BY <2>1
<1>5. QED
  BY <1>3, <1>4 DEF PagesInv

\* A request goes on: it is the only one.
LEMMA GoesOn ==
  ASSUME PagesInv, NEW t \in PageTasks, NEW x \in Tasks, ptask' = [ptask EXCEPT ![t] = x], ptask[t].step # "idle",
         x.step # "idle", TasksInv', At(x)'
  PROVE  PagesInv'
<1>1. ptask \in [PageTasks -> Tasks] /\ \A u \in PageTasks : u # t => ptask[u].step = "idle"
  BY DEF PagesInv, TasksInv, Page!TypeOK, Tasks, OneRequest
<1>2. ptask'[t] = x /\ \A u \in PageTasks : u # t => ptask'[u].step = "idle"
  BY <1>1
<1>3. ~Page!Quiet' /\ OneRequest'
  BY <1>2 DEF Page!Quiet, OneRequest
<1>4. ASSUME NEW u \in PageTasks, NEW q \in Tasks, q = ptask'[u], q.step # "idle" PROVE At(q)'
  <2>1. u = t /\ q = x
    BY <1>2, <1>4
  <2>2. QED
    BY <2>1
<1>5. QED
  BY <1>3, <1>4 DEF PagesInv

\* The invariant holds at first ...
LEMMA PagesInvInit == ASSUME Page!PagesAssumption PROVE Page!Init => PagesInv
<1> SUFFICES ASSUME Page!Init PROVE PagesInv
  OBVIOUS
<1>1. \A t \in PageTasks : ptask[t].step = "idle"
  BY DEF Page!Init, Page!Rest
<1>2. MapAgrees /\ entryPage = entrySetting
  BY DEF Page!Init, MapAgrees
<1>3. Shown(entryPage)
  <2>1. PICK p \in PageIds : p = CHOOSE x \in PageIds : TRUE
    BY DEF Page!PagesAssumption
  <2>2. PICK s \in Slugs : s = CHOOSE x \in Slugs : TRUE
    BY DEF Page!PagesAssumption
  <2>3. slug = [q \in PageIds |-> IF q = p THEN s ELSE NoPage] /\ entryPage \in {s, NoPage}
    BY <2>1, <2>2 DEF Page!Init
  <2>4. p \in Page!Pages /\ slug[p] = s
    BY <2>3 DEF Page!Pages, Page!PagesAssumption
  <2>5. QED
    BY <2>3, <2>4 DEF Shown
<1>4. QED
  BY <1>1, <1>2, <1>3, PagesTypeInit DEF PagesInv, OneRequest, Resting

\* A page that is added has a slug no other has, and no domain leads to it yet.
LEMMA AddsAPage ==
  ASSUME Page!PagesAssumption, PagesInv, PagesOverlap = FALSE, NEW p \in PageIds, NEW s \in Slugs, Page!AddPage(p, s), TasksInv'
  PROVE  PagesInv'
<1>0. /\ Page!Quiet /\ Resting /\ ptask' = ptask /\ slug \in [PageIds -> Slugs \cup {NoPage}]
      /\ cname \in [Domains -> Page!Pages \cup {NoPage}] /\ Page!Pages \subseteq spentIds
      /\ UNCHANGED <<cname, mapping, outdated, entryPage, entrySetting, adrift>> /\ p \notin spentIds
      /\ NoPage \notin PageIds /\ NoPage \notin Slugs
  BY DEF Page!AddPage, PagesInv, TasksInv, Page!TypeOK, Page!Quiet, Page!PagesAssumption
<1>1. \A x \in Page!Pages : slug'[x] = slug[x] /\ x \in Page!Pages'
  BY <1>0 DEF Page!AddPage, Page!Pages
<1>2. Page!Mapped' = Page!Mapped
  <2>1. \A d \in Domains : Page!SlugOf(cname[d])' = Page!SlugOf(cname[d])
    BY <1>0, <1>1 DEF Page!SlugOf
  <2>2. QED
    BY <2>1 DEF Page!Mapped
<1>3. Shown(entryPage) => Shown(entryPage)'
  BY <1>0, <1>1 DEF Shown
<1>4. Resting'
  BY <1>0, <1>2, <1>3 DEF Resting, MapAgrees
<1>5. Page!Quiet'
  BY <1>0 DEF Page!Quiet
<1>6. QED
  BY <1>4, <1>5 DEF PagesInv, OneRequest, Page!Quiet

\* A restart believes what is stored.
LEMMA Restarts ==
  ASSUME Page!PagesAssumption, PagesInv, Page!Restart, TasksInv'
  PROVE  PagesInv'
<1>1. \A t \in PageTasks : ptask'[t].step = "idle"
  BY DEF Page!Restart, Page!Rest
<1>2. MapAgrees' /\ entryPage' = entrySetting'
  <2>1. Page!Mapped' = Page!Mapped
    BY MapStays DEF Page!Restart
  <2>2. QED
    BY <2>1 DEF Page!Restart, MapAgrees
<1>3. ASSUME ~adrift' PROVE Shown(entrySetting)
  <2>1. CASE Page!Quiet
    BY <1>3, <2>1 DEF PagesInv, Resting, Page!Restart
  <2>2. CASE ~Page!Quiet
    <3>1. PICK t \in PageTasks : ptask[t].step # "idle"
      BY <2>2 DEF Page!Quiet
    <3>2. PICK q \in Tasks : q = ptask[t]
      BY DEF PagesInv, TasksInv, Page!TypeOK, Tasks
    <3>3. ShownAt(q)
      BY <3>1, <3>2 DEF PagesInv, At
    <3>4. ~adrift /\ ~(q.op = "save" /\ q.step \in Saved /\ q.from # q.to /\ entrySetting = q.from)
      BY <1>3, <3>2 DEF Page!Restart, Saved
    <3>5. QED
      BY <3>3, <3>4 DEF ShownAt
  <2>3. QED
    BY <2>1, <2>2
<1>4. ~adrift' => Shown(entryPage)'
  BY <1>3 DEF Page!Restart, Shown, Page!Pages
<1>5. QED
  BY <1>1, <1>2, <1>4 DEF PagesInv, OneRequest, Resting

\* A request that goes on leaves what it should.
LEMMA PagesWork ==
  ASSUME Page!PagesAssumption, PagesInv, NEW t \in PageTasks, Page!Work(t), TasksInv'
  PROVE  PagesInv'
<1>q. PICK q \in Tasks : q = ptask[t]
  BY DEF PagesInv, TasksInv, Page!TypeOK, Tasks
<1>0. /\ ptask \in [PageTasks -> Tasks] /\ Guided(q) /\ q.step \in Page!Steps
      /\ slug \in [PageIds -> Slugs \cup {NoPage}] /\ \A y, z \in Page!Pages : slug[y] = slug[z] => y = z
      /\ groupOf \in [GroupIds -> PageIds \cup {NoPage}] /\ cname \in [Domains -> Page!Pages \cup {NoPage}]
      /\ {g \in GroupIds : groupOf[g] # NoPage} \subseteq spentIds
      /\ adrift \in BOOLEAN /\ NoPage \notin PageIds /\ NoPage \notin Slugs
  BY <1>q DEF PagesInv, TasksInv, Page!TypeOK, Tasks, Page!PagesAssumption
<1>1. q.step # "idle" /\ At(q)
  <2>1. q.step # "idle"
    BY <1>q DEF Page!Work, Page!FindPage, Page!StorePage, Page!StoreDomains, Page!LoadMapping, Page!AssignMapping, Page!StoreGroup, Page!GroupsStored,
                Page!SweepGroups, Page!RenameEntry, Page!StoreEntry, Page!FindDelete, Page!RemoveGroups, Page!RemovePage, Page!BelieveEntry, Page!Done, Page!DomainsFail
  <2>2. QED
    BY <1>q, <2>1 DEF PagesInv
<1>2. SlugAt(q) /\ MapAt(q) /\ GroupsAt(q) /\ EntryAt(q) /\ ShownAt(q)
  BY <1>1 DEF At
<1>3. ASSUME NEW x \in Tasks, ptask' = [ptask EXCEPT ![t] = x], x.step # "idle", At(x)' PROVE PagesInv'
  BY <1>q, <1>1, <1>3, GoesOn
<1>4. ASSUME NEW s \in Page!Steps, Page!Goto(t, s)
      PROVE  \E x \in Tasks : /\ ptask' = [ptask EXCEPT ![t] = x] /\ x.step = s /\ x.op = q.op /\ x.page = q.page
                              /\ x.from = q.from /\ x.to = q.to /\ x.kept = q.kept /\ x.answer = q.answer
  <2> DEFINE x == [q EXCEPT !.step = s]
  <2>1. /\ x \in Tasks /\ x.step = s /\ x.op = q.op /\ x.page = q.page /\ x.from = q.from /\ x.to = q.to
        /\ x.kept = q.kept /\ x.answer = q.answer
    BY DEF Tasks
  <2>2. ptask' = [ptask EXCEPT ![t] = x]
    BY <1>0, <1>q, <1>4 DEF Page!Goto
  <2>3. QED
    BY <2>1, <2>2
\* A step that changes the request only, or the groups.
<1>5. ASSUME NEW x \in Tasks, UNCHANGED <<slug, cname, mapping, outdated, entryPage, entrySetting>>,
             SlugAt(x), MapAt(x), EntryAt(x),
             ~adrift' => ShownAt(x) /\ ~adrift
      PROVE  SlugAt(x)' /\ MapAt(x)' /\ EntryAt(x)' /\ ShownAt(x)'
  <2>1. Page!Mapped' = Page!Mapped /\ (MapAgrees' <=> MapAgrees) /\ \A s : Shown(s)' <=> Shown(s)
    BY <1>5, MapStays, AgreesStays, ShownStays
  <2>2. SlugAt(x)' /\ MapAt(x)' /\ EntryAt(x)'
    BY <1>5, <2>1 DEF SlugAt, MapAt, EntryAt, Renames
  <2>3. ShownAt(x)'
    BY <1>5, <2>1 DEF ShownAt
  <2>4. QED
    BY <2>2, <2>3
<1>6. CASE Page!FindPage(t)
  <2> DEFINE p == Page!PageOf(q.from)
  <2>1. PICK x \in Tasks : x = [q EXCEPT !.page = p, !.step = IF p = NoPage THEN "done" ELSE "store"]
    BY PageOfIs DEF Page!Pages, Tasks, Page!Steps
  <2>2. /\ x.step = (IF p = NoPage THEN "done" ELSE "store") /\ x.op = q.op /\ x.page = p /\ x.from = q.from
        /\ x.to = q.to /\ x.kept = q.kept /\ q.op = "save" /\ q.step = "find"
    BY <1>q, <1>6, <2>1 DEF Page!FindPage, Tasks
  <2>3. ptask' = [ptask EXCEPT ![t] = x]
    BY <1>0, <1>q, <1>6, <2>1 DEF Page!FindPage
  <2>4. SlugAt(x)
    BY <2>2, PageOfIs DEF SlugAt, Saved
  <2>5. MapAt(x) /\ EntryAt(x) /\ ShownAt(x)
    BY <1>2, <2>2 DEF MapAt, EntryAt, ShownAt, Saved
  <2>6. SlugAt(x)' /\ MapAt(x)' /\ EntryAt(x)' /\ ShownAt(x)'
    BY <1>5, <1>6, <2>4, <2>5 DEF Page!FindPage
  <2>7. GroupsAt(x)'
    BY <1>2, <2>2 DEF GroupsAt
  <2>8. QED
    BY <1>3, <2>2, <2>3, <2>6, <2>7 DEF At
<1>7. CASE Page!StorePage(t)
  <2>0. q.op = "save" /\ q.step = "store" /\ q.page \in PageIds /\ q.from \in Slugs /\ q.to \in Slugs
        /\ slug[q.page] = q.from /\ q.page \in Page!Pages
    BY <1>0, <1>2, <1>q, <1>7 DEF Page!StorePage, Guided, SlugAt, Page!Pages
  <2>1. CASE Page!PageOf(q.to) \in {NoPage, q.page}
    <3>0. slug' = [slug EXCEPT ![q.page] = q.to] /\ Page!Goto(t, "domains")
      BY <1>q, <1>7, <2>0, <2>1 DEF Page!StorePage
    <3>1. PICK x \in Tasks : /\ ptask' = [ptask EXCEPT ![t] = x] /\ x.step = "domains" /\ x.op = q.op
                            /\ x.page = q.page /\ x.from = q.from /\ x.to = q.to /\ x.kept = q.kept /\ x.answer = q.answer
      BY <1>4, <3>0 DEF Page!Steps
    <3>2. /\ slug'[q.page] = q.to /\ q.page \in Page!Pages'
          /\ \A y \in Page!Pages : y # q.page => slug'[y] = slug[y] /\ y \in Page!Pages'
      BY <1>0, <2>0, <3>0 DEF Page!Pages
    <3>3. \A s : Shown(s) => Shown(s)' \/ s = q.from
      BY <2>0, <3>2 DEF Shown
    <3>4. ShownAt(x)'
      <4>1. SUFFICES ASSUME ~adrift, NEW s \in {entryPage, entrySetting}
                     PROVE  Shown(s)' \/ (q.from # q.to /\ s = q.from)
        BY <1>7, <2>0, <3>1 DEF ShownAt, Page!StorePage, Saved
      <4>2. Shown(s)
        BY <1>2, <2>0, <4>1 DEF ShownAt, Saved
      <4>3. q.from = q.to => Shown(q.from)'
        BY <3>2 DEF Shown
      <4>4. QED
        BY <3>3, <4>2, <4>3
    <3>5. SlugAt(x)'
      BY <2>0, <3>1, <3>2 DEF SlugAt
    <3>6. MapAt(x)'
      <4>1. MapAgrees /\ UNCHANGED <<cname, mapping, outdated>>
        BY <1>2, <1>7, <2>0 DEF MapAt, Page!StorePage
      <4>2. SUFFICES ASSUME NEW d \in Domains \ outdated, ~(q.from # q.to /\ cname[d] = q.page)
                     PROVE  Page!Mapped'[d] = Page!Mapped[d]
        BY <3>1, <4>1, <4>2 DEF MapAt, MapAgrees, Renames
      <4>3. cname[d] \in Page!Pages \cup {NoPage}
        BY <1>0
      <4>4. Page!SlugOf(cname[d])' = Page!SlugOf(cname[d])
        BY <1>0, <2>0, <3>2, <4>1, <4>2, <4>3 DEF Page!SlugOf
      <4>5. QED
        BY <4>4 DEF Page!Mapped
    <3>7. GroupsAt(x)' /\ EntryAt(x)'
      BY <1>2, <1>7, <2>0, <3>1 DEF GroupsAt, EntryAt, Page!StorePage
    <3>8. QED
      BY <1>3, <3>1, <3>4, <3>5, <3>6, <3>7 DEF At
  <2>2. CASE Page!PageOf(q.to) \notin {NoPage, q.page}
    <3>0. slug' = slug /\ Page!Goto(t, "done")
      BY <1>q, <1>7, <2>2 DEF Page!StorePage
    <3>1. PICK x \in Tasks : /\ ptask' = [ptask EXCEPT ![t] = x] /\ x.step = "done" /\ x.op = q.op
                            /\ x.page = q.page /\ x.from = q.from /\ x.to = q.to /\ x.kept = q.kept /\ x.answer = q.answer
      BY <1>4, <3>0 DEF Page!Steps
    <3>2. SlugAt(x) /\ MapAt(x) /\ EntryAt(x) /\ ShownAt(x)
      BY <1>2, <2>0, <3>1 DEF SlugAt, MapAt, EntryAt, ShownAt, Saved
    <3>3. SlugAt(x)' /\ MapAt(x)' /\ EntryAt(x)' /\ ShownAt(x)'
      BY <1>5, <1>7, <3>0, <3>2 DEF Page!StorePage
    <3>4. GroupsAt(x)'
      BY <2>0, <3>1 DEF GroupsAt
    <3>5. QED
      BY <1>3, <3>1, <3>3, <3>4 DEF At
  <2>3. QED
    BY <2>1, <2>2
<1>8. CASE Page!StoreDomains(t)
  <2>0. q.op = "save" /\ q.step = "domains" /\ q.page \in Page!Pages
    BY <1>0, <1>2, <1>q, <1>8 DEF Page!StoreDomains, Guided, SlugAt, Saved, Page!Pages
  <2>1. Page!Goto(t, "load") /\ UNCHANGED adrift
    BY <1>q, <1>8, <2>0 DEF Page!StoreDomains
  <2>2. PICK x \in Tasks : /\ ptask' = [ptask EXCEPT ![t] = x] /\ x.step = "load" /\ x.op = q.op
                          /\ x.page = q.page /\ x.from = q.from /\ x.to = q.to /\ x.kept = q.kept /\ x.answer = q.answer
    BY <1>4, <2>1 DEF Page!Steps
  <2>3. SlugAt(x)'
    BY <1>2, <1>8, <2>0, <2>2 DEF SlugAt, Saved, Page!StoreDomains
  <2>4. MapAt(x)' /\ GroupsAt(x)' /\ EntryAt(x)'
    BY <1>2, <1>8, <2>0, <2>2 DEF MapAt, GroupsAt, EntryAt, Page!StoreDomains
  <2>5. ShownAt(x)'
    BY <1>2, <1>8, <2>0, <2>1, <2>2, ShownStays DEF ShownAt, Saved, Page!StoreDomains
  <2>6. QED
    BY <1>3, <2>2, <2>3, <2>4, <2>5 DEF At
<1>8f. CASE Page!DomainsFail(t)
  <2>0. q.op = "save" /\ q.step = "domains" /\ Page!Goto(t, "done")
        /\ UNCHANGED <<slug, cname, mapping, entryPage, entrySetting>>
    BY <1>0, <1>q, <1>8f DEF Page!DomainsFail, Guided
  <2>1. PICK x \in Tasks : /\ ptask' = [ptask EXCEPT ![t] = x] /\ x.step = "done" /\ x.op = q.op
                          /\ x.page = q.page /\ x.from = q.from /\ x.to = q.to /\ x.kept = q.kept /\ x.answer = q.answer
    BY <1>4, <2>0 DEF Page!Steps
  <2>2. MapAgrees'
    <3>1. Page!Mapped' = Page!Mapped
      BY <2>0, MapStays
    <3>2. SUFFICES ASSUME NEW d \in Domains \ outdated' PROVE mapping[d] = Page!Mapped[d]
      BY <2>0, <3>1 DEF MapAgrees
    <3>3. d \notin outdated /\ ~Renames(q, d)
      BY <1>q, <1>8f, <3>2 DEF Page!DomainsFail, Renames
    <3>4. QED
      BY <1>2, <2>0, <3>3 DEF MapAt
  <2>3. SlugAt(x)' /\ MapAt(x)' /\ GroupsAt(x)'
    BY <2>0, <2>1, <2>2 DEF SlugAt, MapAt, GroupsAt, Saved
  <2>4. EntryAt(x)' /\ entryPage = entrySetting
    BY <1>2, <2>0, <2>1 DEF EntryAt
  <2>5. ShownAt(x)'
    BY <1>2, <1>q, <1>8f, <2>0, <2>1, <2>4, ShownStays DEF ShownAt, Saved, Page!DomainsFail, Page!LeavesEntry
  <2>6. QED
    BY <1>3, <2>1, <2>3, <2>4, <2>5 DEF At
<1>9. CASE Page!LoadMapping(t)
  <2>0. q.op = "save" /\ q.step = "load"
    BY <1>0, <1>q, <1>9 DEF Page!LoadMapping, Guided
  <2>1. PICK x \in Tasks : x = [q EXCEPT !.step = "assign", !.answer = Page!Mapped]
    BY MappedTypes DEF Tasks, Page!Steps, PagesInv, TasksInv
  <2>2. /\ x.step = "assign" /\ x.op = q.op /\ x.page = q.page /\ x.from = q.from /\ x.to = q.to /\ x.kept = q.kept
        /\ x.answer = Page!Mapped
    BY <2>1 DEF Tasks
  <2>3. ptask' = [ptask EXCEPT ![t] = x]
    BY <1>0, <1>q, <1>9, <2>1 DEF Page!LoadMapping
  <2>4. SlugAt(x) /\ MapAt(x) /\ EntryAt(x) /\ ShownAt(x)
    BY <1>2, <2>0, <2>2 DEF SlugAt, MapAt, EntryAt, ShownAt, Saved
  <2>5. SlugAt(x)' /\ MapAt(x)' /\ EntryAt(x)' /\ ShownAt(x)'
    BY <1>5, <1>9, <2>4 DEF Page!LoadMapping
  <2>6. GroupsAt(x)'
    BY <1>2, <2>0, <2>2 DEF GroupsAt
  <2>7. QED
    BY <1>3, <2>2, <2>3, <2>5, <2>6 DEF At
<1>10. CASE Page!AssignMapping(t)
  <2>0. q.op = "save" /\ q.step = "assign" /\ mapping' = q.answer /\ q.answer = Page!Mapped
    BY <1>0, <1>2, <1>q, <1>10 DEF Page!AssignMapping, Guided, MapAt
  <2>1. Page!Goto(t, "groups")
    BY <1>10 DEF Page!AssignMapping
  <2>2. PICK x \in Tasks : /\ ptask' = [ptask EXCEPT ![t] = x] /\ x.step = "groups" /\ x.op = q.op
                          /\ x.page = q.page /\ x.from = q.from /\ x.to = q.to /\ x.kept = q.kept /\ x.answer = q.answer
    BY <1>4, <2>1 DEF Page!Steps
  <2>3. SlugAt(x)'
    BY <1>2, <1>10, <2>0, <2>2 DEF SlugAt, Saved, Page!AssignMapping
  <2>4. MapAt(x)'
    <3>1. Page!Mapped' = Page!Mapped
      BY <1>10, MapStays DEF Page!AssignMapping
    <3>2. MapAgrees'
      BY <2>0, <3>1 DEF MapAgrees
    <3>3. QED
      BY <2>2, <3>2 DEF MapAt
  <2>5. GroupsAt(x)' /\ EntryAt(x)'
    BY <1>2, <1>10, <2>0, <2>2 DEF GroupsAt, EntryAt, Page!AssignMapping
  <2>6. ShownAt(x)'
    BY <1>2, <1>10, <2>0, <2>2, ShownStays DEF ShownAt, Saved, Page!AssignMapping
  <2>7. QED
    BY <1>3, <2>2, <2>3, <2>4, <2>5, <2>6 DEF At
<1>11. CASE Page!StoreGroup(t)
  <2>0. q.op = "save" /\ q.step = "groups" /\ q.page \in PageIds /\ q.kept \subseteq Page!Groups(q.page)
    BY <1>0, <1>2, <1>q, <1>11 DEF Page!StoreGroup, Guided, GroupsAt
  <2>1. CASE Page!Goto(t, "done") /\ Page!LeavesEntry(t)
    <3>1. PICK x \in Tasks : /\ ptask' = [ptask EXCEPT ![t] = x] /\ x.step = "done" /\ x.op = q.op
                            /\ x.page = q.page /\ x.from = q.from /\ x.to = q.to /\ x.kept = q.kept /\ x.answer = q.answer
      BY <1>4, <2>1 DEF Page!Steps
    <3>2. SlugAt(x) /\ MapAt(x) /\ EntryAt(x)
      BY <1>2, <2>0, <3>1 DEF SlugAt, MapAt, EntryAt, Saved
    <3>3. ~adrift' => ShownAt(x) /\ ~adrift
      BY <1>q, <1>2, <2>0, <2>1, <3>1 DEF ShownAt, EntryAt, Page!LeavesEntry, Saved
    <3>4. SlugAt(x)' /\ MapAt(x)' /\ EntryAt(x)' /\ ShownAt(x)'
      BY <1>5, <1>11, <3>2, <3>3 DEF Page!StoreGroup
    <3>5. GroupsAt(x)'
      BY <2>0, <3>1 DEF GroupsAt
    <3>6. QED
      BY <1>3, <3>1, <3>4, <3>5 DEF At
  <2>2. ASSUME NEW x \in Tasks, ptask' = [ptask EXCEPT ![t] = x], x.step = "groups", x.op = "save", x.page = q.page,
               x.from = q.from, x.to = q.to, UNCHANGED adrift, x.kept \subseteq Page!Groups(q.page)'
        PROVE  PagesInv'
    <3>1. SlugAt(x) /\ MapAt(x) /\ EntryAt(x) /\ ShownAt(x)
      BY <1>2, <2>0, <2>2 DEF SlugAt, MapAt, EntryAt, ShownAt, Saved
    <3>2. SlugAt(x)' /\ MapAt(x)' /\ EntryAt(x)' /\ ShownAt(x)'
      BY <1>5, <1>11, <2>2, <3>1 DEF Page!StoreGroup
    <3>3. GroupsAt(x)'
      BY <2>2 DEF GroupsAt
    <3>4. QED
      BY <1>3, <2>2, <3>2, <3>3 DEF At
  <2>3. CASE \E g \in q.list : /\ groupOf[g] = q.page
                               /\ ptask' = [ptask EXCEPT ![t].list = @ \ {g}, ![t].kept = @ \cup {g}]
                               /\ UNCHANGED <<groupOf, adrift>>
    <3>1. PICK g \in q.list : /\ groupOf[g] = q.page
                              /\ ptask' = [ptask EXCEPT ![t].list = @ \ {g}, ![t].kept = @ \cup {g}]
                              /\ UNCHANGED <<groupOf, adrift>>
      BY <2>3
    <3>2. PICK x \in Tasks : x = [q EXCEPT !.list = q.list \ {g}, !.kept = q.kept \cup {g}]
      BY DEF Tasks
    <3>3. /\ x.step = q.step /\ x.op = q.op /\ x.page = q.page /\ x.from = q.from /\ x.to = q.to
          /\ x.kept = q.kept \cup {g} /\ g \in GroupIds
      BY <3>2 DEF Tasks
    <3>4. ptask' = [ptask EXCEPT ![t] = x]
      BY <1>0, <1>q, <3>1, <3>2
    <3>5. x.kept \subseteq Page!Groups(q.page)'
      BY <2>0, <3>1, <3>3 DEF Page!Groups
    <3>6. QED
      BY <2>0, <2>2, <3>1, <3>3, <3>4, <3>5
  <2>4. CASE \E g \in GroupIds \ spentIds :
               /\ q.fresh > 0 /\ groupOf' = [groupOf EXCEPT ![g] = q.page] /\ UNCHANGED adrift
               /\ ptask' = [ptask EXCEPT ![t].fresh = @ - 1, ![t].kept = @ \cup {g}]
    <3>1. PICK g \in GroupIds \ spentIds :
               /\ q.fresh > 0 /\ groupOf' = [groupOf EXCEPT ![g] = q.page] /\ UNCHANGED adrift
               /\ ptask' = [ptask EXCEPT ![t].fresh = @ - 1, ![t].kept = @ \cup {g}]
      BY <2>4
    <3>2. q.fresh - 1 \in Nat /\ q.kept \cup {g} \in SUBSET GroupIds
      BY <3>1 DEF Tasks
    <3>3. PICK x \in Tasks : x = [q EXCEPT !.fresh = q.fresh - 1, !.kept = q.kept \cup {g}]
      BY <3>2 DEF Tasks
    <3>4. /\ x.step = q.step /\ x.op = q.op /\ x.page = q.page /\ x.from = q.from /\ x.to = q.to
          /\ x.kept = q.kept \cup {g}
      BY <3>3 DEF Tasks
    <3>5. ptask' = [ptask EXCEPT ![t] = x]
      BY <1>0, <1>q, <3>1, <3>3
    <3>6. x.kept \subseteq Page!Groups(q.page)'
      BY <1>0, <2>0, <3>1, <3>4 DEF Page!Groups
    <3>7. QED
      BY <2>0, <2>2, <3>1, <3>4, <3>5, <3>6
  <2>5. QED
    BY <1>q, <1>11, <2>1, <2>3, <2>4 DEF Page!StoreGroup
<1>12. CASE Page!GroupsStored(t)
  <2>0. q.op = "save" /\ q.step = "groups" /\ q.kept \subseteq Page!Groups(q.page)
    BY <1>0, <1>2, <1>q, <1>12 DEF Page!GroupsStored, Guided, GroupsAt
  <2>1. Page!Goto(t, "sweep")
    BY <1>12 DEF Page!GroupsStored
  <2>2. PICK x \in Tasks : /\ ptask' = [ptask EXCEPT ![t] = x] /\ x.step = "sweep" /\ x.op = q.op
                          /\ x.page = q.page /\ x.from = q.from /\ x.to = q.to /\ x.kept = q.kept /\ x.answer = q.answer
    BY <1>4, <2>1 DEF Page!Steps
  <2>3. SlugAt(x) /\ MapAt(x) /\ EntryAt(x) /\ ShownAt(x)
    BY <1>2, <2>0, <2>2 DEF SlugAt, MapAt, EntryAt, ShownAt, Saved
  <2>4. SlugAt(x)' /\ MapAt(x)' /\ EntryAt(x)' /\ ShownAt(x)'
    BY <1>5, <1>12, <2>3 DEF Page!GroupsStored
  <2>5. GroupsAt(x)'
    BY <1>12, <2>0, <2>2 DEF GroupsAt, Page!Groups, Page!GroupsStored
  <2>6. QED
    BY <1>3, <2>2, <2>4, <2>5 DEF At
<1>13. CASE Page!SweepGroups(t)
  <2>0. /\ q.op = "save" /\ q.step = "sweep" /\ q.kept \subseteq Page!Groups(q.page) /\ q.page \in PageIds
        /\ groupOf' = [g \in GroupIds |-> IF groupOf[g] = q.page /\ g \notin q.kept THEN NoPage ELSE groupOf[g]]
    BY <1>0, <1>2, <1>q, <1>13 DEF Page!SweepGroups, Guided, GroupsAt
  <2>1. Page!Goto(t, "entry")
    BY <1>13 DEF Page!SweepGroups
  <2>2. PICK x \in Tasks : /\ ptask' = [ptask EXCEPT ![t] = x] /\ x.step = "entry" /\ x.op = q.op
                          /\ x.page = q.page /\ x.from = q.from /\ x.to = q.to /\ x.kept = q.kept /\ x.answer = q.answer
    BY <1>4, <2>1 DEF Page!Steps
  <2>3. SlugAt(x) /\ MapAt(x) /\ EntryAt(x) /\ ShownAt(x)
    BY <1>2, <2>0, <2>2 DEF SlugAt, MapAt, EntryAt, ShownAt, Saved
  <2>4. SlugAt(x)' /\ MapAt(x)' /\ EntryAt(x)' /\ ShownAt(x)'
    BY <1>5, <1>13, <2>3 DEF Page!SweepGroups
  <2>5. Page!Groups(q.page)' = q.kept
    BY <1>0, <2>0 DEF Page!Groups
  <2>6. GroupsAt(x)'
    BY <2>0, <2>2, <2>5 DEF GroupsAt
  <2>7. QED
    BY <1>3, <2>2, <2>4, <2>6 DEF At
<1>14. CASE Page!RenameEntry(t)
  <2>0. /\ q.op = "save" /\ q.step = "entry" /\ q.from \in Slugs /\ q.to \in Slugs /\ q.page \in PageIds
        /\ slug[q.page] = q.to /\ Shown(q.to)
    BY <1>0, <1>2, <1>q, <1>14 DEF Page!RenameEntry, Guided, SlugAt, Saved, Shown, Page!Pages
  <2>1. CASE entryPage = q.from /\ q.to # q.from
    <3>0. entryPage' = q.to /\ Page!Goto(t, "setting")
      BY <1>q, <1>14, <2>1 DEF Page!RenameEntry
    <3>1. PICK x \in Tasks : /\ ptask' = [ptask EXCEPT ![t] = x] /\ x.step = "setting" /\ x.op = q.op
                            /\ x.page = q.page /\ x.from = q.from /\ x.to = q.to /\ x.kept = q.kept /\ x.answer = q.answer
      BY <1>4, <3>0 DEF Page!Steps
    <3>2. SlugAt(x)' /\ GroupsAt(x)' /\ EntryAt(x)'
      BY <1>2, <1>14, <2>0, <3>0, <3>1 DEF SlugAt, GroupsAt, EntryAt, Saved, Page!RenameEntry
    <3>3. MapAt(x)'
      BY <1>2, <1>14, <2>0, <3>1, AgreesStays DEF MapAt, Page!RenameEntry
    <3>4. ShownAt(x)'
      BY <1>2, <1>14, <2>0, <3>0, <3>1, ShownStays DEF ShownAt, Saved, Page!RenameEntry
    <3>5. QED
      BY <1>3, <3>1, <3>2, <3>3, <3>4 DEF At
  <2>2. CASE ~(entryPage = q.from /\ q.to # q.from)
    <3>0. entryPage' = entryPage /\ Page!Goto(t, "done")
      BY <1>q, <1>14, <2>2 DEF Page!RenameEntry
    <3>1. PICK x \in Tasks : /\ ptask' = [ptask EXCEPT ![t] = x] /\ x.step = "done" /\ x.op = q.op
                            /\ x.page = q.page /\ x.from = q.from /\ x.to = q.to /\ x.kept = q.kept /\ x.answer = q.answer
      BY <1>4, <3>0 DEF Page!Steps
    <3>2. SlugAt(x) /\ MapAt(x) /\ EntryAt(x)
      BY <1>2, <2>0, <3>1 DEF SlugAt, MapAt, EntryAt, Saved
    <3>3. ShownAt(x)
      BY <1>2, <2>0, <2>2, <3>1 DEF ShownAt, EntryAt
    <3>4. SlugAt(x)' /\ MapAt(x)' /\ EntryAt(x)' /\ ShownAt(x)'
      BY <1>5, <1>14, <3>0, <3>2, <3>3 DEF Page!RenameEntry
    <3>5. GroupsAt(x)'
      BY <3>1 DEF GroupsAt
    <3>6. QED
      BY <1>3, <3>1, <3>4, <3>5 DEF At
  <2>3. QED
    BY <2>1, <2>2
<1>15. CASE Page!StoreEntry(t)
  <2>0. /\ q.step = "setting" /\ q.op \in {"save", "delete"} /\ entrySetting' = entryPage
        /\ q.op = "delete" => q.from \in Slugs /\ entryPage = NoPage
        /\ q.op = "save" => slug[q.page] = q.to /\ q.page \in Page!Pages /\ entryPage = q.to
    BY <1>0, <1>2, <1>q, <1>15 DEF Page!StoreEntry, Guided, EntryAt, SlugAt, Saved, Page!Pages
  <2>1. Page!Goto(t, IF q.op = "delete" THEN "remove" ELSE "done")
    BY <1>q, <1>15 DEF Page!StoreEntry
  <2>2. PICK x \in Tasks : /\ ptask' = [ptask EXCEPT ![t] = x] /\ x.step = (IF q.op = "delete" THEN "remove" ELSE "done")
                           /\ x.op = q.op /\ x.page = q.page /\ x.from = q.from /\ x.to = q.to
    BY <1>4, <2>1 DEF Page!Steps
  <2>3. SlugAt(x)'
    BY <1>2, <1>15, <2>0, <2>2 DEF SlugAt, Saved, Page!StoreEntry
  <2>4. MapAt(x)'
    BY <1>2, <1>15, <2>0, <2>2, AgreesStays DEF MapAt, Page!StoreEntry
  <2>5. GroupsAt(x)' /\ EntryAt(x)'
    BY <1>0, <1>15, <2>0, <2>2 DEF GroupsAt, EntryAt, Page!StoreEntry
  <2>6. ShownAt(x)'
    <3>1. Shown(entryPage)
      BY <2>0 DEF Shown
    <3>2. QED
      BY <1>15, <2>0, <3>1, ShownStays DEF ShownAt, Page!StoreEntry
  <2>7. QED
    BY <1>3, <2>0, <2>2, <2>3, <2>4, <2>5, <2>6 DEF At
<1>16. CASE Page!FindDelete(t)
  <2> DEFINE p == Page!PageOf(q.from)
             s == CASE p = NoPage -> "done"
                    [] p # NoPage /\ entryPage = q.from -> "setting"
                    [] OTHER -> "remove"
  <2>1. p \in PageIds \cup {NoPage} /\ (p # NoPage => p \in Page!Pages /\ slug[p] = q.from)
    BY PageOfIs DEF Page!Pages
  <2>2. /\ q.op = "delete" /\ q.step = "find" /\ q.from \in Slugs
        /\ ptask' = [ptask EXCEPT ![t] = [q EXCEPT !.page = p, !.step = s]]
        /\ entryPage' = IF p # NoPage /\ entryPage = q.from THEN NoPage ELSE entryPage
    BY <1>0, <1>q, <1>16 DEF Page!FindDelete, Guided
  <2>3. s \in Page!Steps /\ s \in {"done", "setting", "remove"} /\ (s = "done" <=> p = NoPage)
        /\ (s = "setting" <=> p # NoPage /\ entryPage = q.from)
    BY DEF Page!Steps
  <2> HIDE DEF p, s
  <2>4. PICK x \in Tasks : x = [q EXCEPT !.page = p, !.step = s]
    BY <2>1, <2>3 DEF Tasks
  <2>5. x.op = "delete" /\ x.step = s /\ x.page = p /\ x.from = q.from
    BY <2>2, <2>4 DEF Tasks
  <2>6. SlugAt(x)' /\ GroupsAt(x)'
    BY <1>16, <2>1, <2>3, <2>5 DEF SlugAt, GroupsAt, Page!FindDelete
  <2>7. MapAt(x)'
    BY <1>2, <1>16, <2>2, <2>3, <2>5, AgreesStays DEF MapAt, Page!FindDelete
  <2>8. EntryAt(x)'
    BY <1>2, <1>16, <2>2, <2>3, <2>5 DEF EntryAt, Page!FindDelete
  <2>9. ShownAt(x)'
    <3>1. ~adrift => Shown(entryPage) /\ Shown(entrySetting) /\ Shown(NoPage)
      BY <1>2, <2>2 DEF ShownAt, Shown
    <3>2. QED
      BY <1>16, <2>2, <3>1, ShownStays DEF ShownAt, Page!FindDelete
  <2>10. QED
    BY <1>3, <2>2, <2>3, <2>4, <2>5, <2>6, <2>7, <2>8, <2>9 DEF At
<1>17. CASE Page!RemoveGroups(t)
  <2>0. q.op = "delete" /\ q.step = "remove"
    BY <1>0, <1>q, <1>17 DEF Page!RemoveGroups, Guided
  <2>1. Page!Goto(t, "page")
    BY <1>17 DEF Page!RemoveGroups
  <2>2. PICK x \in Tasks : /\ ptask' = [ptask EXCEPT ![t] = x] /\ x.step = "page" /\ x.op = q.op
                          /\ x.page = q.page /\ x.from = q.from /\ x.to = q.to /\ x.kept = q.kept /\ x.answer = q.answer
    BY <1>4, <2>1 DEF Page!Steps
  <2>3. SlugAt(x) /\ MapAt(x) /\ EntryAt(x) /\ ShownAt(x)
    BY <1>2, <2>0, <2>2 DEF SlugAt, MapAt, EntryAt, ShownAt
  <2>4. SlugAt(x)' /\ MapAt(x)' /\ EntryAt(x)' /\ ShownAt(x)'
    BY <1>5, <1>17, <2>3 DEF Page!RemoveGroups
  <2>5. GroupsAt(x)'
    BY <2>0, <2>2 DEF GroupsAt
  <2>6. QED
    BY <1>3, <2>2, <2>4, <2>5 DEF At
<1>18. CASE Page!RemovePage(t)
  <2> DEFINE p == q.page
  <2>0. /\ q.op = "delete" /\ q.step = "page" /\ p \in PageIds /\ slug[p] = q.from
        /\ entryPage # q.from /\ entryPage = entrySetting /\ MapAgrees
        /\ slug' = [slug EXCEPT ![p] = NoPage]
        /\ cname' = [d \in Domains |-> IF cname[d] = p THEN NoPage ELSE cname[d]]
        /\ outdated' = outdated \cup {d \in Domains : cname[d] = p}
    BY <1>0, <1>2, <1>q, <1>18 DEF Page!RemovePage, Guided, SlugAt, EntryAt, MapAt
  <2>1. Page!Goto(t, "done")
    BY <1>18 DEF Page!RemovePage
  <2>2. PICK x \in Tasks : /\ ptask' = [ptask EXCEPT ![t] = x] /\ x.step = "done" /\ x.op = q.op
                          /\ x.page = q.page /\ x.from = q.from /\ x.to = q.to /\ x.kept = q.kept /\ x.answer = q.answer
    BY <1>4, <2>1 DEF Page!Steps
  <2>3. \A y \in Page!Pages : y # p => slug'[y] = slug[y] /\ y \in Page!Pages'
    BY <1>0, <2>0 DEF Page!Pages
  <2>4. Shown(entryPage) => Shown(entryPage)'
    <3>1. entryPage' = entryPage
      BY <1>18 DEF Page!RemovePage
    <3>2. QED
      BY <2>0, <2>3, <3>1 DEF Shown
  <2>5. MapAgrees'
    <3>1. SUFFICES ASSUME NEW d \in Domains \ outdated' PROVE mapping'[d] = Page!Mapped'[d]
      BY DEF MapAgrees
    <3>2. cname[d] # p /\ cname'[d] = cname[d] /\ cname[d] \in Page!Pages \cup {NoPage} /\ mapping'[d] = mapping[d]
      BY <1>0, <1>18, <2>0, <3>1 DEF Page!RemovePage
    <3>3. Page!SlugOf(cname[d])' = Page!SlugOf(cname[d])
      BY <1>0, <2>3, <3>2 DEF Page!SlugOf
    <3>4. QED
      BY <2>0, <3>1, <3>2, <3>3 DEF MapAgrees, Page!Mapped
  <2>6. SlugAt(x)' /\ MapAt(x)' /\ GroupsAt(x)'
    BY <2>0, <2>2, <2>5 DEF SlugAt, MapAt, GroupsAt
  <2>7. EntryAt(x)' /\ ShownAt(x)'
    BY <1>2, <1>18, <2>0, <2>2, <2>4 DEF EntryAt, ShownAt, Page!RemovePage
  <2>8. QED
    BY <1>3, <2>2, <2>6, <2>7 DEF At
<1>19. CASE Page!BelieveEntry(t)
  <2>0. q.op = "entry" /\ q.step = "entry" /\ entryPage' = q.to /\ entrySetting = q.to
    BY <1>2, <1>q, <1>19 DEF Page!BelieveEntry, EntryAt
  <2>1. Page!Goto(t, "done")
    BY <1>19 DEF Page!BelieveEntry
  <2>2. PICK x \in Tasks : /\ ptask' = [ptask EXCEPT ![t] = x] /\ x.step = "done" /\ x.op = q.op
                          /\ x.page = q.page /\ x.from = q.from /\ x.to = q.to /\ x.kept = q.kept /\ x.answer = q.answer
    BY <1>4, <2>1 DEF Page!Steps
  <2>3. SlugAt(x)' /\ GroupsAt(x)' /\ EntryAt(x)'
    BY <1>19, <2>0, <2>2 DEF SlugAt, GroupsAt, EntryAt, Page!BelieveEntry
  <2>4. MapAt(x)'
    BY <1>2, <1>19, <2>0, <2>2, AgreesStays DEF MapAt, Page!BelieveEntry
  <2>5. ShownAt(x)'
    BY <1>2, <1>19, <2>0, <2>2, ShownStays DEF ShownAt, Page!BelieveEntry
  <2>6. QED
    BY <1>3, <2>2, <2>3, <2>4, <2>5 DEF At
<1>20. CASE Page!Done(t)
  <2>0. q.step = "done" /\ MapAgrees /\ entryPage = entrySetting /\ (~adrift => Shown(entryPage))
    BY <1>2, <1>q, <1>20 DEF Page!Done, MapAt, EntryAt, ShownAt, Saved
  <2>1. \A u \in PageTasks : ptask'[u].step = "idle"
    BY <1>0, <1>1, <1>q, <1>20, RestIs DEF Page!Done, PagesInv, TasksInv, OneRequest
  <2>2. Resting'
    <3>1. MapAgrees'
      BY <1>20, <2>0, AgreesStays DEF Page!Done
    <3>2. QED
      BY <1>20, <2>0, <3>1, ShownStays DEF Page!Done, Resting
  <2>3. QED
    BY <2>1, <2>2 DEF PagesInv, OneRequest
<1>21. QED
  BY <1>6, <1>7, <1>8, <1>9, <1>10, <1>11, <1>12, <1>13, <1>14, <1>15, <1>16, <1>17, <1>18, <1>19, <1>20, <1>8f DEF Page!Work

\* A request that begins finds everything at rest.
LEMMA PagesBegin ==
  ASSUME Page!PagesAssumption, PagesInv, PagesOverlap = FALSE, NEW t \in PageTasks, TasksInv',
         \/ \E p \in PageIds : \/ Page!BeginDelete(t, p)
                               \/ \E to \in Slugs, domains \in SUBSET Domains, list \in SUBSET GroupIds, fresh \in 0..1 :
                                    Page!BeginSave(t, p, to, domains, list, fresh)
         \/ \E s \in Slugs \cup {NoPage} : Page!SetEntry(t, s)
  PROVE  PagesInv'
<1>0. Page!Rest \in Tasks /\ Page!Rest.kept = {}
  BY RestIs DEF PagesInv, TasksInv
<1>1. ASSUME Page!Quiet PROVE Resting
  BY <1>1 DEF PagesInv
<1>2. ASSUME NEW x \in Tasks, Page!Begin(t, x) PROVE Resting
  BY <1>1, <1>2 DEF Page!Begin, Page!Quiet
<1>3. ASSUME NEW x \in Tasks, Page!Begin(t, x), x.step = "find", x.kept = {}, x.op \in {"save", "delete"},
             UNCHANGED <<slug, groupOf, cname, spentIds, mapping, entryPage, entrySetting, pageCrashes, outdated, adrift>>
      PROVE  PagesInv'
  <2>1. Resting
    BY <1>2, <1>3
  <2>2. MapAgrees' /\ entryPage' = entrySetting' /\ (~adrift' => Shown(entryPage)')
    BY <1>3, <2>1, AgreesStays, ShownStays DEF Resting
  <2>3. At(x)'
    BY <1>3, <2>2 DEF At, SlugAt, MapAt, GroupsAt, EntryAt, ShownAt, Saved
  <2>4. QED
    BY <1>3, <2>3, BeginsFromRest
<1>4. ASSUME NEW p \in PageIds, Page!BeginDelete(t, p) PROVE PagesInv'
  <2>1. slug[p] \in Slugs
    BY <1>4, MappedTypes DEF Page!BeginDelete, PagesInv, TasksInv
  <2>2. PICK x \in Tasks : x = [Page!Rest EXCEPT !.op = "delete", !.step = "find", !.from = slug[p]]
    BY <1>0, <2>1 DEF Tasks, Page!Steps
  <2>3. x.step = "find" /\ x.kept = {} /\ x.op = "delete"
    BY <1>0, <2>2 DEF Tasks
  <2>4. QED
    BY <1>3, <1>4, <2>2, <2>3 DEF Page!BeginDelete
<1>5. ASSUME NEW p \in PageIds, NEW to \in Slugs, NEW domains \in SUBSET Domains, NEW list \in SUBSET GroupIds,
             NEW fresh \in 0..1, Page!BeginSave(t, p, to, domains, list, fresh)
      PROVE  PagesInv'
  <2>0. fresh \in Nat
    BY <1>5
  <2>1. slug[p] \in Slugs
    BY <1>5, MappedTypes DEF Page!BeginSave, PagesInv, TasksInv
  <2>2. PICK x \in Tasks : x = [Page!Rest EXCEPT !.op = "save", !.step = "find", !.from = slug[p], !.to = to,
                                            !.domains = domains, !.list = list, !.fresh = fresh]
    BY <1>0, <2>0, <2>1 DEF Tasks, Page!Steps
  <2>3. x.step = "find" /\ x.kept = {} /\ x.op = "save"
    BY <1>0, <2>2 DEF Tasks
  <2>4. QED
    BY <1>3, <1>5, <2>2, <2>3 DEF Page!BeginSave
<1>6. ASSUME NEW s \in Slugs \cup {NoPage}, Page!SetEntry(t, s) PROVE PagesInv'
  <2>1. ~adrift' => Shown(s)
    BY <1>6, PageOfIs DEF Page!SetEntry, Shown
  <2>2. PICK x \in Tasks : x = [Page!Rest EXCEPT !.op = "entry", !.step = "entry", !.to = s]
    BY <1>0 DEF Tasks, Page!Steps
  <2>3. x.step = "entry" /\ x.op = "entry" /\ x.to = s
    BY <1>0, <2>2 DEF Tasks
  <2>4. Page!Begin(t, x) /\ entrySetting' = x.to
        /\ UNCHANGED <<slug, cname, mapping, outdated, entryPage>>
    BY <1>6, <2>2, <2>3 DEF Page!SetEntry
  <2>5. MapAgrees
    BY <1>2, <2>4 DEF Resting
  <2>6. MapAgrees' /\ (~adrift' => Shown(entrySetting)')
    <3>1. MapAgrees'
      BY <2>4, <2>5, AgreesStays
    <3>2. Shown(x.to)' <=> Shown(x.to)
      BY <2>4, ShownStays
    <3>3. Shown(x.to)' <=> Shown(entrySetting)'
      BY <2>4 DEF Shown
    <3>4. QED
      BY <2>1, <2>3, <3>1, <3>2, <3>3
  <2>7. At(x)'
    BY <2>3, <2>4, <2>6 DEF At, SlugAt, MapAt, GroupsAt, EntryAt, ShownAt, Saved
  <2>8. QED
    BY <2>3, <2>4, <2>7, BeginsFromRest
<1>7. QED
  BY <1>4, <1>5, <1>6

\* ... and every step keeps it, if no two requests overlap.
LEMMA PagesInvStep ==
  ASSUME Page!PagesAssumption, PagesOverlap = FALSE PROVE PagesInv /\ [Page!Next]_(Page!pvars) => PagesInv'
<1> SUFFICES ASSUME PagesInv, [Page!Next]_(Page!pvars) PROVE PagesInv'
  OBVIOUS
<1>0. TasksInv'
  BY PagesTypeStep DEF PagesInv
<1>1. CASE \E p \in PageIds, s \in Slugs : Page!AddPage(p, s)
  BY <1>0, <1>1, AddsAPage
<1>2. CASE \E t \in PageTasks : Page!Work(t)
  BY <1>0, <1>2, PagesWork
<1>3. CASE Page!Restart
  BY <1>0, <1>3, Restarts
<1>4. CASE UNCHANGED Page!pvars
  <2>1. slug' = slug /\ cname' = cname /\ mapping' = mapping /\ outdated' = outdated
    BY <1>4 DEF Page!pvars
  <2>2. Page!Mapped' = Page!Mapped /\ (MapAgrees' <=> MapAgrees) /\ \A s : Shown(s)' <=> Shown(s)
    BY <2>1, MapStays, AgreesStays, ShownStays
  <2>3. ASSUME NEW q \in Tasks, At(q) PROVE At(q)'
    <3>1. SlugAt(q)' /\ MapAt(q)' /\ GroupsAt(q)' /\ EntryAt(q)'
      BY <1>4, <2>2, <2>3 DEF Page!pvars, At, SlugAt, MapAt, Renames, GroupsAt, EntryAt, Page!Groups
    <3>2. ShownAt(q)'
      BY <1>4, <2>2, <2>3 DEF Page!pvars, At, ShownAt
    <3>3. QED
      BY <3>1, <3>2 DEF At
  <2>4. Resting => Resting'
    BY <1>4, <2>2 DEF Page!pvars, Resting
  <2>5. OneRequest' /\ (Page!Quiet' => Page!Quiet)
    BY <1>4 DEF Page!pvars, PagesInv, OneRequest, Page!Quiet
  <2>6. (\A t \in PageTasks : \A q \in Tasks : q = ptask[t] /\ q.step # "idle" => At(q))'
    BY <1>4, <2>3 DEF Page!pvars, PagesInv
  <2>7. QED
    BY <1>0, <2>4, <2>5, <2>6 DEF PagesInv
<1>5. CASE \E t \in PageTasks :
             \/ \E p \in PageIds : \/ Page!BeginDelete(t, p)
                                   \/ \E to \in Slugs, domains \in SUBSET Domains, list \in SUBSET GroupIds,
                                         fresh \in 0..1 : Page!BeginSave(t, p, to, domains, list, fresh)
             \/ \E s \in Slugs \cup {NoPage} : Page!SetEntry(t, s)
  BY <1>0, <1>5, PagesBegin
<1>6. QED
  BY <1>1, <1>2, <1>3, <1>4, <1>5 DEF Page!Next

\* Between requests the entry page is the dashboard or a page that exists, although saving renames
\* the page first and the entry page ten queries later, unless a save of it ended in between or a
\* client chose the slug of no page.
THEOREM EntryExistsHolds == ASSUME Page!PagesAssumption, PagesOverlap = FALSE PROVE Page!Spec => []Page!EntryExists
<1>1. PagesInv => Page!EntryExists
  BY PageOfIs DEF PagesInv, Page!EntryExists, Resting, Shown
<1>2. QED
  BY <1>1, PagesInvInit, PagesInvStep, PTL DEF Page!Spec

\* Between requests a restart would not change the entry page, which is kept in a field of the
\* server and in a setting.
THEOREM EntryIsStoredHolds == ASSUME Page!PagesAssumption, PagesOverlap = FALSE PROVE Page!Spec => []Page!EntryIsStored
<1>1. PagesInv => Page!EntryIsStored
  BY DEF PagesInv, Page!EntryIsStored, Resting
<1>2. QED
  BY <1>1, PagesInvInit, PagesInvStep, PTL DEF Page!Spec

\* Between requests a domain leads to the page the table gives it, unless that page was deleted
\* since the map was loaded, or renamed by a save whose domains were refused.
THEOREM DomainsLeadHolds == ASSUME Page!PagesAssumption, PagesOverlap = FALSE PROVE Page!Spec => []Page!DomainsLead
<1>1. PagesInv => Page!DomainsLead
  BY DEF PagesInv, Page!DomainsLead, Resting, MapAgrees
<1>2. QED
  BY <1>1, PagesInvInit, PagesInvStep, PTL DEF Page!Spec

\* A save that reaches its last part has left exactly the groups it stored on the page.
THEOREM GroupsAsSavedHolds == ASSUME Page!PagesAssumption, PagesOverlap = FALSE PROVE Page!Spec => []Page!GroupsAsSaved
<1>1. PagesInv => Page!GroupsAsSaved
  <2>1. SUFFICES ASSUME PagesInv, NEW t \in PageTasks, ptask[t].op = "save", ptask[t].step = "entry"
                 PROVE  Page!Groups(ptask[t].page) = ptask[t].kept
    BY DEF Page!GroupsAsSaved
  <2>2. PICK q \in Tasks : q = ptask[t]
    BY <2>1 DEF PagesInv, TasksInv, Page!TypeOK, Tasks
  <2>3. GroupsAt(q)
    BY <2>1, <2>2 DEF PagesInv, At
  <2>4. QED
    BY <2>1, <2>2, <2>3 DEF GroupsAt
<1>2. QED
  BY <1>1, PagesInvInit, PagesInvStep, PTL DEF Page!Spec

-------------------------------------------------------------------------------
(* The third part: the server of the embedded database.                         *)

CONSTANTS
  Procs,      \* child processes
  Missing,    \* TRUE: the program may be missing
  MaxFailures \* bound: processes that end by themselves or are not found

VARIABLES
  process,   \* what a child process is at
  failed,    \* it ended with an error
  child,     \* this.childProcess
  running, started,  \* the fields of the class
  creating,  \* queries that create the database
  kuma,      \* the database exists
  waiter,    \* the promise of start()
  shutdown,  \* stop() was called
  failures

Maria == INSTANCE EmbeddedMariaDB

\* A process that the class has not seen the end of.
Current(p) == process[p] \in {"starting", "ready", "ended"}

\* The class starts a process before start() returns, and from then on in the close event of the
\* one before only; the one it has is the current one, until stop() lets go of it.
OneAtATime ==
  /\ waiter = "none" => \A p \in Procs : process[p] = "none"
  /\ \A p, q \in Procs : Current(p) /\ Current(q) => p = q
  /\ ~shutdown => \A p \in Procs : Current(p) <=> child = p

MariaInv == Maria!TypeOK /\ OneAtATime /\ Maria!StartedIsThere

LEMMA MariaInvInit == ASSUME Maria!MariaAssumption PROVE Maria!Init => MariaInv
<1>0. SUFFICES ASSUME Maria!Init PROVE MariaInv
  OBVIOUS
<1>1. Maria!TypeOK
  <2>1. process \in [Procs -> {"none", "starting", "ready", "ended", "closed"}] /\ failed \in [Procs -> BOOLEAN]
    BY <1>0 DEF Maria!Init
  <2>2. {running, started, kuma, shutdown} \subseteq BOOLEAN
    BY <1>0 DEF Maria!Init
  <2>3. child = 0 /\ creating = {} /\ waiter = "none" /\ failures \in 0..MaxFailures
    BY <1>0 DEF Maria!Init, Maria!MariaAssumption
  <2>4. QED
    BY <2>1, <2>2, <2>3 DEF Maria!TypeOK
<1>2. OneAtATime
  BY <1>0 DEF Maria!MariaAssumption, Maria!Init, OneAtATime, Current
<1>3. Maria!StartedIsThere
  BY <1>0 DEF Maria!Init, Maria!StartedIsThere
<1>4. QED
  BY <1>1, <1>2, <1>3 DEF MariaInv

\* What startChildProcess() leaves, when none of the processes before is current any longer.
LEMMA SpawnLeavesOne ==
  ASSUME Maria!MariaAssumption, Maria!TypeOK,
         NEW before \in [Procs -> {"none", "starting", "ready", "ended", "closed"}],
         \A p \in Procs : before[p] \in {"none", "closed"},
         \A p \in Procs : process[p] = "none" => before[p] = "none",
         Maria!Spawn(before)
  PROVE  /\ process' \in [Procs -> {"none", "starting", "ready", "ended", "closed"}]
         /\ failed' \in [Procs -> BOOLEAN]
         /\ child' \in Procs /\ child' # 0 /\ running' = TRUE
         /\ failures' \in 0..MaxFailures
         /\ \A p \in Procs : Current(p)' <=> p = child'
<1>1. PICK q \in Procs : q = Maria!Next1 /\ process[q] = "none"
  BY DEF Maria!Spawn, Maria!Next1
<1>2. child' = q /\ q # 0 /\ running' = TRUE
  BY <1>1 DEF Maria!Spawn, Maria!MariaAssumption
<1>3. CASE process' = [before EXCEPT ![q] = "starting"] /\ UNCHANGED <<failed, failures>>
  BY <1>2, <1>3 DEF Current, Maria!TypeOK
<1>4. CASE /\ failures < MaxFailures /\ failures' = failures + 1
           /\ process' = [before EXCEPT ![q] = "ended"]
           /\ failed' = [failed EXCEPT ![q] = TRUE]
  <2>1. failures' \in 0..MaxFailures
    BY <1>4 DEF Maria!TypeOK, Maria!MariaAssumption
  <2>2. QED
    BY <1>2, <1>4, <2>1 DEF Current, Maria!TypeOK
<1>5. QED
  BY <1>1, <1>3, <1>4 DEF Maria!Spawn

LEMMA MariaInvStep == ASSUME Maria!MariaAssumption PROVE MariaInv /\ [Maria!Next]_(Maria!mariaVars) => MariaInv'
<1>0. SUFFICES ASSUME MariaInv, [Maria!Next]_(Maria!mariaVars) PROVE MariaInv'
  OBVIOUS
<1>1. CASE Maria!Start
  <2>1. /\ process \in [Procs -> {"none", "starting", "ready", "ended", "closed"}]
        /\ \A p \in Procs : process[p] = "none"
    BY <1>0, <1>1 DEF MariaInv, OneAtATime, Maria!TypeOK, Maria!Start
  <2>2. /\ process' \in [Procs -> {"none", "starting", "ready", "ended", "closed"}]
        /\ failed' \in [Procs -> BOOLEAN]
        /\ child' \in Procs /\ child' # 0 /\ running' = TRUE
        /\ failures' \in 0..MaxFailures
        /\ \A p \in Procs : Current(p)' <=> p = child'
    BY <1>0, <1>1, <2>1, SpawnLeavesOne DEF MariaInv, Maria!Start
  <2>3. ~started /\ started' = started /\ waiter' = "pending"
    BY <1>0, <1>1, <2>1 DEF MariaInv, Maria!StartedIsThere, Maria!Start
  <2>4. Maria!TypeOK'
    BY <1>0, <1>1, <2>2 DEF MariaInv, Maria!TypeOK, Maria!Start
  <2>5. OneAtATime'
    BY <2>2, <2>3 DEF OneAtATime
  <2>6. QED
    BY <2>3, <2>4, <2>5 DEF MariaInv, Maria!StartedIsThere
<1>2. CASE Maria!Poll
  BY <1>0, <1>2 DEF MariaInv, Maria!TypeOK, OneAtATime, Maria!StartedIsThere, Current, Maria!Poll
<1>3. CASE Maria!Stop
  BY <1>0, <1>3 DEF MariaInv, Maria!TypeOK, OneAtATime, Maria!StartedIsThere, Current, Maria!Stop
<1>4. ASSUME NEW p \in Procs, Maria!Ready(p) PROVE MariaInv'
  <2>1. Maria!TypeOK'
    BY <1>0, <1>4 DEF MariaInv, Maria!TypeOK, Maria!Ready
  <2>2. OneAtATime'
    BY <1>0, <1>4 DEF MariaInv, Maria!TypeOK, OneAtATime, Current, Maria!Ready
  <2>3. Maria!StartedIsThere'
    BY <1>0, <1>4 DEF MariaInv, Maria!TypeOK, Maria!StartedIsThere, Maria!Ready
  <2>4. QED
    BY <2>1, <2>2, <2>3 DEF MariaInv
<1>5. ASSUME NEW p \in Procs, Maria!Created(p) PROVE MariaInv'
  BY <1>0, <1>5 DEF MariaInv, Maria!TypeOK, OneAtATime, Maria!StartedIsThere, Current, Maria!Created
<1>6. ASSUME NEW p \in Procs, Maria!Fail(p) \/ Maria!Obey(p) PROVE MariaInv'
  <2>1. /\ process[p] \in {"starting", "ready"}
        /\ process' = [process EXCEPT ![p] = "ended"]
        /\ \E c \in BOOLEAN : failed' = [failed EXCEPT ![p] = c]
        /\ UNCHANGED <<child, running, started, creating, kuma, waiter, shutdown>>
    BY <1>6 DEF Maria!Fail, Maria!Obey, Maria!Alive
  <2>2. failures' \in 0..MaxFailures
    BY <1>0, <1>6 DEF MariaInv, Maria!TypeOK, Maria!MariaAssumption, Maria!Fail, Maria!Obey
  <2>3. Maria!TypeOK'
    BY <1>0, <2>1, <2>2 DEF MariaInv, Maria!TypeOK
  <2>4. OneAtATime'
    BY <1>0, <2>1 DEF MariaInv, Maria!TypeOK, OneAtATime, Current
  <2>5. Maria!StartedIsThere'
    BY <1>0, <2>1 DEF MariaInv, Maria!TypeOK, Maria!StartedIsThere
  <2>6. QED
    BY <2>3, <2>4, <2>5 DEF MariaInv
<1>7. ASSUME NEW p \in Procs, Maria!Close(p) PROVE MariaInv'
  <2> DEFINE before == [process EXCEPT ![p] = "closed"]
  <2>1. process[p] = "ended" /\ ~started' /\ started' \in BOOLEAN /\ UNCHANGED <<creating, kuma, waiter, shutdown>>
    BY <1>7 DEF Maria!Close, Maria!Closed
  <2>2. \A q \in Procs : q # p => process[q] \in {"none", "closed"}
    BY <1>0, <2>1 DEF MariaInv, Maria!TypeOK, OneAtATime, Current
  <2>3. /\ before \in [Procs -> {"none", "starting", "ready", "ended", "closed"}]
        /\ \A q \in Procs : before[q] \in {"none", "closed"}
        /\ \A q \in Procs : process[q] = "none" => before[q] = "none"
    BY <1>0, <2>1, <2>2 DEF MariaInv, Maria!TypeOK
  <2>4. waiter # "none"
    BY <1>0, <2>1 DEF MariaInv, OneAtATime
  <2>5. CASE Maria!Spawn(before)
    <3>1. /\ process' \in [Procs -> {"none", "starting", "ready", "ended", "closed"}]
          /\ failed' \in [Procs -> BOOLEAN]
          /\ child' \in Procs /\ child' # 0 /\ running' = TRUE
          /\ failures' \in 0..MaxFailures
          /\ \A q \in Procs : Current(q)' <=> q = child'
      BY <1>0, <2>3, <2>5, SpawnLeavesOne DEF MariaInv
    <3>2. Maria!TypeOK'
      BY <1>0, <2>1, <3>1 DEF MariaInv, Maria!TypeOK
    <3>3. OneAtATime'
      BY <2>1, <2>4, <3>1 DEF OneAtATime
    <3>4. QED
      BY <2>1, <3>2, <3>3 DEF MariaInv, Maria!StartedIsThere
  <2>6. CASE process' = before /\ child' = 0 /\ running' = FALSE /\ UNCHANGED <<failed, failures>>
    <3>1. Maria!TypeOK'
      BY <1>0, <2>1, <2>3, <2>6 DEF MariaInv, Maria!TypeOK
    <3>2. \A q \in Procs : ~Current(q)' /\ q # 0
      BY <2>3, <2>6 DEF Current, Maria!MariaAssumption
    <3>3. OneAtATime'
      BY <2>1, <2>4, <2>6, <3>2 DEF OneAtATime
    <3>4. QED
      BY <2>1, <3>1, <3>3 DEF MariaInv, Maria!StartedIsThere
  <2>7. QED
    BY <1>7, <2>5, <2>6 DEF Maria!Close
<1>8. CASE UNCHANGED Maria!mariaVars
  BY <1>0, <1>8 DEF MariaInv, Maria!TypeOK, OneAtATime, Maria!StartedIsThere, Current, Maria!mariaVars
<1>9. QED
  BY <1>0, <1>1, <1>2, <1>3, <1>4, <1>5, <1>6, <1>7, <1>8 DEF Maria!Next

\* The fields of the class keep their types, and there is no process that is not running.
THEOREM MariaTypes == ASSUME Maria!MariaAssumption PROVE Maria!Spec => []Maria!TypeOK
<1>1. MariaInv => Maria!TypeOK
  BY DEF MariaInv
<1>2. QED
  BY <1>1, MariaInvInit, MariaInvStep, PTL DEF Maria!Spec

\* Two servers never run on the same data directory: the next one is started by the close event
\* of the one before, stopped or failed, for any number of failures and also after stop().
THEOREM OneServerHolds == ASSUME Maria!MariaAssumption PROVE Maria!Spec => []Maria!OneServer
<1>1. MariaInv => Maria!OneServer
  BY DEF MariaInv, OneAtATime, Current, Maria!Alive, Maria!OneServer
<1>2. QED
  BY <1>1, MariaInvInit, MariaInvStep, PTL DEF Maria!Spec

\* `started`, which resolves the promise of start(), is never believed of a server whose end the
\* class has seen.
THEOREM StartedIsThereHolds == ASSUME Maria!MariaAssumption PROVE Maria!Spec => []Maria!StartedIsThere
<1>1. MariaInv => Maria!StartedIsThere
  BY DEF MariaInv
<1>2. QED
  BY <1>1, MariaInvInit, MariaInvStep, PTL DEF Maria!Spec

\* Until stop() is called, the server that runs is the one stop() would signal.
StopReaches == ~shutdown => \A p \in Maria!Alive : child = p

\* stop() signals the server that runs, whichever start or restart it came from.
THEOREM StopReachesTheServer == ASSUME Maria!MariaAssumption PROVE Maria!Spec => []StopReaches
<1>1. MariaInv => StopReaches
  BY DEF MariaInv, OneAtATime, StopReaches, Current, Maria!Alive
<1>2. QED
  BY <1>1, MariaInvInit, MariaInvStep, PTL DEF Maria!Spec
=============================================================================
