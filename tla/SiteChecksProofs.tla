--------------------------- MODULE SiteChecksProofs ---------------------------
(***************************************************************************)
(* For any monitors, check types, destinations and targets, and whatever is   *)
(* edited, lost or crashes: a failure is told at the threshold, and alerts    *)
(* and recoveries alternate.                                                  *)
(*                                                                           *)
(* The second half is about the cache of settings and the cache of answers    *)
(* (SettingsCache and ResponseCache).                                         *)
(***************************************************************************)
EXTENDS SiteChecks, FiniteSetTheorems, TLAPS

Run == [step : Steps, target : Targets \cup {None}, row : CheckRow \cup {None},
        snapshot : [Types -> Statuses] \cup {None}, state : State, pending : SUBSET Pairs]

\* No state counts more failures than Retries.
Bounded(state) == \A t \in Types : state[t].failures <= Retries

\* The types of a row and of a run.
RowOK(row) == row \in CheckRow /\ Bounded(row.state)

RunOK(r) ==
  /\ r \in Run
  /\ r.row # None => RowOK(r.row)
  /\ Bounded(r.state)
  /\ r.step # "idle" => r.target \in Targets
  /\ r.step \in {"reread", "prepare"} \/ r.pending # {} => r.snapshot \in [Types -> Statuses]
  /\ r.step # "deliver" => r.pending = {}
  /\ \A p \in r.pending : r.snapshot[p[1]] \in {"up", "down"}

TypedRuns ==
  /\ run \in [Monitors -> Run]
  /\ \A m \in Monitors : RunOK(run[m])

TypedRows ==
  /\ site_check \in [Monitors -> CheckRow \cup {None}]
  /\ \A m \in Monitors : site_check[m] # None => RowOK(site_check[m])

TypedMonitors ==
  /\ monitor \in [Monitors -> [target : Targets \cup {Disabled, None}, active : BOOLEAN]]
  /\ live \in [Monitors -> Targets \cup {Disabled, None}]

TypedEnv ==
  /\ site \in [Types -> Statuses] /\ subscribed \subseteq Destinations /\ maintained \in BOOLEAN
  /\ edits \in 0..MaxEdits /\ crashes \in 0..MaxCrashes

TypedHist ==
  /\ heard \in [Monitors -> [Targets -> SUBSET Pairs]]
  /\ unsaved \in [Monitors -> [Targets -> SUBSET Pairs]]
  /\ streak \in [Monitors -> [Targets -> [Types -> 0..Retries]]]

Typed == TypedRuns /\ TypedRows /\ TypedMonitors /\ TypedEnv /\ TypedHist

\* The slots.
Slots == IsFiniteSet(running) /\ Cardinality(running) <= MaxRunning

\* A state has the failures of the history, and what it says was delivered was heard, but for
\* what no stored row knows of.
Agrees(m, x, state, failures) == \A t \in Types :
  /\ state[t].failures = failures[t]
  /\ \A d \in Destinations : <<t, d>> \notin unsaved[m][x] =>
       (state[t].delivered[d] = "down" <=> <<t, d>> \in heard[m][x])

\* So does the row, for its target and for any other.
RowAgrees(m) ==
  IF monitor[m].target = None THEN site_check[m] = None
  ELSE \A x \in Targets : Agrees(m, x, Previous(site_check[m], x), streak[m][x])

\* So do the row a run has read, unless the monitor is deleted meanwhile, and the state it makes.
Read(m) == \/ run[m].step \in {"collect", "reread"} /\ monitor[m].target # None
           \/ run[m].step = "prepare"

RunAgrees(m) ==
  LET x == run[m].target IN
  /\ Read(m) => Agrees(m, x, Previous(run[m].row, x), streak[m][x])
  /\ run[m].step = "deliver" => Agrees(m, x, run[m].state, Drawn(m, x))

\* What a run is to deliver, there is to tell.
PendingIsDue(m) == \A t \in Types, d \in Destinations :
  run[m].step = "deliver" /\ <<t, d>> \in run[m].pending =>
    /\ Telling(run[m].snapshot[t], run[m].state[t].failures)
    /\ Untold(run[m].state[t].delivered[d], run[m].snapshot[t])

Consistent(m) == RowAgrees(m) /\ RunAgrees(m) /\ PendingIsDue(m)

IInv == Typed /\ Slots /\ \A m \in Monitors : Consistent(m)

-------------------------------------------------------------------------------
(* Types                                                                       *)

\* Counting keeps a state's shape and its bound.
LEMMA FailuresBounds ==
  ASSUME NEW n \in Nat, n <= Retries, NEW status
  PROVE  Failures(n, status) \in Nat /\ Failures(n, status) <= Retries
BY SiteAssumption DEF Failures

LEMMA FreshTypes == Fresh \in State /\ Bounded(Fresh)
BY SiteAssumption DEF Fresh, State, Bounded

LEMMA CountedTypes ==
  ASSUME NEW state \in State, Bounded(state), NEW snapshot
  PROVE  /\ Counted(state, snapshot) \in State
         /\ Bounded(Counted(state, snapshot))
<1> DEFINE counted == Counted(state, snapshot)
<1>1. ASSUME NEW t \in Types
      PROVE  /\ counted[t] = [failures |-> Failures(state[t].failures, snapshot[t]),
                              delivered |-> state[t].delivered]
             /\ Failures(state[t].failures, snapshot[t]) \in 0..Retries
             /\ counted[t].failures <= Retries
             /\ state[t].delivered \in [Destinations -> {None, "up", "down"}]
  <2>1. state[t] \in [failures : Nat, delivered : [Destinations -> {None, "up", "down"}]]
    BY DEF State
  <2>2. counted[t] = [state[t] EXCEPT !.failures = Failures(state[t].failures, snapshot[t])]
    BY DEF Counted
  <2>3. Failures(state[t].failures, snapshot[t]) \in Nat
        /\ Failures(state[t].failures, snapshot[t]) <= Retries
    BY <2>1, FailuresBounds DEF Bounded
  <2> QED BY <2>1, <2>2, <2>3, SiteAssumption
<1>2. counted = [t \in Types |-> counted[t]]
  BY DEF Counted
<1>3. counted \in State
  <2> HIDE DEF counted
  <2> QED BY <1>1, <1>2 DEF State
<1>4. Bounded(counted)
  <2> HIDE DEF counted
  <2> QED BY <1>1 DEF Bounded
<1> QED BY <1>3, <1>4

LEMMA PreviousTypes ==
  ASSUME NEW row, row = None \/ RowOK(row), NEW x
  PROVE  Previous(row, x) \in State /\ Bounded(Previous(row, x))
BY FreshTypes DEF Previous, RowOK, CheckRow

\* Idle is a run that is over.
LEMMA IdleTypes == RunOK(Idle) /\ Idle.step = "idle" /\ Idle.pending = {}
BY FreshTypes DEF RunOK, Idle, Run, Steps

\* What is written into the record of one run keeps the types of all.
LEMMA OneRun ==
  ASSUME TypedRuns, NEW m \in Monitors, NEW r, RunOK(r), run' = [run EXCEPT ![m] = r]
  PROVE  TypedRuns'
BY DEF TypedRuns, RunOK

LEMMA InitTyped == Init => Typed
<1> SUFFICES ASSUME Init PROVE Typed
  OBVIOUS
<1>1. TypedRuns
  BY IdleTypes DEF Init, TypedRuns, RunOK
<1>2. TypedRows
  BY DEF Init, TypedRows
<1>5. TypedEnv
  <2>1. 0 \in 0..MaxEdits /\ 0 \in 0..MaxCrashes
    BY SiteAssumption
  <2>2. /\ site \in [Types -> Statuses] /\ subscribed = Destinations /\ maintained = FALSE
        /\ edits = 0 /\ crashes = 0
    BY DEF Init
  <2> QED BY <2>1, <2>2 DEF TypedEnv
<1>4. TypedHist
  <2>1. [x \in Targets |-> {}] \in [Targets -> SUBSET Pairs]
    OBVIOUS
  <2>2. [x \in Targets |-> [t \in Types |-> 0]] \in [Targets -> [Types -> 0..Retries]]
    BY SiteAssumption
  <2> QED BY <2>1, <2>2 DEF Init, TypedHist
<1>3. TypedMonitors
  BY SiteAssumption DEF Init, TypedMonitors
<1> QED BY <1>1, <1>2, <1>3, <1>4, <1>5 DEF Typed

LEMMA NextTyped == Typed /\ [Next]_vars => Typed'
<1> SUFFICES ASSUME Typed, [Next]_vars PROVE Typed'
  OBVIOUS
<1> USE DEF Typed
<1>1. ASSUME NEW m \in Monitors, Begin(m) PROVE Typed'
  <2> DEFINE r == [Idle EXCEPT !.step = "find", !.target = live[m]]
  <2>1. RunOK(r)
    BY <1>1, FreshTypes DEF Begin, RunOK, Run, Steps, Idle
  <2>2. TypedRuns'
    <3> HIDE DEF r
    <3>1. run' = [run EXCEPT ![m] = r]
      BY <1>1 DEF Begin, r
    <3> QED BY <2>1, <3>1, OneRun
  <2> QED BY <1>1, <2>2 DEF Begin, env, hist, TypedRows, TypedMonitors, TypedEnv, TypedHist
<1>2. ASSUME NEW m \in Monitors, FindRow(m) PROVE Typed'
  <2> DEFINE r == [run[m] EXCEPT !.step = "collect", !.row = site_check[m]]
  <2>1. RunOK(r)
    <3>1. RunOK(run[m]) /\ site_check[m] \in CheckRow \cup {None}
          /\ (site_check[m] # None => RowOK(site_check[m]))
      BY DEF TypedRuns, TypedRows
    <3> QED BY <1>2, <3>1 DEF FindRow, RunOK, Run, Steps
  <2>2. TypedRuns'
    <3> HIDE DEF r
    <3>1. run' = [run EXCEPT ![m] = r] \/ run' = [run EXCEPT ![m] = Idle]
      BY <1>2 DEF FindRow, Release, r
    <3> QED BY <2>1, <3>1, OneRun, IdleTypes
  <2> QED BY <1>2, <2>2 DEF FindRow, env, hist, TypedRows, TypedMonitors, TypedEnv, TypedHist
<1>3. ASSUME NEW m \in Monitors, Collect(m) PROVE Typed'
  <2> DEFINE r == [run[m] EXCEPT !.step = "reread", !.snapshot = site]
  <2>1. RunOK(r)
    <3>1. RunOK(run[m]) /\ site \in [Types -> Statuses]
      BY DEF TypedRuns, TypedEnv
    <3> QED BY <1>3, <3>1 DEF Collect, RunOK, Run, Steps
  <2>2. TypedRuns'
    <3> HIDE DEF r
    <3>1. run' = [run EXCEPT ![m] = r]
      BY <1>3 DEF Collect, r
    <3> QED BY <2>1, <3>1, OneRun
  <2> QED BY <1>3, <2>2 DEF Collect, env, hist, TypedRows, TypedMonitors, TypedEnv, TypedHist
<1>4. ASSUME NEW m \in Monitors, Reread(m) PROVE Typed'
  <2> DEFINE r == [run[m] EXCEPT !.step = "prepare"]
  <2>1. RunOK(r)
    <3>1. RunOK(run[m])
      BY DEF TypedRuns
    <3> QED BY <1>4, <3>1 DEF Reread, RunOK, Run, Steps
  <2>2. TypedRuns'
    <3> HIDE DEF r
    <3>1. run' = [run EXCEPT ![m] = r] \/ run' = [run EXCEPT ![m] = Idle]
      BY <1>4 DEF Reread, Release, r
    <3> QED BY <2>1, <3>1, OneRun, IdleTypes
  <2> QED BY <1>4, <2>2 DEF Reread, env, hist, TypedRows, TypedMonitors, TypedEnv, TypedHist
<1>5. ASSUME NEW m \in Monitors, Prepare(m) PROVE Typed'
  <2> DEFINE previous == Previous(run[m].row, run[m].target)
             state    == Counted(previous, run[m].snapshot)
             told     == IF maintained THEN {} ELSE Due(state, run[m].snapshot, subscribed)
             r == [run[m] EXCEPT !.step = "deliver",
                                 !.state = IF maintained THEN previous ELSE state,
                                 !.snapshot = IF maintained THEN None ELSE @,
                                 !.pending = told]
  <2>1. RunOK(run[m]) /\ run[m].step = "prepare"
    BY <1>5 DEF TypedRuns, Prepare
  <2>2. previous \in State /\ Bounded(previous) /\ state \in State /\ Bounded(state)
    BY <2>1, PreviousTypes, CountedTypes DEF RunOK
  <2>3. told \subseteq Pairs
    BY DEF Due, Pairs, TypedEnv
  <2>4. RunOK(r)
    <3>1. maintained => told = {}
      OBVIOUS
    <3>2. \A p \in told : run[m].snapshot[p[1]] \in {"up", "down"}
      BY DEF Due, Telling
    <3> HIDE DEF previous, state, told
    <3> QED BY <2>1, <2>2, <2>3, <3>1, <3>2 DEF RunOK, Run, Steps, r, TypedEnv
  <2>5. TypedRuns'
    <3> HIDE DEF r
    <3>1. run' = [run EXCEPT ![m] = r]
      BY <1>5 DEF Prepare, r
    <3> QED BY <2>4, <3>1, OneRun
  <2> QED BY <1>5, <2>5 DEF Prepare, env, hist, TypedRows, TypedMonitors, TypedEnv, TypedHist
<1>6. ASSUME NEW m \in Monitors, Send(m) PROVE Typed'
  <2> PICK t \in Types, d \in Destinations : SendOk(m, t, d) \/ SendError(m, t, d)
    BY <1>6 DEF Send
  <2>1. RunOK(run[m]) /\ run[m].step = "deliver" /\ <<t, d>> \in run[m].pending
    BY DEF TypedRuns, SendOk, SendError
  <2>2. TypedHist'
    <3>1. hist' = hist \/ Hears(m, t, d)
      BY DEF SendOk, SendError
    <3>2. run[m].target \in Targets /\ <<t, d>> \in Pairs
      BY <2>1 DEF RunOK, Pairs
    <3>3. CASE hist' = hist
      BY <3>3 DEF hist, TypedHist
    <3>4. CASE Hears(m, t, d)
      <4>1. heard[m] \in [Targets -> SUBSET Pairs] /\ unsaved[m] \in [Targets -> SUBSET Pairs]
        BY DEF TypedHist
      <4> QED BY <3>2, <3>4, <4>1 DEF Hears, TypedHist
    <3> QED BY <3>1, <3>3, <3>4
  <2>3. RunOK([run[m] EXCEPT !.pending = @ \ {<<t, d>>}])
    BY <2>1 DEF RunOK, Run
  <2>4. RunOK([run[m] EXCEPT !.pending = @ \ {<<t, d>>},
                             !.state[t].delivered[d] = run[m].snapshot[t]])
    <3> DEFINE told == [run[m].state EXCEPT ![t].delivered[d] = run[m].snapshot[t]]
    <3>0. run[m].snapshot[t] \in {"up", "down", None} /\ run[m].state \in State
      BY <2>1 DEF RunOK, Run
    <3>1. told \in State /\ Bounded(told)
      BY <3>0, <2>1 DEF RunOK, State, Bounded
    <3> QED BY <2>1, <3>1 DEF RunOK, Run
  <2>5. TypedRuns'
    <3>1. /\ SendError(m, t, d) =>
               run' = [run EXCEPT ![m] = [run[m] EXCEPT !.pending = @ \ {<<t, d>>}]]
          /\ SendOk(m, t, d) =>
               run' = [run EXCEPT ![m] = [run[m] EXCEPT !.pending = @ \ {<<t, d>>},
                                          !.state[t].delivered[d] = run[m].snapshot[t]]]
      BY DEF SendOk, SendError
    <3> QED BY <2>3, <2>4, <3>1, OneRun
  <2> QED BY <2>2, <2>5
          DEF SendOk, SendError, env, TypedRows, TypedMonitors, TypedEnv
<1>7. ASSUME NEW m \in Monitors, StoreRow(m) PROVE Typed'
  <2>1. TypedRuns'
    BY <1>7, OneRun, IdleTypes DEF StoreRow, Release
  <2>2. RunOK(run[m]) /\ run[m].target \in Targets
    BY <1>7 DEF TypedRuns, RunOK, StoreRow
  <2>3. TypedRows'
    <3> DEFINE row == [target |-> run[m].target, state |-> run[m].state, due |-> FALSE]
    <3>1. RowOK(row) /\ row \in CheckRow
      BY <2>2 DEF RowOK, RunOK, Run, CheckRow
    <3>2. site_check' = site_check \/ site_check' = [site_check EXCEPT ![m] = row]
      BY <1>7 DEF StoreRow
    <3> HIDE DEF row
    <3> QED BY <3>1, <3>2 DEF TypedRows, CheckRow
  <2>4. TypedHist'
    <3> DEFINE x == run[m].target
    <3>1. heard[m][x] \subseteq Pairs /\ unsaved[m][x] \subseteq Pairs
          /\ streak[m][x] \in [Types -> 0..Retries]
      BY <2>2 DEF TypedHist
    <3>2. Drawn(m, x) \in [Types -> 0..Retries]
      BY <3>1, FailuresBounds, SiteAssumption DEF Drawn
    <3>3. Only(x, heard[m][x], {}) \in [Targets -> SUBSET Pairs]
          /\ Only(x, unsaved[m][x] \ Known(m), {}) \in [Targets -> SUBSET Pairs]
          /\ Only(x, Drawn(m, x), [t \in Types |-> 0]) \in [Targets -> [Types -> 0..Retries]]
      <4>1. [t \in Types |-> 0] \in [Types -> 0..Retries]
        BY SiteAssumption
      <4> HIDE DEF x
      <4> QED BY <3>1, <3>2, <4>1 DEF Only
    <3>4. /\ heard' = [heard EXCEPT ![m] = Only(x, heard[m][x], {})]
          /\ unsaved' = [unsaved EXCEPT ![m] = Only(x, unsaved[m][x] \ Known(m), {})]
          /\ streak' = [streak EXCEPT ![m] = Only(x, Drawn(m, x), [t \in Types |-> 0])]
      BY <1>7 DEF StoreRow
    <3> HIDE DEF x
    <3> QED BY <3>3, <3>4 DEF TypedHist
  <2> QED BY <1>7, <2>1, <2>3, <2>4 DEF StoreRow, env, TypedMonitors, TypedEnv
<1>8. ASSUME NEW m \in Monitors, Elapse(m) PROVE Typed'
  <2>1. TypedRows'
    <3> DEFINE row == [site_check[m] EXCEPT !.due = TRUE]
    <3>1. RowOK(row) /\ row \in CheckRow
      BY <1>8 DEF Elapse, TypedRows, RowOK, CheckRow
    <3>2. site_check' = [site_check EXCEPT ![m] = row]
      BY <1>8 DEF Elapse
    <3> HIDE DEF row
    <3> QED BY <3>1, <3>2 DEF TypedRows, CheckRow
  <2> QED BY <1>8, <2>1 DEF Elapse, env, hist, TypedRuns, TypedMonitors, TypedEnv, TypedHist
<1>9. ASSUME NEW m \in Monitors, NEW row \in Rows, Edit(m, row) PROVE Typed'
  <2>1. TypedMonitors'
    <3>1. row \in [target : Targets \cup {Disabled, None}, active : BOOLEAN]
      <4>1. row = [target |-> None, active |-> FALSE]
            \/ row \in [target : Targets \cup {Disabled}, active : BOOLEAN]
        BY DEF Rows
      <4>2. CASE row = [target |-> None, active |-> FALSE]
        BY <4>2
      <4>3. CASE row \in [target : Targets \cup {Disabled}, active : BOOLEAN]
        BY <4>3
      <4> QED BY <4>1, <4>2, <4>3
    <3>2. monitor' = [monitor EXCEPT ![m] = row] /\ live' = live
      BY <1>9 DEF Edit
    <3> QED BY <3>1, <3>2 DEF TypedMonitors
  <2>2. TypedRows'
    BY <1>9 DEF Edit, TypedRows
  <2>3. TypedEnv'
    BY <1>9, SiteAssumption DEF Edit, env, TypedEnv
  <2> QED BY <1>9, <2>1, <2>2, <2>3 DEF Edit, hist, TypedRuns, TypedHist
<1>10. ASSUME NEW m \in Monitors, Restart(m) PROVE Typed'
  BY <1>10 DEF Restart, env, hist, TypedRuns, TypedRows, TypedMonitors, TypedEnv, TypedHist
<1>11. CASE Crash
  <2>1. TypedRuns'
    BY <1>11, IdleTypes DEF Crash, TypedRuns, RunOK
  <2>2. TypedMonitors' /\ TypedEnv'
    BY <1>11, SiteAssumption DEF Crash, env, TypedMonitors, TypedEnv
  <2> QED BY <1>11, <2>1, <2>2 DEF Crash, hist, TypedRows, TypedHist
<1>12. CASE Subscribe
  BY <1>12, SiteAssumption
     DEF Subscribe, hist, TypedRuns, TypedRows, TypedMonitors, TypedEnv, TypedHist
<1>13. CASE Environment
  BY <1>13 DEF Environment, hist, TypedRuns, TypedRows, TypedMonitors, TypedEnv, TypedHist
<1>14. CASE UNCHANGED vars
  BY <1>14 DEF vars, env, hist, TypedRuns, TypedRows, TypedMonitors, TypedEnv, TypedHist
<1> QED BY <1>1, <1>2, <1>3, <1>4, <1>5, <1>6, <1>7, <1>8, <1>9, <1>10, <1>11, <1>12, <1>13,
           <1>14 DEF Next, Work

-------------------------------------------------------------------------------
(* Slots                                                                       *)

LEMMA InitSlots == Init => Slots
<1> SUFFICES ASSUME Init PROVE Slots
  OBVIOUS
<1>1. running = {}
  BY DEF Init, running, Idle
<1> QED BY <1>1, FS_EmptySet, SiteAssumption DEF Slots

LEMMA FewerSlots ==
  ASSUME Slots, running' \subseteq running
  PROVE  Slots'
<1>1. IsFiniteSet(running') /\ Cardinality(running') <= Cardinality(running)
  BY FS_Subset DEF Slots
<1>2. Cardinality(running) \in Nat /\ Cardinality(running') \in Nat
  BY <1>1, FS_CardinalityType DEF Slots
<1> QED BY <1>1, <1>2, SiteAssumption DEF Slots

LEMMA NextSlots == Typed /\ Slots /\ [Next]_vars => Slots'
<1> SUFFICES ASSUME Typed, Slots, [Next]_vars PROVE Slots'
  OBVIOUS
<1> USE DEF Typed, TypedRuns
<1>1. ASSUME NEW m \in Monitors, Begin(m) PROVE Slots'
  <2>1. running' \subseteq running \cup {m} /\ m \notin running
    BY <1>1 DEF Begin, running
  <2>2. IsFiniteSet(running \cup {m}) /\ Cardinality(running \cup {m}) = Cardinality(running) + 1
    BY <2>1, FS_AddElement DEF Slots
  <2>3. IsFiniteSet(running') /\ Cardinality(running') <= Cardinality(running) + 1
    BY <2>1, <2>2, FS_Subset
  <2>4. Cardinality(running) \in Nat /\ Cardinality(running') \in Nat
    BY <2>3, FS_CardinalityType DEF Slots
  <2>5. Cardinality(running) < MaxRunning
    BY <1>1 DEF Begin
  <2> QED BY <2>3, <2>4, <2>5, SiteAssumption DEF Slots
<1>2. ASSUME NEW m \in Monitors, Work(m) PROVE Slots'
  <2>1. m \in running
    BY <1>2 DEF Work, FindRow, Collect, Reread, Prepare, Send, SendOk, SendError, StoreRow, running
  <2>2. \A k \in Monitors : k # m => run'[k] = run[k]
    BY <1>2 DEF Work, FindRow, Collect, Reread, Prepare, Send, SendOk, SendError, StoreRow, Release
  <2>3. running' \subseteq running
    BY <2>1, <2>2 DEF running
  <2> QED BY <2>3, FewerSlots
<1>3. CASE run' = run
  BY <1>3, FewerSlots DEF running
<1>4. CASE Crash
  <2>1. running' = {}
    BY <1>4 DEF Crash, running, Idle
  <2> QED BY <2>1, FewerSlots
<1>5. ASSUME NEW m \in Monitors, Elapse(m) \/ Restart(m) PROVE run' = run
  BY <1>5 DEF Elapse, Restart
<1>6. ASSUME NEW m \in Monitors, NEW row \in Rows, Edit(m, row) PROVE run' = run
  BY <1>6 DEF Edit
<1>7. Subscribe \/ Environment \/ UNCHANGED vars => run' = run
  BY DEF Subscribe, Environment, vars
<1> QED BY <1>1, <1>2, <1>3, <1>4, <1>5, <1>6, <1>7 DEF Next

-------------------------------------------------------------------------------
(* The rows, the runs and the history                                          *)

\* What is stored, read, made and recorded about one monitor.
About(k) == <<monitor[k], site_check[k], run[k], heard[k], unsaved[k], streak[k]>>

LEMMA NoneIsNoRow ==
  /\ None \notin CheckRow
  /\ \A snapshot \in [Types -> Statuses] : snapshot # None
  /\ \A x \in Targets : x # None
BY NoneAssumption, SiteAssumption

\* A step that is not about a monitor leaves it consistent.
LEMMA Untouched ==
  ASSUME NEW k \in Monitors, Consistent(k), UNCHANGED About(k)
  PROVE  Consistent(k)'
BY DEF Consistent, About, RowAgrees, Read, RunAgrees, PendingIsDue, Agrees, Drawn

\* A step that ends its run leaves it so, when the row and the history agree.
LEMMA Ended ==
  ASSUME NEW k \in Monitors, RowAgrees(k)', run'[k] = Idle
  PROVE  Consistent(k)'
BY DEF Consistent, RunAgrees, PendingIsDue, Read, Idle

LEMMA InitConsistent == Init => \A m \in Monitors : Consistent(m)
<1> SUFFICES ASSUME Init, NEW m \in Monitors PROVE Consistent(m)
  OBVIOUS
<1>1. RowAgrees(m)
  <2>1. \A x \in Targets : /\ streak[m][x] = [t \in Types |-> 0]
                           /\ heard[m][x] = {} /\ Previous(site_check[m], x) = Fresh
    BY DEF Init, Previous
  <2>2. None # "down"
    BY NoneAssumption DEF Statuses
  <2>3. \A x \in Targets : Agrees(m, x, Fresh, [t \in Types |-> 0])
    BY <2>1, <2>2 DEF Agrees, Fresh
  <2> QED BY <2>1, <2>3 DEF RowAgrees, Init
<1>2. run[m] = Idle
  BY DEF Init
<1> QED BY <1>1, <1>2 DEF Consistent, RunAgrees, PendingIsDue, Read, Idle

\* A step of m's run, with the history as it was, leaves m's row in agreement.
LEMMA SameRow ==
  ASSUME NEW m \in Monitors, RowAgrees(m), UNCHANGED <<monitor, site_check, hist>>
  PROVE  RowAgrees(m)'
BY DEF RowAgrees, Agrees, hist

LEMMA CountedAgrees ==
  ASSUME NEW m, NEW x, NEW state \in State, NEW failures, NEW snapshot,
         Agrees(m, x, state, failures)
  PROVE  Agrees(m, x, Counted(state, snapshot),
                [t \in Types |-> Failures(failures[t], snapshot[t])])
<1> DEFINE counted == Counted(state, snapshot)
           drawn   == [t \in Types |-> Failures(failures[t], snapshot[t])]
<1>1. ASSUME NEW t \in Types
      PROVE  /\ counted[t].failures = drawn[t]
             /\ counted[t].delivered = state[t].delivered
  <2>1. state[t] \in [failures : Nat, delivered : [Destinations -> {None, "up", "down"}]]
    BY DEF State
  <2>2. counted[t] = [state[t] EXCEPT !.failures = Failures(state[t].failures, snapshot[t])]
    BY DEF Counted
  <2>3. state[t].failures = failures[t]
    BY DEF Agrees
  <2> QED BY <2>1, <2>2, <2>3
<1> HIDE DEF counted, drawn
<1>2. Agrees(m, x, counted, drawn)
  BY <1>1 DEF Agrees
<1> QED BY <1>2 DEF counted, drawn

LEMMA PrepareConsistent ==
  ASSUME Typed, NEW m \in Monitors, Consistent(m), Prepare(m)
  PROVE  Consistent(m)'
<1> DEFINE x        == run[m].target
           previous == Previous(run[m].row, x)
           state    == Counted(previous, run[m].snapshot)
<1>1. /\ RunOK(run[m]) /\ run \in [Monitors -> Run] /\ run[m].step = "prepare"
      /\ Agrees(m, x, previous, streak[m][x])
      /\ UNCHANGED <<monitor, site_check, hist>>
  BY DEF Typed, TypedRuns, Prepare, Consistent, RunAgrees, Read
<1>2. previous \in State
  BY <1>1, PreviousTypes DEF RunOK
<1>3. RowAgrees(m)'
  BY <1>1, SameRow DEF Consistent
<1>4. /\ run'[m].step = "deliver" /\ run'[m].target = x
      /\ maintained => /\ run'[m].state = previous /\ run'[m].snapshot = None
                       /\ run'[m].pending = {}
      /\ ~maintained => /\ run'[m].state = state /\ run'[m].snapshot = run[m].snapshot
                        /\ run'[m].pending = Due(state, run[m].snapshot, subscribed)
  BY <1>1 DEF Prepare, Run
<1>5. Agrees(m, x, run'[m].state, Drawn(m, x)')
  <2>1. CASE maintained
    <3>1. Drawn(m, x)' = [t \in Types |-> streak[m][x][t]]
      BY <1>1, <1>4, <2>1 DEF Drawn, hist
    <3> QED BY <1>1, <1>4, <2>1, <3>1 DEF Agrees
  <2>2. CASE ~maintained
    <3>1. run[m].snapshot # None
      BY <1>1, NoneIsNoRow DEF RunOK
    <3>2. Drawn(m, x)' = [t \in Types |-> Failures(streak[m][x][t], run[m].snapshot[t])]
      BY <1>1, <1>4, <2>2, <3>1 DEF Drawn, hist
    <3> QED BY <1>1, <1>2, <1>4, <2>2, <3>2, CountedAgrees
  <2> QED BY <2>1, <2>2
<1>6. RunAgrees(m)'
  BY <1>1, <1>4, <1>5 DEF RunAgrees, Read, Agrees, hist
<1>7. PendingIsDue(m)'
  BY <1>4 DEF PendingIsDue, Due
<1> QED BY <1>3, <1>6, <1>7 DEF Consistent

LEMMA SendConsistent ==
  ASSUME Typed, NEW m \in Monitors, Consistent(m), Send(m)
  PROVE  Consistent(m)'
<1> PICK t \in Types, d \in Destinations : SendOk(m, t, d) \/ SendError(m, t, d)
  BY DEF Send
<1> DEFINE x == run[m].target
<1>1. /\ RunOK(run[m]) /\ run \in [Monitors -> Run]
      /\ run[m].step = "deliver" /\ <<t, d>> \in run[m].pending /\ x \in Targets
      /\ run[m].state \in State
  BY DEF Typed, TypedRuns, RunOK, SendOk, SendError, Run
<1>2. /\ run'[m].step = "deliver" /\ run'[m].target = x /\ run'[m].snapshot = run[m].snapshot
      /\ run'[m].pending = run[m].pending \ {<<t, d>>}
  BY <1>1 DEF SendOk, SendError, Run
<1>3. UNCHANGED <<monitor, site_check, streak>>
  BY DEF SendOk, SendError, Hears, hist
<1>4. /\ \A y \in Targets : \A e \in Pairs : e # <<t, d>> \/ y # x =>
           /\ e \in heard'[m][y] <=> e \in heard[m][y]
           /\ e \in unsaved'[m][y] <=> e \in unsaved[m][y]
      /\ <<t, d>> \in unsaved'[m][x] \/ UNCHANGED <<heard, unsaved, run[m].state>>
  <2>1. CASE UNCHANGED hist /\ SendError(m, t, d)
    BY <1>1, <2>1 DEF hist, SendError, Run
  <2>2. CASE Hears(m, t, d)
    <3>1. /\ heard[m] \in [Targets -> SUBSET Pairs] /\ unsaved[m] \in [Targets -> SUBSET Pairs]
          /\ heard \in [Monitors -> [Targets -> SUBSET Pairs]]
          /\ unsaved \in [Monitors -> [Targets -> SUBSET Pairs]]
      BY DEF Typed, TypedHist
    <3>2. /\ heard'[m][x] = IF run[m].snapshot[t] = "down" THEN heard[m][x] \cup {<<t, d>>}
                            ELSE heard[m][x] \ {<<t, d>>}
          /\ unsaved'[m][x] = unsaved[m][x] \cup {<<t, d>>}
      BY <1>1, <2>2, <3>1 DEF Hears
    <3>3. \A y \in Targets : y # x => heard'[m][y] = heard[m][y] /\ unsaved'[m][y] = unsaved[m][y]
      BY <1>1, <2>2, <3>1 DEF Hears
    <3>4. \A e : e # <<t, d>> => /\ e \in heard'[m][x] <=> e \in heard[m][x]
                                 /\ e \in unsaved'[m][x] <=> e \in unsaved[m][x]
      <4> HIDE DEF x
      <4> QED BY <3>2
    <3>5. <<t, d>> \in unsaved'[m][x]
      <4> HIDE DEF x
      <4> QED BY <3>2
    <3> HIDE DEF x
    <3> QED BY <3>3, <3>4, <3>5
  <2> QED BY <2>1, <2>2 DEF SendOk, SendError
<1>5. \A s \in Types : /\ run'[m].state[s].failures = run[m].state[s].failures
                       /\ \A e \in Destinations : <<s, e>> # <<t, d>> =>
                            run'[m].state[s].delivered[e] = run[m].state[s].delivered[e]
  <2>1. CASE SendError(m, t, d)
    BY <1>1, <2>1 DEF SendError, Run
  <2>2. CASE SendOk(m, t, d)
    <3>1. run[m].state[t] \in [failures : Nat, delivered : [Destinations -> {None, "up", "down"}]]
      BY <1>1 DEF State
    <3>2. run'[m].state = [run[m].state EXCEPT ![t].delivered[d] = run[m].snapshot[t]]
      BY <1>1, <2>2 DEF SendOk, Run
    <3> QED BY <1>1, <3>1, <3>2 DEF State
  <2> QED BY <2>1, <2>2
<1> HIDE DEF x
<1>6. ASSUME NEW y \in Targets, NEW state, NEW failures, Agrees(m, y, state, failures),
             <<t, d>> \in unsaved'[m][x] \/ UNCHANGED <<heard, unsaved>>
      PROVE  \A s \in Types :
        /\ state[s].failures = failures[s]
        /\ \A e \in Destinations : <<s, e>> \notin unsaved'[m][y] =>
             (state[s].delivered[e] = "down" <=> <<s, e>> \in heard'[m][y])
  <2> SUFFICES ASSUME NEW s \in Types, NEW e \in Destinations, <<s, e>> \notin unsaved'[m][y]
               PROVE  state[s].delivered[e] = "down" <=> <<s, e>> \in heard'[m][y]
    BY <1>6 DEF Agrees
  <2>1. <<s, e>> \in Pairs
    BY DEF Pairs
  <2> QED BY <1>4, <1>6, <2>1 DEF Agrees
<1>7. RowAgrees(m)'
  <2>1. CASE monitor[m].target = None
    BY <1>3, <2>1 DEF Consistent, RowAgrees
  <2>2. CASE monitor[m].target # None
    <3>1. \A y \in Targets : Agrees(m, y, Previous(site_check[m], y), streak[m][y])
      BY <2>2 DEF Consistent, RowAgrees
    <3> SUFFICES ASSUME NEW y \in Targets
                 PROVE  Agrees(m, y, Previous(site_check[m], y), streak[m][y])'
      BY <1>3, <2>2 DEF RowAgrees
    <3>2. \A s \in Types :
        /\ Previous(site_check[m], y)[s].failures = streak[m][y][s]
        /\ \A e \in Destinations : <<s, e>> \notin unsaved'[m][y] =>
             (Previous(site_check[m], y)[s].delivered[e] = "down" <=> <<s, e>> \in heard'[m][y])
      BY <1>4, <1>6, <3>1
    <3> QED BY <1>3, <3>2 DEF Agrees
  <2> QED BY <2>1, <2>2
<1>8. RunAgrees(m)'
  <2>1. Agrees(m, x, run[m].state, Drawn(m, x))
    BY <1>1 DEF Consistent, RunAgrees, x
  <2>2. x' = x /\ Drawn(m, x)' = Drawn(m, x)
    <3>1. x' = x
      BY <1>2 DEF x
    <3> QED BY <1>2, <1>3, <3>1 DEF Drawn
  <2>3. \A s \in Types :
        /\ run'[m].state[s].failures = Drawn(m, x)[s]
        /\ \A e \in Destinations : <<s, e>> \notin unsaved'[m][x] =>
             (run'[m].state[s].delivered[e] = "down" <=> <<s, e>> \in heard'[m][x])
    <3>1. \A s \in Types : run'[m].state[s].failures = Drawn(m, x)[s]
      BY <1>5, <2>1 DEF Agrees
    <3>2. CASE UNCHANGED <<heard, unsaved, run[m].state>>
      BY <2>1, <3>1, <3>2 DEF Agrees
    <3>3. CASE <<t, d>> \in unsaved'[m][x]
      <4> SUFFICES ASSUME NEW s \in Types, NEW e \in Destinations, <<s, e>> \notin unsaved'[m][x]
                   PROVE  run'[m].state[s].delivered[e] = "down" <=> <<s, e>> \in heard'[m][x]
        BY <3>1
      <4>1. <<s, e>> \in Pairs /\ <<s, e>> # <<t, d>>
        BY <3>3 DEF Pairs
      <4>2. run'[m].state[s].delivered[e] = run[m].state[s].delivered[e]
        BY <1>5, <4>1
      <4>3. /\ <<s, e>> \in heard'[m][x] <=> <<s, e>> \in heard[m][x]
            /\ <<s, e>> \in unsaved'[m][x] <=> <<s, e>> \in unsaved[m][x]
        BY <1>1, <1>4, <4>1
      <4> QED BY <2>1, <4>2, <4>3 DEF Agrees
    <3> QED BY <1>4, <3>2, <3>3
  <2> QED BY <1>2, <2>2, <2>3 DEF RunAgrees, Read, Agrees, x
<1>9. PendingIsDue(m)'
  <2> SUFFICES ASSUME NEW s \in Types, NEW e \in Destinations, <<s, e>> \in run'[m].pending
               PROVE  /\ Telling(run'[m].snapshot[s], run'[m].state[s].failures)
                      /\ Untold(run'[m].state[s].delivered[e], run'[m].snapshot[s])
    BY DEF PendingIsDue
  <2>1. <<s, e>> \in run[m].pending /\ <<s, e>> # <<t, d>>
    BY <1>2
  <2>2. /\ Telling(run[m].snapshot[s], run[m].state[s].failures)
        /\ Untold(run[m].state[s].delivered[e], run[m].snapshot[s])
    BY <1>1, <2>1 DEF Consistent, PendingIsDue
  <2>3. /\ run'[m].state[s].failures = run[m].state[s].failures
        /\ run'[m].state[s].delivered[e] = run[m].state[s].delivered[e]
    BY <1>5, <2>1
  <2> QED BY <1>2, <2>2, <2>3
<1> QED BY <1>7, <1>8, <1>9 DEF Consistent

LEMMA StoreConsistent ==
  ASSUME Typed, NEW m \in Monitors, Consistent(m), StoreRow(m)
  PROVE  Consistent(m)'
<1> DEFINE x   == run[m].target
           row == [target |-> x, state |-> run[m].state, due |-> FALSE]
<1>1. /\ RunOK(run[m]) /\ run \in [Monitors -> Run] /\ run[m].step = "deliver" /\ x \in Targets
  BY DEF Typed, TypedRuns, RunOK, StoreRow
<1>2. run'[m] = Idle /\ monitor' = monitor
  BY <1>1 DEF StoreRow, Release
<1>3. Agrees(m, x, run[m].state, Drawn(m, x))
  BY <1>1 DEF Consistent, RunAgrees
<1>4. /\ heard'[m] = Only(x, heard[m][x], {})
      /\ unsaved'[m] = Only(x, unsaved[m][x] \ Known(m), {})
      /\ streak'[m] = Only(x, Drawn(m, x), [t \in Types |-> 0])
  BY DEF StoreRow, Typed, TypedHist
<1>5. CASE monitor[m].target = None
  <2>1. site_check[m] = None /\ site_check' = site_check
    BY <1>5 DEF StoreRow, Consistent, RowAgrees
  <2>2. RowAgrees(m)'
    BY <1>2, <1>5, <2>1 DEF RowAgrees
  <2> QED BY <1>2, <2>2, Ended
<1>6. CASE monitor[m].target # None
  <2>1. site_check'[m] = row /\ row # None
    <3>1. row \in CheckRow
      BY <1>1 DEF CheckRow, RunOK, Run
    <3> QED BY <1>6, <3>1, NoneIsNoRow DEF StoreRow, Typed, TypedRows
  <2>2. ASSUME NEW y \in Targets, NEW t \in Types
        PROVE  /\ Previous(site_check[m], y)'[t].failures = streak'[m][y][t]
               /\ \A d \in Destinations : <<t, d>> \notin unsaved'[m][y] =>
                    (Previous(site_check[m], y)'[t].delivered[d] = "down"
                       <=> <<t, d>> \in heard'[m][y])
    <3>1. CASE y = x
      <4>1. Previous(site_check[m], y)' = run[m].state
        BY <2>1, <3>1 DEF Previous
      <4>2. /\ heard'[m][y] = heard[m][x]
            /\ unsaved'[m][y] = unsaved[m][x] \ Known(m)
            /\ streak'[m][y] = Drawn(m, x)
        BY <1>1, <1>4, <3>1 DEF Only
      <4>3. ASSUME NEW d \in Destinations, <<t, d>> \notin unsaved'[m][y]
            PROVE  run[m].state[t].delivered[d] = "down" <=> <<t, d>> \in heard'[m][y]
        <5>1. CASE <<t, d>> \notin unsaved[m][x]
          BY <1>3, <4>2, <5>1 DEF Agrees
        <5>2. CASE <<t, d>> \in Known(m)
          BY <4>2, <5>2 DEF Known
        <5> QED BY <4>2, <4>3, <5>1, <5>2
      <4>4. run[m].state[t].failures = streak'[m][y][t]
        BY <1>3, <4>2 DEF Agrees
      <4> QED BY <4>1, <4>3, <4>4
    <3>2. CASE y # x
      <4>1. Previous(site_check[m], y)' = Fresh
        BY <2>1, <3>2 DEF Previous
      <4>2. heard'[m][y] = {} /\ streak'[m][y] = [s \in Types |-> 0]
        BY <1>4, <3>2 DEF Only
      <4>3. None # "down"
        BY NoneAssumption DEF Statuses
      <4> QED BY <4>1, <4>2, <4>3 DEF Fresh
    <3> QED BY <3>1, <3>2
  <2>3. RowAgrees(m)'
    BY <1>2, <1>6, <2>2 DEF RowAgrees, Agrees
  <2> QED BY <1>2, <2>3, Ended
<1> QED BY <1>5, <1>6

LEMMA NextConsistent ==
  Typed /\ (\A m \in Monitors : Consistent(m)) /\ [Next]_vars
    => \A m \in Monitors : Consistent(m)'
<1> SUFFICES ASSUME Typed, \A m \in Monitors : Consistent(m), [Next]_vars, NEW k \in Monitors
             PROVE  Consistent(k)'
  OBVIOUS
<1>0. /\ run \in [Monitors -> Run] /\ \A m \in Monitors : RunOK(run[m])
      /\ site_check \in [Monitors -> CheckRow \cup {None}]
      /\ heard \in [Monitors -> [Targets -> SUBSET Pairs]]
      /\ unsaved \in [Monitors -> [Targets -> SUBSET Pairs]]
      /\ streak \in [Monitors -> [Targets -> [Types -> 0..Retries]]]
      /\ monitor \in [Monitors -> [target : Targets \cup {Disabled, None}, active : BOOLEAN]]
  BY DEF Typed, TypedRuns, TypedRows, TypedHist, TypedMonitors
<1>1. ASSUME NEW m \in Monitors, Begin(m) PROVE Consistent(k)'
  <2>1. CASE k = m
    <3>1. run'[m].step = "find"
      BY <1>0, <1>1 DEF Begin, Idle
    <3>2. RowAgrees(m)'
      BY <1>1, SameRow DEF Begin, Consistent
    <3> QED BY <2>1, <3>1, <3>2 DEF Consistent, RunAgrees, PendingIsDue, Read
  <2>2. CASE k # m
    BY <1>1, <2>2, Untouched DEF Begin, About, hist
  <2> QED BY <2>1, <2>2
<1>2. ASSUME NEW m \in Monitors, FindRow(m) PROVE Consistent(k)'
  <2>1. CASE k = m
    <3>1. RowAgrees(m)' /\ UNCHANGED <<monitor, hist>>
      BY <1>2, SameRow DEF FindRow, Consistent
    <3>2. CASE run' = [run EXCEPT ![m] = Idle]
      BY <1>0, <2>1, <3>1, <3>2, Ended
    <3>3. CASE run' = [run EXCEPT ![m].step = "collect", ![m].row = site_check[m]]
      <4>1. run[m].target \in Targets
        BY <1>0, <1>2 DEF RunOK, FindRow
      <4>2. run'[m].step = "collect" /\ run'[m].row = site_check[m]
            /\ run'[m].target = run[m].target
        BY <1>0, <3>3 DEF Run
      <4>3. monitor[m].target # None =>
              Agrees(m, run[m].target, Previous(site_check[m], run[m].target),
                     streak[m][run[m].target])
        BY <4>1 DEF Consistent, RowAgrees
      <4>4. RunAgrees(m)'
        BY <3>1, <4>2, <4>3 DEF RunAgrees, Read, Agrees, hist
      <4>5. PendingIsDue(m)'
        BY <4>2 DEF PendingIsDue
      <4> QED BY <2>1, <3>1, <4>4, <4>5 DEF Consistent
    <3> QED BY <1>2, <3>2, <3>3 DEF FindRow, Release
  <2>2. CASE k # m
    <3>1. run'[k] = run[k] /\ UNCHANGED <<monitor, site_check, hist>>
      BY <1>0, <1>2, <2>2 DEF FindRow, Release
    <3> QED BY <3>1, Untouched DEF About, hist
  <2> QED BY <2>1, <2>2
<1>3. ASSUME NEW m \in Monitors, Collect(m) PROVE Consistent(k)'
  <2>1. CASE k = m
    <3>1. RowAgrees(m)' /\ UNCHANGED <<monitor, hist>>
      BY <1>3, SameRow DEF Collect, Consistent
    <3>2. run[m].step = "collect" /\ run'[m].step = "reread" /\ run'[m].row = run[m].row
          /\ run'[m].target = run[m].target
      BY <1>0, <1>3 DEF Collect, Run
    <3>3. RunAgrees(m)'
      BY <3>1, <3>2 DEF Consistent, RunAgrees, Read, Agrees, hist
    <3>4. PendingIsDue(m)'
      BY <3>2 DEF PendingIsDue
    <3> QED BY <2>1, <3>1, <3>3, <3>4 DEF Consistent
  <2>2. CASE k # m
    <3>1. run'[k] = run[k] /\ UNCHANGED <<monitor, site_check, hist>>
      BY <1>0, <1>3, <2>2 DEF Collect
    <3> QED BY <3>1, Untouched DEF About, hist
  <2> QED BY <2>1, <2>2
<1>4. ASSUME NEW m \in Monitors, Reread(m) PROVE Consistent(k)'
  <2>1. CASE k = m
    <3>1. RowAgrees(m)' /\ UNCHANGED <<monitor, hist>>
      BY <1>4, SameRow DEF Reread, Consistent
    <3>2. CASE run' = [run EXCEPT ![m] = Idle]
      BY <1>0, <2>1, <3>1, <3>2, Ended
    <3>3. CASE run' = [run EXCEPT ![m].step = "prepare"] /\ monitor[m].target = run[m].target
      <4>1. /\ run[m].step = "reread" /\ run'[m].step = "prepare" /\ run'[m].row = run[m].row
            /\ run'[m].target = run[m].target /\ monitor[m].target # None
        BY <1>0, <1>4, <3>3, NoneIsNoRow DEF Reread, Run, RunOK
      <4>2. RunAgrees(m)'
        BY <3>1, <4>1 DEF Consistent, RunAgrees, Read, Agrees, hist
      <4>3. PendingIsDue(m)'
        BY <4>1 DEF PendingIsDue
      <4> QED BY <2>1, <3>1, <4>2, <4>3 DEF Consistent
    <3> QED BY <1>4, <3>2, <3>3 DEF Reread, Release
  <2>2. CASE k # m
    <3>1. run'[k] = run[k] /\ UNCHANGED <<monitor, site_check, hist>>
      BY <1>0, <1>4, <2>2 DEF Reread, Release
    <3> QED BY <3>1, Untouched DEF About, hist
  <2> QED BY <2>1, <2>2
<1>5. ASSUME NEW m \in Monitors, Prepare(m) PROVE Consistent(k)'
  <2>1. CASE k = m
    BY <1>5, <2>1, PrepareConsistent
  <2>2. CASE k # m
    <3>1. run'[k] = run[k] /\ UNCHANGED <<monitor, site_check, hist>>
      BY <1>0, <1>5, <2>2 DEF Prepare
    <3> QED BY <3>1, Untouched DEF About, hist
  <2> QED BY <2>1, <2>2
<1>6. ASSUME NEW m \in Monitors, Send(m) PROVE Consistent(k)'
  <2>1. CASE k = m
    BY <1>6, <2>1, SendConsistent
  <2>2. CASE k # m
    BY <1>0, <1>6, <2>2, Untouched DEF Send, SendOk, SendError, Hears, About, hist
  <2> QED BY <2>1, <2>2
<1>7. ASSUME NEW m \in Monitors, StoreRow(m) PROVE Consistent(k)'
  <2>1. CASE k = m
    BY <1>7, <2>1, StoreConsistent
  <2>2. CASE k # m
    BY <1>0, <1>7, <2>2, Untouched DEF StoreRow, Release, About
  <2> QED BY <2>1, <2>2
<1>8. ASSUME NEW m \in Monitors, Elapse(m) PROVE Consistent(k)'
  <2>1. CASE k = m
    <3>1. /\ site_check[m] \in CheckRow /\ site_check[m] # None
          /\ site_check' = [site_check EXCEPT ![m] = [site_check[m] EXCEPT !.due = TRUE]]
          /\ UNCHANGED <<monitor, run, heard, unsaved, streak>>
      BY <1>0, <1>8 DEF Elapse, hist
    <3>2. /\ site_check'[m] # None /\ site_check'[m].target = site_check[m].target
          /\ site_check'[m].state = site_check[m].state
      BY <1>0, <3>1, NoneIsNoRow DEF CheckRow
    <3>3. monitor[m].target # None
      BY <3>1 DEF Consistent, RowAgrees
    <3>4. RowAgrees(m)'
      <4>1. ASSUME NEW x \in Targets
            PROVE  /\ Agrees(m, x, Previous(site_check[m], x), streak[m][x])
                   /\ Previous(site_check[m], x)' = Previous(site_check[m], x)
        BY <3>1, <3>2, <3>3 DEF Consistent, RowAgrees, Previous
      <4>2. ASSUME NEW x \in Targets, NEW t \in Types
            PROVE  /\ Previous(site_check[m], x)'[t].failures = streak'[m][x][t]
                   /\ \A d \in Destinations : <<t, d>> \notin unsaved'[m][x] =>
                        (Previous(site_check[m], x)'[t].delivered[d] = "down"
                           <=> <<t, d>> \in heard'[m][x])
        <5> DEFINE old == Previous(site_check[m], x)
        <5>1. /\ old[t].failures = streak[m][x][t]
              /\ \A d \in Destinations : <<t, d>> \notin unsaved[m][x] =>
                   (old[t].delivered[d] = "down" <=> <<t, d>> \in heard[m][x])
          BY <4>1 DEF Agrees
        <5>2. old' = old
          BY <4>1
        <5> HIDE DEF old
        <5>3. /\ old'[t].failures = streak'[m][x][t]
              /\ \A d \in Destinations : <<t, d>> \notin unsaved'[m][x] =>
                   (old'[t].delivered[d] = "down" <=> <<t, d>> \in heard'[m][x])
          BY <3>1, <5>1, <5>2
        <5> QED BY <5>3 DEF old
      <4> QED BY <3>1, <3>3, <4>2 DEF RowAgrees, Agrees
    <3>5. RunAgrees(m)' /\ PendingIsDue(m)'
      BY <3>1 DEF Consistent, RunAgrees, Read, PendingIsDue, Agrees, Drawn
    <3> QED BY <2>1, <3>4, <3>5 DEF Consistent
  <2>2. CASE k # m
    BY <1>8, <2>2, Untouched DEF Elapse, About, hist
  <2> QED BY <2>1, <2>2
<1>9. ASSUME NEW m \in Monitors, NEW row \in Rows, Edit(m, row) PROVE Consistent(k)'
  <2>1. CASE k = m
    <3>1. /\ monitor[m].target # None /\ monitor'[m].target = row.target
          /\ UNCHANGED <<run, heard, unsaved, streak>>
          /\ site_check'[m] = IF row.target = None THEN None ELSE site_check[m]
      BY <1>0, <1>9 DEF Edit, hist
    <3>2. RowAgrees(m)'
      BY <3>1 DEF Consistent, RowAgrees, Agrees
    <3>3. RunAgrees(m)' /\ PendingIsDue(m)'
      BY <3>1 DEF Consistent, RunAgrees, Read, PendingIsDue, Agrees, Drawn
    <3> QED BY <2>1, <3>2, <3>3 DEF Consistent
  <2>2. CASE k # m
    BY <1>0, <1>9, <2>2, Untouched DEF Edit, About, hist
  <2> QED BY <2>1, <2>2
<1>10. ASSUME NEW m \in Monitors, Restart(m) PROVE Consistent(k)'
  BY <1>10, Untouched DEF Restart, About, hist
<1>11. CASE Crash
  <2>1. RowAgrees(k)' /\ run'[k] = Idle
    BY <1>11, SameRow DEF Crash, Consistent
  <2> QED BY <2>1, Ended
<1>12. CASE Subscribe \/ Environment \/ UNCHANGED vars
  BY <1>12, Untouched DEF Subscribe, Environment, vars, About, hist
<1> QED BY <1>1, <1>2, <1>3, <1>4, <1>5, <1>6, <1>7, <1>8, <1>9, <1>10, <1>11, <1>12
        DEF Next, Work

-------------------------------------------------------------------------------
(* The theorems                                                                *)

LEMMA Inductive == Spec => []IInv
<1>1. Init => IInv
  BY InitTyped, InitSlots, InitConsistent DEF IInv
<1>2. IInv /\ [Next]_vars => IInv'
  <2> SUFFICES ASSUME IInv, [Next]_vars PROVE IInv'
    OBVIOUS
  <2>1. Typed' /\ Slots'
    BY NextTyped, NextSlots DEF IInv
  <2>2. \A m \in Monitors : Consistent(m)'
    BY NextConsistent DEF IInv
  <2> QED BY <2>1, <2>2 DEF IInv
<1> QED BY <1>1, <1>2, PTL DEF Spec

\* Every state has its types, no type is counted beyond the threshold, and no more runs are in
\* progress than MAX_RUNNING: the finally block of runSiteChecks frees every slot once.
THEOREM TypeCorrect == Spec => []TypeOK
<1>1. IInv => TypeOK
  <2> SUFFICES ASSUME IInv PROVE TypeOK
    OBVIOUS
  <2>1. \A m \in Monitors :
       /\ site_check[m] # None => /\ site_check[m].target \in Targets
                                  /\ site_check[m].state \in State
                                  /\ \A t \in Types : site_check[m].state[t].failures <= Retries
                                  /\ site_check[m].due \in BOOLEAN
       /\ run[m].step \in Steps
       /\ run[m].step # "idle" => run[m].target \in Targets
       /\ run[m].state \in State
       /\ run[m].pending \subseteq Pairs
       /\ run[m].step \in {"reread", "prepare"} \/ run[m].pending # {}
            => run[m].snapshot \in [Types -> Statuses]
    BY DEF IInv, Typed, TypedRuns, TypedRows, RunOK, RowOK, Run, CheckRow, Bounded
  <2> QED BY <2>1 DEF TypeOK, IInv, Typed, TypedMonitors, TypedEnv, TypedHist, Slots, running
<1> QED BY <1>1, Inductive, PTL

\* What a run is about to deliver, and what the destination was told before.
LEMMA AboutToTell ==
  ASSUME IInv, NEW m \in Monitors, NEW t \in Types, NEW d \in Destinations,
         run[m].step = "deliver", <<t, d>> \in run[m].pending
  PROVE  /\ run[m].target \in Targets
         /\ run[m].snapshot \in [Types -> Statuses]
         /\ run[m].state[t].delivered[d] \in {None, "up", "down"}
         /\ run[m].state[t].failures \in 0..Retries
         /\ Agrees(m, run[m].target, run[m].state, Drawn(m, run[m].target))
         /\ Telling(run[m].snapshot[t], run[m].state[t].failures)
         /\ Untold(run[m].state[t].delivered[d], run[m].snapshot[t])
<1>1. RunOK(run[m]) /\ Consistent(m)
  BY DEF IInv, Typed, TypedRuns
<1>2. run[m].state \in State /\ Bounded(run[m].state)
  BY <1>1 DEF RunOK, Run
<1>3. /\ run[m].state[t].delivered[d] \in {None, "up", "down"}
      /\ run[m].state[t].failures \in 0..Retries
  <2>1. run[m].state[t] \in [failures : Nat, delivered : [Destinations -> {None, "up", "down"}]]
    BY <1>2 DEF State
  <2>2. run[m].state[t].failures <= Retries
    BY <1>2 DEF Bounded
  <2> QED BY <2>1, <2>2, SiteAssumption
<1>4. run[m].target \in Targets /\ run[m].snapshot \in [Types -> Statuses]
  BY <1>1 DEF RunOK
<1> QED BY <1>1, <1>3, <1>4 DEF Consistent, RunAgrees, PendingIsDue

\* notifyTransitions tells a destination a failure it has not heard of and the recovery from one
\* it has heard of, whatever is edited, lost or crashes; it hears a thing twice only when no
\* stored row knew of the first time.
THEOREM AlertsTakeTurns == Spec => AlertsAlternate
<1>1. ASSUME IInv, NEW m \in Monitors, NEW t \in Types, NEW d \in Destinations,
             Delivered(m, t, d), <<t, d>> \notin unsaved[m][run[m].target]
      PROVE  IF run[m].snapshot[t] = "down" THEN ~HeardDown(m, t, d) ELSE HeardDown(m, t, d)
  <2>1. run[m].step = "deliver" /\ <<t, d>> \in run[m].pending
    BY <1>1 DEF Delivered, Attempt
  <2>2. /\ Telling(run[m].snapshot[t], run[m].state[t].failures)
        /\ Untold(run[m].state[t].delivered[d], run[m].snapshot[t])
        /\ run[m].state[t].delivered[d] \in {None, "up", "down"}
        /\ Agrees(m, run[m].target, run[m].state, Drawn(m, run[m].target))
    BY <1>1, <2>1, AboutToTell
  <2>3. run[m].state[t].delivered[d] = "down" <=> HeardDown(m, t, d)
    BY <1>1, <2>2 DEF Agrees, HeardDown
  <2> QED BY <2>2, <2>3 DEF Telling, Untold
<1>2. IInv /\ [Next]_vars => [\A m \in Monitors, t \in Types, d \in Destinations :
  Delivered(m, t, d) /\ <<t, d>> \notin unsaved[m][run[m].target] =>
    IF run[m].snapshot[t] = "down" THEN ~HeardDown(m, t, d) ELSE HeardDown(m, t, d)]_vars
  BY <1>1
<1> QED BY <1>2, Inductive, PTL DEF Spec, AlertsAlternate

\* notifyTransitions tells a failure only when the type has failed config.retries times in a row,
\* now and in the runs that were stored before, across restarts, maintenances and edits.
THEOREM FailuresReachTheThreshold == Spec => ThresholdKept
<1>1. ASSUME IInv, NEW m \in Monitors, NEW t \in Types, NEW d \in Destinations,
             Delivered(m, t, d), run[m].snapshot[t] = "down"
      PROVE  Failures(streak[m][run[m].target][t], "down") = Retries
  <2>1. run[m].step = "deliver" /\ <<t, d>> \in run[m].pending
    BY <1>1 DEF Delivered, Attempt
  <2>2. /\ Telling(run[m].snapshot[t], run[m].state[t].failures)
        /\ run[m].state[t].failures \in 0..Retries
        /\ run[m].snapshot \in [Types -> Statuses]
        /\ Agrees(m, run[m].target, run[m].state, Drawn(m, run[m].target))
    BY <1>1, <2>1, AboutToTell
  <2>3. run[m].state[t].failures = Failures(streak[m][run[m].target][t], "down")
    BY <1>1, <2>2, NoneIsNoRow DEF Agrees, Drawn
  <2>4. run[m].state[t].failures >= Retries
    BY <1>1, <2>2 DEF Telling
  <2> QED BY <2>2, <2>3, <2>4, SiteAssumption
<1>2. IInv /\ [Next]_vars => [\A m \in Monitors, t \in Types, d \in Destinations :
  Delivered(m, t, d) /\ run[m].snapshot[t] = "down"
    => Failures(streak[m][run[m].target][t], "down") = Retries]_vars
  BY <1>1
<1> QED BY <1>2, Inductive, PTL DEF Spec, ThresholdKept

-------------------------------------------------------------------------------
(***************************************************************************)
(* SettingsCache, the cache of settings: what it may hold, for any settings,  *)
(* values, reads and writes that overlap and failures of the database.        *)
(***************************************************************************)

CONSTANTS
  Keys, ValueOf, LegacyOf, TypeOf,   \* settings, their values and the types they are set with
  Readers, Writers,                  \* calls in progress at once
  SlowQuery, DbFails,                \* a query outlasts the cleaner's interval, or fails
  MaxWrites, Null

VARIABLES
  setting,                  \* the table
  cacheList, cacheCleaner,  \* what is cached, and the interval that cleans it
  get, write, writes,       \* the calls in progress, and how many writes there were
  shortfall                 \* history: cached keys of a write that rejected

Settings == INSTANCE SettingsCache

-------------------------------------------------------------------------------
(* Types.                                                                      *)

LEMMA DataTypes ==
  /\ \A k \in Keys : \A v \in ValueOf[k] : [x \in {k} |-> v] \in Settings!Data
  /\ \A d \in Settings!Data : /\ DOMAIN d \subseteq Keys /\ DOMAIN d # {}
                              /\ \A k \in DOMAIN d : d[k] \in ValueOf[k] /\ d[k] \in Settings!Values
<1>1. ASSUME NEW k \in Keys, NEW v \in ValueOf[k] PROVE [x \in {k} |-> v] \in Settings!Data
  <2>1. v \in Settings!Values
    BY <1>1 DEF Settings!Values
  <2>2. [x \in {k} |-> v] \in {d \in [{k} -> Settings!Values] : \A x \in {k} : d[x] \in ValueOf[x]}
    BY <1>1, <2>1
  <2>3. {k} \in (SUBSET Keys) \ {{}}
    OBVIOUS
  <2>4. QED
    BY <2>2, <2>3 DEF Settings!Data
<1>2. ASSUME NEW d \in Settings!Data
      PROVE  /\ DOMAIN d \subseteq Keys /\ DOMAIN d # {}
             /\ \A k \in DOMAIN d : d[k] \in ValueOf[k] /\ d[k] \in Settings!Values
  <2>1. PICK K \in (SUBSET Keys) \ {{}} : d \in [K -> Settings!Values] /\ \A k \in K : d[k] \in ValueOf[k]
    BY DEF Settings!Data
  <2>2. DOMAIN d = K /\ K \subseteq Keys /\ K # {}
    BY <2>1
  <2>3. \A k \in K : d[k] \in ValueOf[k] /\ d[k] \in Settings!Values
    BY <2>1
  <2>4. QED
    BY <2>2, <2>3, Zenon
<1>3. QED
  BY <1>1, <1>2

LEMMA TypeInit == ASSUME Settings!SettingsAssumption PROVE Settings!Init => Settings!TypeOK
<1> SUFFICES ASSUME Settings!Init PROVE Settings!TypeOK
  OBVIOUS
<1>1. setting \in [Keys -> Settings!Rows]
  BY DEF Settings!Init
<1>2. /\ Settings!IdleGet \in [step : {"idle", "query", "answer"}, key : Keys \cup {Null},
                               value : Settings!Values \cup {Null}, late : BOOLEAN]
      /\ Settings!IdleGet.step = "idle"
  BY DEF Settings!IdleGet
<1>3. /\ Settings!IdleWrite \in [step : {"idle", "find", "store"}, data : Settings!Data \cup {<<>>}, type : Settings!Types,
                                 typed : BOOLEAN, toFind : SUBSET Keys, toStore : SUBSET Settings!Stores,
                                 failed : BOOLEAN]
      /\ Settings!IdleWrite.step = "idle" /\ Settings!IdleWrite.toFind = {}
  BY DEF Settings!IdleWrite, Settings!Types
<1>4. DOMAIN cacheList = {} /\ cacheCleaner = Null /\ writes \in 0..MaxWrites /\ shortfall = {}
  BY DEF Settings!Init, Settings!SettingsAssumption
<1>5. /\ get \in [Readers -> [step : {"idle", "query", "answer"}, key : Keys \cup {Null},
                              value : Settings!Values \cup {Null}, late : BOOLEAN]]
      /\ \A r \in Readers : get[r].step = "idle"
  BY <1>2 DEF Settings!Init
<1>6. /\ write \in [Writers -> [step : {"idle", "find", "store"}, data : Settings!Data \cup {<<>>}, type : Settings!Types,
                                typed : BOOLEAN, toFind : SUBSET Keys, toStore : SUBSET Settings!Stores,
                                failed : BOOLEAN]]
      /\ \A w \in Writers : write[w] = Settings!IdleWrite
  BY <1>3 DEF Settings!Init
<1>7. QED
  BY <1>1, <1>3, <1>4, <1>5, <1>6 DEF Settings!TypeOK

\* The cache, the cleaner and the readers on the one hand, the writers on the other: a step
\* changes one of them and perhaps the table.
CacheTypes ==
  /\ DOMAIN cacheList \subseteq Keys
  /\ \A k \in DOMAIN cacheList : cacheList[k] \in Settings!Entries
  /\ cacheCleaner \in Readers \cup {Null, Settings!Detached}
  /\ get \in [Readers -> [step : {"idle", "query", "answer"}, key : Keys \cup {Null},
                          value : Settings!Values \cup {Null}, late : BOOLEAN]]
  /\ \A r \in Readers : get[r].step # "idle" => get[r].key \in Keys
  /\ shortfall \subseteq Keys

WriteTypes ==
  /\ setting \in [Keys -> Settings!Rows]
  /\ write \in [Writers -> [step : {"idle", "find", "store", "rejected"}, data : Settings!Data \cup {<<>>}, type : Settings!Types,
                            typed : BOOLEAN, toFind : SUBSET Keys, toStore : SUBSET Settings!Stores,
                            failed : BOOLEAN]]
  /\ \A w \in Writers : /\ write[w].step = "find" <=> write[w].toFind # {}
                        /\ write[w].step = "idle" => write[w] = Settings!IdleWrite
  /\ writes \in 0..MaxWrites

LEMMA TwoTypes == Settings!TypeOK <=> CacheTypes /\ WriteTypes
BY DEF Settings!TypeOK, CacheTypes, WriteTypes

\* A store is of a key that was looked for, and the only one of this key.
WritesFind == \A w \in Writers : write[w].toFind \subseteq DOMAIN write[w].data
StoresFound ==
  \A w \in Writers : \A s \in write[w].toStore :
    /\ s.key \in DOMAIN write[w].data \ write[w].toFind
    /\ \A t \in write[w].toStore : t.key = s.key => t = s

WriteInv == Settings!TypeOK /\ WritesFind /\ StoresFound

LEMMA CacheStep ==
  ASSUME Settings!SettingsAssumption PROVE WriteInv /\ [Settings!Next]_Settings!vars => CacheTypes'
<1> SUFFICES ASSUME Settings!TypeOK, WritesFind, StoresFound, [Settings!Next]_Settings!vars PROVE CacheTypes'
  BY DEF WriteInv
<1>0. CacheTypes /\ WriteTypes
  BY TwoTypes
<1>c. \A r \in Readers, c \in Readers \cup {Null, Settings!Detached} :
        (IF cacheCleaner = Null THEN r ELSE cacheCleaner) \in Readers \cup {Null, Settings!Detached}
  BY <1>0 DEF CacheTypes
<1>1. ASSUME NEW r \in Readers, NEW k \in Keys, Settings!GetHit(r, k) PROVE CacheTypes'
  <2>1. /\ DOMAIN cacheList' = DOMAIN cacheList
        /\ \A x \in DOMAIN cacheList : cacheList'[x] = cacheList[x]
        /\ UNCHANGED <<get, shortfall>>
    BY <1>1 DEF Settings!GetHit, Settings!Hit
  <2>2. QED
    BY <1>0, <1>1, <1>c, <2>1 DEF CacheTypes, Settings!GetHit, Settings!StartCleaner
<1>2. ASSUME NEW r \in Readers, NEW k \in Keys, Settings!GetMiss(r, k) PROVE CacheTypes'
  BY <1>0, <1>2, <1>c DEF CacheTypes, Settings!GetMiss, Settings!StartCleaner
<1>3. ASSUME NEW r \in Readers, Settings!Query(r) PROVE CacheTypes'
  <2>1. get[r].key \in Keys /\ setting[get[r].key].value \in Settings!Values \cup {Null}
    BY <1>0, <1>3 DEF CacheTypes, WriteTypes, Settings!Query, Settings!Rows
  <2>2. QED
    BY <1>0, <1>3, <2>1 DEF CacheTypes, Settings!Query
<1>4. ASSUME NEW r \in Readers, Settings!Return(r)
      PROVE  /\ get' \in [Readers -> [step : {"idle", "query", "answer"}, key : Keys \cup {Null},
                                      value : Settings!Values \cup {Null}, late : BOOLEAN]]
             /\ \A x \in Readers : get'[x].step # "idle" => get'[x].key \in Keys
             /\ cacheCleaner' \in Readers \cup {Null, Settings!Detached}
  <2>1. /\ Settings!IdleGet \in [step : {"idle", "query", "answer"}, key : Keys \cup {Null},
                                 value : Settings!Values \cup {Null}, late : BOOLEAN]
        /\ Settings!IdleGet.step = "idle"
    BY DEF Settings!IdleGet
  <2>2. QED
    BY <1>0, <1>4, <2>1 DEF CacheTypes, Settings!Return
<1>5. ASSUME NEW r \in Readers, Settings!QueryError(r) PROVE CacheTypes'
  BY <1>0, <1>4, <1>5 DEF CacheTypes, Settings!QueryError
<1>6. ASSUME NEW r \in Readers, Settings!Answer(r) PROVE CacheTypes'
  <2> DEFINE e == [value |-> get[r].value, ticks |-> 0, late |-> get[r].late]
  <2>1. get[r].key \in Keys /\ e \in Settings!Entries
    BY <1>0, <1>6 DEF CacheTypes, Settings!Answer, Settings!Entries
  <2> HIDE DEF e
  <2>2. cacheList' = cacheList \/ cacheList' = Settings!With(cacheList, get[r].key, e)
    BY <1>6 DEF Settings!Answer, e
  <2>3. DOMAIN cacheList' \subseteq Keys /\ \A k \in DOMAIN cacheList' : cacheList'[k] \in Settings!Entries
    BY <1>0, <2>1, <2>2 DEF CacheTypes, Settings!With
  <2>4. QED
    BY <1>0, <1>4, <1>6, <2>3 DEF CacheTypes, Settings!Answer
<1>7. CASE Settings!Clean
  <2>1. PICK dead \in SUBSET DOMAIN cacheList :
          /\ cacheList' = [k \in DOMAIN cacheList \ dead |-> [cacheList[k] EXCEPT !.ticks = 1]]
          /\ shortfall' = shortfall \ dead
    BY <1>7 DEF Settings!Clean
  <2>2. /\ DOMAIN cacheList' \subseteq Keys /\ shortfall' \subseteq Keys
        /\ \A k \in DOMAIN cacheList' : cacheList'[k] \in Settings!Entries
    BY <1>0, <2>1 DEF CacheTypes, Settings!Entries
  <2>3. /\ get' \in [Readers -> [step : {"idle", "query", "answer"}, key : Keys \cup {Null},
                                 value : Settings!Values \cup {Null}, late : BOOLEAN]]
        /\ \A r \in Readers : get'[r].step # "idle" => get'[r].key \in Keys
    <3>1. CASE get' = get
      BY <1>0, <3>1 DEF CacheTypes
    <3>2. ASSUME NEW k \in DOMAIN cacheList,
                 get' = [r \in Readers |-> IF get[r].step # "idle" /\ Settings!Captures(r, k)
                                           THEN [get[r] EXCEPT !.key = k] ELSE get[r]]
          PROVE  /\ get' \in [Readers -> [step : {"idle", "query", "answer"}, key : Keys \cup {Null},
                                          value : Settings!Values \cup {Null}, late : BOOLEAN]]
                 /\ \A r \in Readers : get'[r].step # "idle" => get'[r].key \in Keys
      <4>1. k \in Keys
        BY <1>0 DEF CacheTypes
      <4>2. QED
        BY <1>0, <3>2, <4>1 DEF CacheTypes
    <3>3. QED
      BY <1>7, <3>1, <3>2 DEF Settings!Clean
  <2>4. QED
    BY <1>0, <1>7, <2>2, <2>3 DEF CacheTypes, Settings!Clean
<1>8. ASSUME UNCHANGED <<cacheList, cacheCleaner, get, shortfall>> PROVE CacheTypes'
  BY <1>0, <1>8 DEF CacheTypes
<1>9. ASSUME NEW w \in Writers,
             \/ \E k \in Keys : (\E v \in ValueOf[k] : Settings!Set(w, k, v)) \/ Settings!Find(w, k)
             \/ \E d \in Settings!Data : Settings!SetSettings(w, d)
             \/ \E s \in Settings!Stores : Settings!StoreError(w, s)
      PROVE  CacheTypes'
  BY <1>8, <1>9 DEF Settings!Set, Settings!SetSettings, Settings!Call, Settings!Find, Settings!StoreError
<1>10. ASSUME NEW w \in Writers, NEW s \in Settings!Stores, Settings!Store(w, s) PROVE CacheTypes'
  <2>1. /\ get' = Settings!MarkLate(s.key) /\ UNCHANGED <<cacheList, cacheCleaner>>
        /\ shortfall' \subseteq shortfall \cup DOMAIN cacheList
    BY <1>10 DEF Settings!Store
  <2>2. ASSUME NEW r \in Readers
        PROVE  /\ get'[r] = get[r] \/ get'[r] = [get[r] EXCEPT !.late = TRUE]
               /\ get'[r] \in [step : {"idle", "query", "answer"}, key : Keys \cup {Null},
                               value : Settings!Values \cup {Null}, late : BOOLEAN]
               /\ get'[r].step # "idle" => get'[r].key \in Keys
    <3>1. get'[r] = get[r] \/ get'[r] = [get[r] EXCEPT !.late = TRUE]
      BY <2>1 DEF Settings!MarkLate
    <3>2. /\ get[r] \in [step : {"idle", "query", "answer"}, key : Keys \cup {Null},
                         value : Settings!Values \cup {Null}, late : BOOLEAN]
          /\ get[r].step # "idle" => get[r].key \in Keys
      BY <1>0 DEF CacheTypes
    <3>3. QED
      BY <3>1, <3>2
  <2>3. get' \in [Readers -> [step : {"idle", "query", "answer"}, key : Keys \cup {Null},
                              value : Settings!Values \cup {Null}, late : BOOLEAN]]
    <3>1. get' = [r \in Readers |-> get'[r]]
      BY <2>1 DEF Settings!MarkLate
    <3>2. QED
      BY <2>2, <3>1
  <2>4. UNCHANGED <<cacheList, cacheCleaner>> /\ shortfall' \subseteq Keys
    BY <1>0, <2>1 DEF CacheTypes
  <2>5. QED
    BY <1>0, <2>2, <2>3, <2>4 DEF CacheTypes
<1>11. ASSUME NEW w \in Writers, Settings!FindError(w) \/ Settings!Reject(w) \/ Settings!DeleteCache(w) PROVE CacheTypes'
  <2>1. /\ cacheList' = cacheList \/ cacheList' = Settings!Without(cacheList, DOMAIN write[w].data)
        /\ UNCHANGED <<cacheCleaner, get>>
        /\ shortfall' \subseteq shortfall \cup DOMAIN cacheList
    BY <1>11 DEF Settings!FindError, Settings!Reject, Settings!Rejects, Settings!DeleteCache
  <2>2. QED
    BY <1>0, <2>1 DEF CacheTypes, Settings!Without
<1>12. CASE UNCHANGED Settings!vars
  BY <1>8, <1>12 DEF Settings!vars
<1>13. QED
  BY <1>1, <1>2, <1>3, <1>5, <1>6, <1>7, <1>9, <1>10, <1>11, <1>12 DEF Settings!Next

LEMMA WriteStep ==
  ASSUME Settings!SettingsAssumption PROVE WriteInv /\ [Settings!Next]_Settings!vars => WriteTypes' /\ WritesFind' /\ StoresFound'
<1> SUFFICES ASSUME Settings!TypeOK, WritesFind, StoresFound, [Settings!Next]_Settings!vars
             PROVE  WriteTypes' /\ WritesFind' /\ StoresFound'
  BY DEF WriteInv
<1> DEFINE W == [step : {"idle", "find", "store", "rejected"}, data : Settings!Data \cup {<<>>}, type : Settings!Types,
                 typed : BOOLEAN, toFind : SUBSET Keys, toStore : SUBSET Settings!Stores, failed : BOOLEAN]
           Sound(x) == /\ x \in W
                       /\ x.step = "find" <=> x.toFind # {}
                       /\ x.step = "idle" => x = Settings!IdleWrite
                       /\ x.toFind \subseteq DOMAIN x.data
                       /\ \A s \in x.toStore :
                            /\ s.key \in DOMAIN x.data \ x.toFind
                            /\ \A t \in x.toStore : t.key = s.key => t = s
<1>0. /\ WriteTypes /\ \A w \in Writers : Sound(write[w])
      /\ write \in [Writers -> W]
  BY TwoTypes DEF WriteTypes, WritesFind, StoresFound
<1>i. Sound(Settings!IdleWrite)
  <2>1. DOMAIN Settings!IdleWrite.data = {} /\ Settings!IdleWrite.toFind = {} /\ Settings!IdleWrite.toStore = {} /\ Settings!IdleWrite.step = "idle"
    BY DEF Settings!IdleWrite
  <2>2. Settings!IdleWrite \in W
    BY DEF Settings!IdleWrite, Settings!Types
  <2>3. QED
    BY <2>1, <2>2
<1>w. ASSUME NEW w \in Writers, NEW x, Sound(x), write' = [write EXCEPT ![w] = x],
             setting' \in [Keys -> Settings!Rows], writes' \in 0..MaxWrites
      PROVE  WriteTypes' /\ WritesFind' /\ StoresFound'
  <2>1. write' \in [Writers -> W] /\ \A v \in Writers : Sound(write'[v])
    BY <1>0, <1>w
  <2>2. QED
    BY <1>w, <2>1 DEF WriteTypes, WritesFind, StoresFound
<1>u. ASSUME UNCHANGED <<setting, write, writes>> PROVE WriteTypes' /\ WritesFind' /\ StoresFound'
  BY <1>0, <1>u DEF WriteTypes, WritesFind, StoresFound
<1>1. ASSUME NEW w \in Writers, NEW d \in Settings!Data, NEW typed \in BOOLEAN, NEW type \in Settings!Types,
             Settings!Call(w, d, typed, type)
      PROVE  WriteTypes' /\ WritesFind' /\ StoresFound'
  <2> DEFINE x == [Settings!IdleWrite EXCEPT !.step = "find", !.data = d, !.type = type, !.typed = typed,
                                             !.toFind = DOMAIN d]
  <2>1. write' = [write EXCEPT ![w] = x] /\ setting' = setting /\ writes' \in 0..MaxWrites
    BY <1>0, <1>1 DEF Settings!Call, WriteTypes, Settings!SettingsAssumption
  <2>2. x.step = "find" /\ x.toFind = DOMAIN d /\ x.data = d /\ x.toStore = {} /\ x \in W
    BY DataTypes DEF Settings!IdleWrite
  <2> HIDE DEF x
  <2>3. Sound(x)
    BY <2>2, DataTypes
  <2>4. QED
    BY <1>0, <1>w, <2>1, <2>3 DEF WriteTypes
<1>2. ASSUME NEW w \in Writers, NEW k \in Keys, NEW v \in ValueOf[k], Settings!Set(w, k, v)
      PROVE  WriteTypes' /\ WritesFind' /\ StoresFound'
  <2>1. TypeOf[k] \in Settings!Types
    BY DEF Settings!Types, Settings!General, Settings!SettingsAssumption
  <2>2. QED
    BY <1>1, <1>2, <2>1, DataTypes DEF Settings!Set
<1>3. ASSUME NEW w \in Writers, NEW d \in Settings!Data, Settings!SetSettings(w, d)
      PROVE  WriteTypes' /\ WritesFind' /\ StoresFound'
  BY <1>1, <1>3 DEF Settings!SetSettings, Settings!Types
<1>4. ASSUME NEW w \in Writers, NEW k \in Keys, Settings!Find(w, k)
      PROVE  WriteTypes' /\ WritesFind' /\ StoresFound'
  <2> DEFINE q == write[w]
             e == [key |-> k, insert |-> ~setting[k].row]
             S == IF Settings!Guarded(setting[k], w) THEN q.toStore ELSE q.toStore \cup {e}
             x == [q EXCEPT !.toFind = @ \ {k}, !.toStore = S,
                            !.step = IF q.toFind = {k} THEN "store" ELSE "find"]
  <2>1. k \in q.toFind /\ Sound(q) /\ UNCHANGED <<setting, writes>>
    BY <1>0, <1>4 DEF Settings!Find
  <2>2. write' = [write EXCEPT ![w] = x]
    BY <1>0, <1>4 DEF Settings!Find
  <2>3. e \in Settings!Stores /\ e.key = k
    BY <1>0 DEF Settings!Stores, WriteTypes, Settings!Rows
  <2>4. S \subseteq Settings!Stores /\ S \subseteq q.toStore \cup {e}
    BY <2>1, <2>3
  <2> HIDE DEF e, S
  <2>5. /\ x \in W /\ x.toFind = q.toFind \ {k} /\ x.toStore = S /\ x.data = q.data
        /\ x.step = IF q.toFind = {k} THEN "store" ELSE "find"
    BY <2>1, <2>4
  <2> HIDE DEF x, q
  <2>6. \A s \in S : /\ s.key \in DOMAIN x.data \ x.toFind
                     /\ \A t \in S : t.key = s.key => t = s
    BY <2>1, <2>3, <2>4, <2>5
  <2>7. Sound(x)
    BY <2>1, <2>5, <2>6
  <2>8. QED
    BY <1>0, <1>w, <2>1, <2>2, <2>7 DEF WriteTypes
<1>5. ASSUME NEW w \in Writers, NEW s \in Settings!Stores, Settings!Store(w, s) \/ Settings!StoreError(w, s)
      PROVE  WriteTypes' /\ WritesFind' /\ StoresFound'
  <2> DEFINE q == write[w]
             x == [q EXCEPT !.toStore = @ \ {s}]
             y == [q EXCEPT !.toStore = @ \ {s}, !.failed = TRUE]
  <2>1. Sound(q) /\ q.step # "idle" /\ s \in q.toStore
    BY <1>0, <1>5 DEF Settings!Store, Settings!StoreError
  <2>2. \/ write' = [write EXCEPT ![w] = x]
        \/ write' = [write EXCEPT ![w] = y]
        \/ write' = [write EXCEPT ![w] = Settings!IdleWrite]
    BY <1>0, <1>5 DEF Settings!Store, Settings!StoreError, Settings!Left
  <2>3. /\ x \in W /\ x.toStore = q.toStore \ {s} /\ x.toFind = q.toFind /\ x.data = q.data /\ x.step = q.step
        /\ y \in W /\ y.toStore = q.toStore \ {s} /\ y.toFind = q.toFind /\ y.data = q.data /\ y.step = q.step
    BY <2>1
  <2>4. writes' = writes /\ setting' \in [Keys -> Settings!Rows]
    <3>1. q.type \in Settings!Types /\ s.key \in DOMAIN q.data /\ s.key \in Keys
      BY <2>1 DEF Settings!Stores
    <3>2. q.data[s.key] \in Settings!Values
      <4>1. q.data \in Settings!Data
        BY <2>1, <3>1
      <4>2. QED
        BY <3>1, <4>1, DataTypes
    <3>3. [row |-> TRUE, value |-> q.data[s.key],
           type |-> IF q.typed /\ ~s.insert THEN setting[s.key].type ELSE q.type] \in Settings!Rows
      BY <1>0, <3>1, <3>2 DEF WriteTypes, Settings!Rows
    <3>4. QED
      BY <1>0, <1>5, <3>3 DEF Settings!Store, Settings!StoreError, WriteTypes
  <2> HIDE DEF x, y, q
  <2>5. Sound(x) /\ Sound(y)
    BY <2>1, <2>3
  <2>6. QED
    BY <1>0, <1>i, <1>w, <2>2, <2>4, <2>5 DEF WriteTypes
<1>6. ASSUME NEW w \in Writers, Settings!FindError(w) \/ Settings!Reject(w) \/ Settings!DeleteCache(w)
      PROVE  WriteTypes' /\ WritesFind' /\ StoresFound'
  <2> DEFINE q == write[w]
             x == [q EXCEPT !.step = "rejected", !.toFind = {}]
  <2>1. /\ UNCHANGED <<setting, writes>>
        /\ \/ write' = [write EXCEPT ![w] = Settings!IdleWrite]
           \/ write' = [write EXCEPT ![w] = x]
    BY <1>6 DEF Settings!FindError, Settings!Reject, Settings!Rejects, Settings!Left, Settings!DeleteCache
  <2>2. Sound(q)
    BY <1>0
  <2>3. /\ x \in W /\ x.toStore = q.toStore /\ x.toFind = {} /\ x.data = q.data
        /\ x.step = "rejected"
    BY <2>2
  <2> HIDE DEF x, q
  <2>4. Sound(x)
    BY <2>2, <2>3
  <2>5. QED
    BY <1>0, <1>i, <1>w, <2>1, <2>4 DEF WriteTypes
<1>7. ASSUME NEW r \in Readers, \/ \E k \in Keys : Settings!GetHit(r, k) \/ Settings!GetMiss(r, k)
                                \/ Settings!Query(r) \/ Settings!QueryError(r) \/ Settings!Answer(r)
      PROVE  WriteTypes' /\ WritesFind' /\ StoresFound'
  BY <1>7, <1>u DEF Settings!GetHit, Settings!GetMiss, Settings!Query, Settings!QueryError, Settings!Answer
<1>8. CASE Settings!Clean \/ UNCHANGED Settings!vars
  BY <1>8, <1>u DEF Settings!Clean, Settings!vars
<1> HIDE DEF Sound, W
<1>9. QED
  BY <1>2, <1>3, <1>4, <1>5, <1>6, <1>7, <1>8 DEF Settings!Next

LEMMA WriteInit == ASSUME Settings!SettingsAssumption PROVE Settings!Init => WriteInv
<1> SUFFICES ASSUME Settings!Init PROVE WriteInv
  OBVIOUS
<1>1. \A w \in Writers : write[w].toFind = {} /\ write[w].toStore = {}
  BY DEF Settings!Init, Settings!IdleWrite
<1>2. QED
  BY <1>1, TypeInit DEF WriteInv, WritesFind, StoresFound

LEMMA WriteInvStep == ASSUME Settings!SettingsAssumption PROVE WriteInv /\ [Settings!Next]_Settings!vars => WriteInv'
<1>1. WriteInv /\ [Settings!Next]_Settings!vars => CacheTypes' /\ WriteTypes' /\ WritesFind' /\ StoresFound'
  BY CacheStep, WriteStep
<1>2. CacheTypes' /\ WriteTypes' => Settings!TypeOK'
  BY DEF Settings!TypeOK, CacheTypes, WriteTypes
<1>3. QED
  BY <1>1, <1>2 DEF WriteInv

\* The table, the cache, the reads and the writes have the types the two sides of the module
\* rely on; also when the cleaner changes the key of a read.
THEOREM SettingsTypes == ASSUME Settings!SettingsAssumption PROVE Settings!Spec => []Settings!TypeOK
<1>1. WriteInv => Settings!TypeOK
  BY DEF WriteInv
<1>2. QED
  BY <1>1, WriteInit, WriteInvStep, PTL DEF Settings!Spec

-------------------------------------------------------------------------------
(* Stale entries.                                                              *)

\* An answer on its way is what the table holds, or known to be late.
AnswerIsCurrent ==
  \A r \in Readers : get[r].step = "answer" =>
    get[r].late \/ get[r].value = setting[get[r].key].value

StaleInv == WriteInv /\ AnswerIsCurrent /\ Settings!StaleHasAReason

LEMMA StaleInit == ASSUME Settings!SettingsAssumption PROVE Settings!Init => StaleInv
BY WriteInit DEF Settings!Init, StaleInv, AnswerIsCurrent, Settings!StaleHasAReason, Settings!Stale, Settings!IdleGet

\* The cleaner runs when the get() that started it has returned: nobody's key is changed.
LEMMA CleanKeepsReads ==
  ASSUME Settings!SettingsAssumption, SlowQuery = FALSE, Settings!TypeOK, Settings!Clean
  PROVE  \A r \in Readers : get'[r] = get[r]
<1>1. \A r \in Readers, k \in Keys : ~Settings!Captures(r, k)
  BY DEF Settings!Clean, Settings!Captures, Settings!Detached, Settings!SettingsAssumption
<1>2. DOMAIN cacheList \subseteq Keys
  BY DEF Settings!TypeOK
<1>3. QED
  BY <1>1, <1>2 DEF Settings!Clean

LEMMA AnswerStep ==
  ASSUME Settings!SettingsAssumption, SlowQuery = FALSE
  PROVE  WriteInv /\ AnswerIsCurrent /\ [Settings!Next]_Settings!vars => AnswerIsCurrent'
<1> SUFFICES ASSUME Settings!TypeOK, WriteInv, AnswerIsCurrent, [Settings!Next]_Settings!vars PROVE AnswerIsCurrent'
  BY DEF WriteInv
<1>0. CacheTypes /\ WriteTypes
  BY TwoTypes
<1>1. ASSUME NEW r \in Readers, \E g : get' = [get EXCEPT ![r] = g] /\ g.step # "answer",
             setting' = setting
      PROVE  AnswerIsCurrent'
  BY <1>0, <1>1 DEF AnswerIsCurrent, CacheTypes
<1>2. ASSUME NEW r \in Readers, NEW k \in Keys, Settings!GetMiss(r, k) PROVE AnswerIsCurrent'
  <2> DEFINE g == [step |-> "query", key |-> k, value |-> Null, late |-> FALSE]
  <2>1. get' = [get EXCEPT ![r] = g] /\ setting' = setting
    BY <1>2 DEF Settings!GetMiss
  <2>2. g.step # "answer"
    OBVIOUS
  <2> HIDE DEF g
  <2>3. QED
    BY <1>1, <2>1, <2>2
<1>3. ASSUME NEW r \in Readers, Settings!Query(r) PROVE AnswerIsCurrent'
  <2>1. /\ get' = [get EXCEPT ![r].step = "answer", ![r].value = setting[get[r].key].value]
        /\ setting' = setting
    BY <1>3 DEF Settings!Query
  <2>2. /\ get'[r].value = setting[get[r].key].value /\ get'[r].key = get[r].key
        /\ \A x \in Readers : x # r => get'[x] = get[x]
    BY <1>0, <2>1 DEF CacheTypes
  <2>3. QED
    BY <2>1, <2>2 DEF AnswerIsCurrent
<1>4. ASSUME NEW r \in Readers, Settings!QueryError(r) \/ Settings!Answer(r) PROVE AnswerIsCurrent'
  <2>1. get' = [get EXCEPT ![r] = Settings!IdleGet] /\ Settings!IdleGet.step # "answer" /\ setting' = setting
    BY <1>4 DEF Settings!QueryError, Settings!Answer, Settings!Return, Settings!IdleGet
  <2>2. QED
    BY <1>1, <2>1
<1>5. CASE Settings!Clean
  BY <1>5, CleanKeepsReads DEF AnswerIsCurrent, Settings!Clean
<1>6. ASSUME NEW w \in Writers, NEW s \in Settings!Stores, Settings!Store(w, s) PROVE AnswerIsCurrent'
  <2>1. get' = Settings!MarkLate(s.key) /\ \A k \in Keys : k # s.key => setting'[k] = setting[k]
    BY <1>0, <1>6 DEF Settings!Store, WriteTypes
  <2>2. ASSUME NEW r \in Readers, get'[r].step = "answer"
        PROVE  get'[r].late \/ get'[r].value = setting'[get'[r].key].value
    <3>1. CASE get[r].step = "answer" /\ get[r].key = s.key
      BY <1>0, <2>1, <3>1 DEF Settings!MarkLate, CacheTypes
    <3>2. CASE ~(get[r].step = "answer" /\ get[r].key = s.key)
      <4>1. get'[r] = get[r]
        BY <2>1, <3>2 DEF Settings!MarkLate
      <4>2. get[r].key \in Keys /\ get[r].key # s.key
        BY <1>0, <2>2, <3>2, <4>1 DEF CacheTypes
      <4>3. QED
        BY <2>1, <2>2, <4>1, <4>2 DEF AnswerIsCurrent
    <3>3. QED
      BY <3>1, <3>2
  <2>3. QED
    BY <2>2 DEF AnswerIsCurrent
<1>7. ASSUME UNCHANGED <<get, setting>> PROVE AnswerIsCurrent'
  BY <1>7 DEF AnswerIsCurrent
<1>8. ASSUME NEW w \in Writers,
             \/ \E k \in Keys : (\E v \in ValueOf[k] : Settings!Set(w, k, v)) \/ Settings!Find(w, k)
             \/ \E d \in Settings!Data : Settings!SetSettings(w, d)
             \/ \E s \in Settings!Stores : Settings!StoreError(w, s)
             \/ Settings!FindError(w) \/ Settings!Reject(w) \/ Settings!DeleteCache(w)
      PROVE  UNCHANGED <<get, setting>>
  BY <1>8 DEF Settings!Set, Settings!SetSettings, Settings!Call, Settings!Find, Settings!StoreError, Settings!FindError,
              Settings!Reject, Settings!Rejects, Settings!DeleteCache
<1>9. ASSUME NEW r \in Readers, NEW k \in Keys, Settings!GetHit(r, k) PROVE UNCHANGED <<get, setting>>
  BY <1>9 DEF Settings!GetHit
<1>10. ASSUME UNCHANGED Settings!vars PROVE UNCHANGED <<get, setting>>
  BY <1>10 DEF Settings!vars
<1>11. QED
  BY <1>2, <1>3, <1>4, <1>5, <1>6, <1>7, <1>8, <1>9, <1>10 DEF Settings!Next

LEMMA StaleStep ==
  ASSUME Settings!SettingsAssumption, SlowQuery = FALSE
  PROVE  StaleInv /\ [Settings!Next]_Settings!vars => Settings!StaleHasAReason'
<1> SUFFICES ASSUME Settings!TypeOK, WritesFind, StoresFound, AnswerIsCurrent, Settings!StaleHasAReason, [Settings!Next]_Settings!vars,
                    NEW k \in Keys, Settings!Stale(k)'
             PROVE  Settings!DropPending(k)' \/ cacheList'[k].late \/ k \in shortfall'
  BY DEF StaleInv, WriteInv, Settings!StaleHasAReason
<1> DEFINE Goal == Settings!DropPending(k)' \/ cacheList'[k].late \/ k \in shortfall'
           Behind(q) == /\ q.step \in {"find", "store"} /\ k \in DOMAIN q.data \ q.toFind
                        /\ \A s \in q.toStore : s.key # k
<1>0. /\ CacheTypes /\ WriteTypes
      /\ k \in DOMAIN cacheList' /\ cacheList'[k].value # setting'[k].value
      /\ Settings!Stale(k) => Settings!DropPending(k) \/ cacheList[k].late \/ k \in shortfall
  BY TwoTypes DEF Settings!Stale, Settings!StaleHasAReason
\* What does not touch k.
<1>s. ASSUME k \in DOMAIN cacheList, cacheList'[k].value = cacheList[k].value,
             cacheList'[k].late = cacheList[k].late, setting'[k] = setting[k],
             k \in shortfall => k \in shortfall', Settings!DropPending(k) => Goal
      PROVE  Goal
  BY <1>0, <1>s DEF Settings!Stale
\* A writer that is behind stays behind.
<1>d. ASSUME write' = write, Settings!DropPending(k) PROVE Settings!DropPending(k)'
  BY <1>d DEF Settings!DropPending, Settings!Stored
<1>w. ASSUME NEW w \in Writers, NEW x, write' = [write EXCEPT ![w] = x],
             Behind(write[w]) => Behind(x), Settings!DropPending(k)
      PROVE  Settings!DropPending(k)'
  <2>1. write'[w] = x /\ \A v \in Writers : v # w => write'[v] = write[v]
    BY <1>0, <1>w DEF WriteTypes
  <2>2. PICK v \in Writers : Behind(write[v])
    BY <1>w DEF Settings!DropPending, Settings!Stored
  <2>3. Behind(write'[v])
    BY <1>w, <2>1, <2>2
  <2>4. QED
    BY <1>0, <2>3 DEF Settings!DropPending, Settings!Stored
<1>1. ASSUME NEW r \in Readers, NEW j \in Keys, Settings!GetHit(r, j) PROVE Goal
  <2>1. /\ DOMAIN cacheList' = DOMAIN cacheList
        /\ \A x \in DOMAIN cacheList : cacheList'[x] = cacheList[x]
        /\ UNCHANGED <<setting, write, shortfall>>
    BY <1>1 DEF Settings!GetHit, Settings!Hit
  <2>2. QED
    BY <1>0, <1>d, <1>s, <2>1
<1>2. ASSUME UNCHANGED <<cacheList, setting, write, shortfall>> PROVE Goal
  BY <1>0, <1>2, <1>d, <1>s
<1>3. ASSUME NEW r \in Readers, (\E j \in Keys : Settings!GetMiss(r, j)) \/ Settings!Query(r) \/ Settings!QueryError(r)
      PROVE  UNCHANGED <<cacheList, setting, write, shortfall>>
  BY <1>3 DEF Settings!GetMiss, Settings!Query, Settings!QueryError
<1>4. ASSUME NEW r \in Readers, Settings!Answer(r) PROVE Goal
  <2> DEFINE e == [value |-> get[r].value, ticks |-> 0, late |-> get[r].late]
  <2>1. UNCHANGED <<setting, write, shortfall>> /\ get[r].step = "answer"
        /\ (cacheList' = cacheList \/ cacheList' = Settings!With(cacheList, get[r].key, e))
    BY <1>4 DEF Settings!Answer
  <2>2. e.value = get[r].value /\ e.late = get[r].late
    OBVIOUS
  <2> HIDE DEF e
  <2>3. CASE cacheList' = cacheList
    BY <1>2, <2>1, <2>3
  <2>4. CASE cacheList' = Settings!With(cacheList, get[r].key, e)
    <3>1. CASE k = get[r].key
      <4>1. cacheList'[k] = e
        BY <2>4, <3>1 DEF Settings!With
      <4>2. get[r].late
        BY <1>0, <2>1, <2>2, <3>1, <4>1 DEF AnswerIsCurrent
      <4>3. QED
        BY <2>2, <4>1, <4>2
    <3>2. CASE k # get[r].key
      <4>1. k \in DOMAIN cacheList /\ cacheList'[k] = cacheList[k]
        BY <1>0, <2>4, <3>2 DEF Settings!With
      <4>2. QED
        BY <1>d, <1>s, <2>1, <4>1
    <3>3. QED
      BY <3>1, <3>2
  <2>5. QED
    BY <2>1, <2>3, <2>4
<1>5. ASSUME Settings!Clean PROVE Goal
  <2>1. PICK dead \in SUBSET DOMAIN cacheList :
          /\ cacheList' = [x \in DOMAIN cacheList \ dead |-> [cacheList[x] EXCEPT !.ticks = 1]]
          /\ shortfall' = shortfall \ dead
    BY <1>5 DEF Settings!Clean
  <2>2. UNCHANGED <<setting, write>>
    BY <1>5 DEF Settings!Clean
  <2>3. k \in DOMAIN cacheList /\ k \notin dead /\ cacheList'[k] = [cacheList[k] EXCEPT !.ticks = 1]
    BY <1>0, <2>1
  <2>4. cacheList'[k].value = cacheList[k].value /\ cacheList'[k].late = cacheList[k].late
    BY <1>0, <2>3 DEF CacheTypes, Settings!Entries
  <2>5. QED
    BY <1>5, <1>d, <1>s, <2>1, <2>2, <2>3, <2>4
<1>6. ASSUME NEW w \in Writers, NEW d \in Settings!Data, NEW typed, NEW type, Settings!Call(w, d, typed, type) PROVE Goal
  <2>1. write[w].step = "idle" /\ UNCHANGED <<cacheList, setting, shortfall>>
    BY <1>6 DEF Settings!Call
  <2>2. ~Behind(write[w])
    BY <2>1
  <2>3. \E x : write' = [write EXCEPT ![w] = x]
    BY <1>6 DEF Settings!Call
  <2>4. Settings!DropPending(k) => Settings!DropPending(k)'
    BY <1>w, <2>2, <2>3
  <2>5. QED
    BY <1>0, <1>s, <2>1, <2>4
<1>7. ASSUME NEW w \in Writers, NEW j \in Keys, Settings!Find(w, j) PROVE Goal
  <2> DEFINE q == write[w]
             e == [key |-> j, insert |-> ~setting[j].row]
             S == IF Settings!Guarded(setting[j], w) THEN q.toStore ELSE q.toStore \cup {e}
             x == [q EXCEPT !.toFind = @ \ {j}, !.toStore = S,
                            !.step = IF q.toFind = {j} THEN "store" ELSE "find"]
  <2>1. j \in q.toFind /\ UNCHANGED <<cacheList, setting, shortfall>> /\ write' = [write EXCEPT ![w] = x]
    BY <1>0, <1>7 DEF Settings!Find
  <2>2. /\ x.data = q.data /\ x.toFind = q.toFind \ {j} /\ x.toStore = S /\ S \subseteq q.toStore \cup {e}
        /\ x.step \in {"find", "store"}
    BY <1>0 DEF WriteTypes
  <2>3. e.key = j
    OBVIOUS
  <2> HIDE DEF e, S, x
  <2>4. Settings!DropPending(k) => Settings!DropPending(k)'
    BY <1>w, <2>1, <2>2, <2>3
  <2>5. QED
    BY <1>0, <1>s, <2>1, <2>4
<1>8. ASSUME NEW w \in Writers, NEW s \in Settings!Stores, Settings!Store(w, s) PROVE Goal
  <2> DEFINE x == [write[w] EXCEPT !.toStore = @ \ {s}]
  <2>1. /\ UNCHANGED cacheList /\ s \in write[w].toStore /\ write[w].step # "idle"
        /\ write' = [write EXCEPT ![w] = Settings!Left(x)]
        /\ k # s.key => setting'[k] = setting[k]
        /\ shortfall \subseteq shortfall'
        /\ write[w].step = "rejected" /\ k = s.key => k \in shortfall'
    BY <1>0, <1>8 DEF Settings!Store, WriteTypes
  <2>2. /\ x.data = write[w].data /\ x.toFind = write[w].toFind /\ x.toStore = write[w].toStore \ {s}
        /\ x.step = write[w].step /\ (x.step # "rejected" => Settings!Left(x) = x)
    BY <1>0 DEF WriteTypes, Settings!Left
  <2> HIDE DEF x
  <2>3. CASE k = s.key
    <3>1. CASE write[w].step = "rejected"
      BY <2>1, <2>3, <3>1
    <3>2. CASE write[w].step # "rejected"
      <4>1. Behind(x)
        BY <1>0, <2>1, <2>2, <2>3, <3>2 DEF StoresFound, WriteTypes
      <4>2. write'[w] = x
        BY <1>0, <2>1, <2>2, <3>2 DEF WriteTypes
      <4>3. QED
        BY <4>1, <4>2 DEF Settings!DropPending, Settings!Stored
    <3>3. QED
      BY <3>1, <3>2
  <2>4. CASE k # s.key
    <3>1. Behind(write[w]) => Behind(Settings!Left(x))
      BY <2>2
    <3>2. Settings!DropPending(k) => Settings!DropPending(k)'
      BY <1>w, <2>1, <3>1
    <3>3. QED
      BY <1>0, <1>s, <2>1, <2>4, <3>2
  <2>5. QED
    BY <2>3, <2>4
<1>9. ASSUME NEW w \in Writers, NEW s \in Settings!Stores, Settings!StoreError(w, s) PROVE Goal
  <2> DEFINE x == [write[w] EXCEPT !.toStore = @ \ {s}, !.failed = TRUE]
  <2>1. UNCHANGED <<cacheList, setting, shortfall>> /\ write' = [write EXCEPT ![w] = Settings!Left(x)]
    BY <1>0, <1>9 DEF Settings!StoreError
  <2>2. /\ x.data = write[w].data /\ x.toFind = write[w].toFind /\ x.toStore = write[w].toStore \ {s}
        /\ x.step = write[w].step /\ (x.step # "rejected" => Settings!Left(x) = x)
    BY <1>0 DEF WriteTypes, Settings!Left
  <2> HIDE DEF x
  <2>3. Behind(write[w]) => Behind(Settings!Left(x))
    BY <2>2
  <2>4. Settings!DropPending(k) => Settings!DropPending(k)'
    BY <1>w, <2>1, <2>3
  <2>5. QED
    BY <1>0, <1>s, <2>1, <2>4
<1>10. ASSUME NEW w \in Writers, Settings!FindError(w) \/ Settings!Reject(w) PROVE Goal
  <2>1. /\ \E x : write' = [write EXCEPT ![w] = x]
        /\ UNCHANGED <<cacheList, setting>>
        /\ shortfall' = shortfall \cup (Settings!Stored(w) \cap DOMAIN cacheList)
    BY <1>10 DEF Settings!FindError, Settings!Reject, Settings!Rejects
  <2>2. CASE k \in Settings!Stored(w)
    BY <1>0, <2>1, <2>2
  <2>3. CASE k \notin Settings!Stored(w)
    <3>1. ~Behind(write[w])
      BY <1>0, <2>3 DEF Settings!Stored, WriteTypes, CacheTypes
    <3>2. Settings!DropPending(k) => Settings!DropPending(k)'
      BY <1>w, <2>1, <3>1
    <3>3. QED
      BY <1>0, <1>s, <2>1, <3>2
  <2>4. QED
    BY <2>2, <2>3
<1>11. ASSUME NEW w \in Writers, Settings!DeleteCache(w) PROVE Goal
  <2>1. /\ write' = [write EXCEPT ![w] = Settings!IdleWrite] /\ UNCHANGED setting
        /\ cacheList' = Settings!Without(cacheList, DOMAIN write[w].data)
        /\ shortfall' = shortfall \ DOMAIN write[w].data
    BY <1>11 DEF Settings!DeleteCache
  <2>2. k \in DOMAIN cacheList /\ k \notin DOMAIN write[w].data /\ cacheList'[k] = cacheList[k]
    BY <1>0, <2>1 DEF Settings!Without
  <2>3. ~Behind(write[w])
    BY <2>2
  <2>4. Settings!DropPending(k) => Settings!DropPending(k)'
    BY <1>w, <2>1, <2>3
  <2>5. QED
    BY <1>0, <1>s, <2>1, <2>2, <2>4
<1>12. ASSUME UNCHANGED Settings!vars PROVE UNCHANGED <<cacheList, setting, write, shortfall>>
  BY <1>12 DEF Settings!vars
<1>13. ASSUME NEW w \in Writers,
              \/ \E j \in Keys : \E v \in ValueOf[j] : Settings!Set(w, j, v)
              \/ \E d \in Settings!Data : Settings!SetSettings(w, d)
       PROVE  Goal
  BY <1>6, <1>13, DataTypes DEF Settings!Set, Settings!SetSettings
<1> HIDE DEF Goal, Behind
<1>14. Goal
  <2>1. ASSUME NEW r \in Readers, NEW j \in Keys, Settings!GetHit(r, j) \/ Settings!GetMiss(r, j) PROVE Goal
    BY <1>1, <1>2, <1>3, <2>1
  <2>2. ASSUME NEW r \in Readers, Settings!Query(r) \/ Settings!QueryError(r) \/ Settings!Answer(r) PROVE Goal
    BY <1>2, <1>3, <1>4, <2>2
  <2>3. ASSUME NEW w \in Writers, NEW j \in Keys, (\E v \in ValueOf[j] : Settings!Set(w, j, v)) \/ Settings!Find(w, j)
        PROVE  Goal
    BY <1>7, <1>13, <2>3
  <2>4. ASSUME NEW w \in Writers, NEW d \in Settings!Data, Settings!SetSettings(w, d) PROVE Goal
    BY <1>13, <2>4
  <2>5. ASSUME NEW w \in Writers, NEW s \in Settings!Stores, Settings!Store(w, s) \/ Settings!StoreError(w, s) PROVE Goal
    BY <1>8, <1>9, <2>5
  <2>6. ASSUME NEW w \in Writers, Settings!FindError(w) \/ Settings!Reject(w) \/ Settings!DeleteCache(w) PROVE Goal
    BY <1>10, <1>11, <2>6
  <2>7. CASE UNCHANGED Settings!vars
    BY <1>2, <1>12, <2>7
  <2>8. QED
    BY <1>5, <2>1, <2>2, <2>3, <2>4, <2>5, <2>6, <2>7 DEF Settings!Next
<1>15. QED
  BY <1>14 DEF Goal

\* A cached value differs from the table only between a store and the drop that follows it,
\* after an answer that a store overtook, or after a write that rejected, for any number of
\* reads and writes of any settings at the same time, as long as no query takes longer than the
\* interval of the cleaner.
THEOREM StaleHolds ==
  ASSUME Settings!SettingsAssumption, SlowQuery = FALSE PROVE Settings!Spec => []Settings!StaleHasAReason
<1>1. StaleInv /\ [Settings!Next]_Settings!vars => StaleInv'
  BY WriteInvStep, AnswerStep, StaleStep DEF StaleInv
<1>2. StaleInv => Settings!StaleHasAReason
  BY DEF StaleInv
<1>3. QED
  BY <1>1, <1>2, StaleInit, PTL DEF Settings!Spec

-------------------------------------------------------------------------------
(* Values under the name they belong to.                                       *)

Own(k) == ValueOf[k] \cup LegacyOf[k] \cup {Null}

\* The table and the answers on their way hold values of their own setting.
OwnValues ==
  /\ \A k \in Keys : setting[k].value \in Own(k)
  /\ \A r \in Readers : get[r].step = "answer" => get[r].value \in Own(get[r].key)

OwnInv == WriteInv /\ OwnValues /\ Settings!CacheHoldsOwnValue

LEMMA OwnInit == ASSUME Settings!SettingsAssumption PROVE Settings!Init => OwnInv
<1> SUFFICES ASSUME Settings!Init PROVE OwnInv
  OBVIOUS
<1>1. \A k \in Keys : setting[k].value \in Own(k)
  BY DEF Settings!Init, Own, Settings!NoRow
<1>2. QED
  BY <1>1, WriteInit DEF Settings!Init, OwnInv, OwnValues, Settings!CacheHoldsOwnValue, Settings!IdleGet

LEMMA OwnStep ==
  ASSUME Settings!SettingsAssumption, SlowQuery = FALSE
  PROVE  OwnInv /\ [Settings!Next]_Settings!vars => OwnValues' /\ Settings!CacheHoldsOwnValue'
<1> DEFINE P == OwnValues' /\ Settings!CacheHoldsOwnValue'
<1> SUFFICES ASSUME Settings!TypeOK, StoresFound, OwnValues, Settings!CacheHoldsOwnValue, [Settings!Next]_Settings!vars PROVE P
  BY DEF OwnInv, WriteInv
<1>0. CacheTypes /\ WriteTypes
  BY TwoTypes
\* What neither reads nor stores.
<1>k. ASSUME setting' = setting,
             \A r \in Readers : get'[r].step = "answer" =>
               get'[r].value = get[r].value /\ get'[r].key = get[r].key /\ get[r].step = "answer",
             \A k \in DOMAIN cacheList' :
               k \in DOMAIN cacheList /\ cacheList'[k].value = cacheList[k].value
      PROVE  P
  BY <1>k DEF OwnValues, Settings!CacheHoldsOwnValue
<1>1. ASSUME NEW r \in Readers, NEW k \in Keys, Settings!GetHit(r, k) PROVE P
  BY <1>1, <1>k DEF Settings!GetHit, Settings!Hit
<1>2. ASSUME NEW r \in Readers, NEW k \in Keys, Settings!GetMiss(r, k) PROVE P
  <2> DEFINE g == [step |-> "query", key |-> k, value |-> Null, late |-> FALSE]
  <2>1. get' = [get EXCEPT ![r] = g] /\ UNCHANGED <<setting, cacheList>> /\ g.step # "answer"
    BY <1>2 DEF Settings!GetMiss
  <2> HIDE DEF g
  <2>2. QED
    BY <1>0, <1>k, <2>1 DEF CacheTypes
<1>3. ASSUME NEW r \in Readers, Settings!Query(r) PROVE P
  <2>1. /\ get' = [get EXCEPT ![r].step = "answer", ![r].value = setting[get[r].key].value]
        /\ UNCHANGED <<setting, cacheList>> /\ get[r].key \in Keys
    BY <1>0, <1>3 DEF Settings!Query, CacheTypes
  <2>2. /\ get'[r].value \in Own(get'[r].key)
        /\ \A x \in Readers : x # r => get'[x] = get[x]
    BY <1>0, <2>1 DEF CacheTypes, OwnValues
  <2>3. QED
    BY <2>1, <2>2 DEF OwnValues, Settings!CacheHoldsOwnValue
<1>4. ASSUME NEW r \in Readers, Settings!QueryError(r) PROVE P
  <2>1. get' = [get EXCEPT ![r] = Settings!IdleGet] /\ Settings!IdleGet.step # "answer" /\ UNCHANGED <<setting, cacheList>>
    BY <1>4 DEF Settings!QueryError, Settings!Return, Settings!IdleGet
  <2>2. QED
    BY <1>0, <1>k, <2>1 DEF CacheTypes
\* What an old version left does not parse and is not cached.
<1>5. ASSUME NEW r \in Readers, Settings!Answer(r) PROVE P
  <2> DEFINE e == [value |-> get[r].value, ticks |-> 0, late |-> get[r].late]
  <2>1. get' = [get EXCEPT ![r] = Settings!IdleGet] /\ Settings!IdleGet.step # "answer" /\ setting' = setting
    BY <1>5 DEF Settings!Answer, Settings!Return, Settings!IdleGet
  <2>2. OwnValues'
    BY <1>0, <2>1 DEF OwnValues, CacheTypes
  <2>3. CASE \E k \in Keys : get[r].value \in LegacyOf[k]
    BY <1>5, <2>2, <2>3 DEF Settings!Answer, Settings!CacheHoldsOwnValue
  <2>4. CASE ~ \E k \in Keys : get[r].value \in LegacyOf[k]
    <3>1. cacheList' = Settings!With(cacheList, get[r].key, e)
      BY <1>5, <2>4 DEF Settings!Answer
    <3>2. get[r].key \in Keys /\ get[r].value \in Own(get[r].key)
      BY <1>0, <1>5 DEF Settings!Answer, OwnValues, CacheTypes
    <3>3. e.value \in ValueOf[get[r].key] \cup {Null}
      BY <2>4, <3>2 DEF Own
    <3> HIDE DEF e
    <3>4. Settings!CacheHoldsOwnValue'
      BY <3>1, <3>3 DEF Settings!With, Settings!CacheHoldsOwnValue
    <3>5. QED
      BY <2>2, <3>4
  <2>5. QED
    BY <2>3, <2>4
<1>6. ASSUME Settings!Clean PROVE P
  <2>1. PICK dead \in SUBSET DOMAIN cacheList :
          cacheList' = [x \in DOMAIN cacheList \ dead |-> [cacheList[x] EXCEPT !.ticks = 1]]
    BY <1>6 DEF Settings!Clean
  <2>2. \A k \in DOMAIN cacheList' : k \in DOMAIN cacheList /\ cacheList'[k].value = cacheList[k].value
    BY <1>0, <2>1 DEF CacheTypes, Settings!Entries
  <2>3. setting' = setting /\ \A r \in Readers : get'[r] = get[r]
    BY <1>6, CleanKeepsReads DEF Settings!Clean
  <2>4. QED
    BY <1>k, <2>2, <2>3
<1>7. ASSUME NEW w \in Writers, NEW s \in Settings!Stores, Settings!Store(w, s) PROVE P
  <2> DEFINE v == write[w].data[s.key]
  <2>1. s \in write[w].toStore /\ cacheList' = cacheList /\ get' = Settings!MarkLate(s.key)
    BY <1>7 DEF Settings!Store
  <2>2. write[w].data \in Settings!Data
    <3>1. write[w].data \in Settings!Data \cup {<<>>} /\ s.key \in DOMAIN write[w].data
      BY <1>0, <2>1 DEF WriteTypes, StoresFound
    <3>2. QED
      BY <3>1
  <2>3. s.key \in DOMAIN write[w].data /\ v \in Own(s.key)
    BY <2>1, <2>2, DataTypes DEF StoresFound, Own
  <2>4. \A k \in Keys : setting'[k].value \in Own(k)
    <3>1. /\ setting'[s.key].value = v
          /\ \A k \in Keys : k # s.key => setting'[k] = setting[k]
      BY <1>0, <1>7 DEF Settings!Store, WriteTypes, Settings!Stores
    <3>2. QED
      BY <2>3, <3>1 DEF OwnValues
  <2>5. \A r \in Readers : get'[r].step = get[r].step /\ get'[r].value = get[r].value
                           /\ get'[r].key = get[r].key
    BY <1>0, <2>1 DEF Settings!MarkLate, CacheTypes
  <2>6. QED
    BY <2>1, <2>4, <2>5 DEF OwnValues, Settings!CacheHoldsOwnValue
<1>8. ASSUME NEW w \in Writers, Settings!DeleteCache(w) PROVE P
  BY <1>8, <1>k DEF Settings!DeleteCache, Settings!Without
<1>9. ASSUME UNCHANGED <<cacheList, get, setting>> PROVE P
  BY <1>9, <1>k
<1>10. ASSUME NEW w \in Writers,
              \/ \E k \in Keys : (\E v \in ValueOf[k] : Settings!Set(w, k, v)) \/ Settings!Find(w, k)
              \/ \E d \in Settings!Data : Settings!SetSettings(w, d)
              \/ \E s \in Settings!Stores : Settings!StoreError(w, s)
              \/ Settings!FindError(w) \/ Settings!Reject(w)
       PROVE  UNCHANGED <<cacheList, get, setting>>
  BY <1>10 DEF Settings!Set, Settings!SetSettings, Settings!Call, Settings!Find, Settings!StoreError, Settings!FindError,
               Settings!Reject, Settings!Rejects
<1>11. ASSUME UNCHANGED Settings!vars PROVE P
  BY <1>9, <1>11 DEF Settings!vars
<1> HIDE DEF P
<1>12. ASSUME NEW r \in Readers, (\E k \in Keys : Settings!GetHit(r, k) \/ Settings!GetMiss(r, k))
                                 \/ Settings!Query(r) \/ Settings!QueryError(r) \/ Settings!Answer(r)
       PROVE  P
  BY <1>1, <1>2, <1>3, <1>4, <1>5, <1>12
<1>13. ASSUME NEW w \in Writers,
              \/ \E k \in Keys : (\E v \in ValueOf[k] : Settings!Set(w, k, v)) \/ Settings!Find(w, k)
              \/ \E d \in Settings!Data : Settings!SetSettings(w, d)
              \/ \E s \in Settings!Stores : Settings!Store(w, s) \/ Settings!StoreError(w, s)
              \/ Settings!FindError(w) \/ Settings!Reject(w) \/ Settings!DeleteCache(w)
       PROVE  P
  BY <1>7, <1>8, <1>9, <1>10, <1>13
<1>14. QED
  BY <1>6, <1>11, <1>12, <1>13 DEF Settings!Next

\* What is cached under a name is a value of that setting: an answer is cached under the name
\* it was asked for, although the loop of the cleaner shares a variable with the get() that
\* started it, because that get() has returned by the time of the first tick.
THEOREM OwnValuesHold ==
  ASSUME Settings!SettingsAssumption, SlowQuery = FALSE PROVE Settings!Spec => []Settings!CacheHoldsOwnValue
<1>1. OwnInv /\ [Settings!Next]_Settings!vars => OwnInv'
  BY WriteInvStep, OwnStep DEF OwnInv
<1>2. OwnInv => Settings!CacheHoldsOwnValue
  BY DEF OwnInv
<1>3. QED
  BY <1>1, <1>2, OwnInit, PTL DEF Settings!Spec

-------------------------------------------------------------------------------
(* ResponseCache, the cache of answers: types.                                 *)

CONSTANTS
  Urls,        \* keys of the cache: a route with its parameters
  Visitors,    \* requests that may be in progress at once
  Changers,    \* heartbeats and socket events that may be in progress at once
  Duration,    \* how long an answer is kept, in ticks
  MaxVersions, \* bound: changes stored
  NoEntry

VARIABLES
  stored,   \* version of the data
  made,     \* history: of a version, what kind of change made it
  entry,    \* memCache.cache: of a URL, the version answered and the time left
  strays,   \* timers whose entry was replaced or removed: where they are kept, time left
  visit,    \* of a request: its step, its URL, the version it read
  change,   \* of a handler: its step, the version it found
  served    \* history: of a URL, the version last sent, and whether it was late

Cache == INSTANCE ResponseCache

LEMMA CacheTypeInit == ASSUME Cache!CacheAssumption PROVE Cache!Init => Cache!TypeOK
<1> SUFFICES ASSUME Cache!Init PROVE Cache!TypeOK
  OBVIOUS
<1>1. made \in [1..stored -> Cache!Kinds \cup {"failed"}]
  <2>1. 1..stored = {}
    BY DEF Cache!Init
  <2>2. DOMAIN made = {} /\ made = [n \in {} |-> made[n]]
    BY DEF Cache!Init
  <2>3. QED
    BY <2>1, <2>2
<1>2. QED
  BY <1>1 DEF Cache!Init, Cache!TypeOK, Cache!CacheAssumption, Cache!Versions, Cache!NoVisit, Cache!NoChange

\* Emptying the cache keeps the types of entries and timers.
LEMMA ClearTypes ==
  ASSUME Cache!CacheAssumption, Cache!TypeOK, Cache!ClearAll, stored' = stored
  PROVE  /\ entry' \in [Urls -> {NoEntry} \cup [version : 0..stored, left : 0..Duration, late : BOOLEAN]]
         /\ strays' \in [Urls -> SUBSET ({"memory", "index"} \X (0..Duration))]
         /\ \A u \in Urls : entry'[u] = NoEntry
BY DEF Cache!ClearAll, Cache!TypeOK

\* So does a version that is stored, which is the greatest.
LEMMA StoreTypes ==
  ASSUME Cache!CacheAssumption, Cache!TypeOK, NEW kind \in Cache!Kinds, Cache!StoreVersion(kind)
  PROVE  /\ stored' \in Cache!Versions /\ stored \in Nat /\ 0..stored \subseteq 0..stored'
         /\ made' \in [1..stored' -> Cache!Kinds \cup {"failed"}]
         /\ visit' \in [Visitors -> [step : {"idle", "read", "end"}, url : Urls \cup {NoEntry},
                                    version : 0..stored', late : BOOLEAN]]
         /\ \A v \in Visitors : /\ visit'[v].step = visit[v].step /\ visit'[v].url = visit[v].url
                                /\ visit'[v].version = visit[v].version
                                /\ visit[v].step = "end" => visit'[v].late
<1>1. stored \in Nat /\ stored < MaxVersions /\ stored' = stored + 1 /\ MaxVersions \in Nat
  BY DEF Cache!TypeOK, Cache!CacheAssumption, Cache!Versions, Cache!StoreVersion
<1>2. stored' \in Cache!Versions /\ 0..stored \subseteq 0..stored'
  BY <1>1 DEF Cache!Versions
<1>3. made' \in [1..stored' -> Cache!Kinds \cup {"failed"}]
  <2>1. \A n \in 1..(stored + 1) : n # stored + 1 => n \in 1..stored
    BY <1>1
  <2>2. QED
    BY <1>1, <2>1 DEF Cache!StoreVersion, Cache!TypeOK
<1>4. ASSUME NEW v \in Visitors
      PROVE  /\ visit'[v] \in [step : {"idle", "read", "end"}, url : Urls \cup {NoEntry},
                              version : 0..stored', late : BOOLEAN]
             /\ visit'[v].step = visit[v].step /\ visit'[v].url = visit[v].url
             /\ visit'[v].version = visit[v].version
             /\ visit[v].step = "end" => visit'[v].late
  <2>1. visit[v] \in [step : {"idle", "read", "end"}, url : Urls \cup {NoEntry},
                      version : 0..stored, late : BOOLEAN]
    BY DEF Cache!TypeOK
  <2>2. visit'[v] = IF visit[v].step = "end" THEN [visit[v] EXCEPT !.late = TRUE] ELSE visit[v]
    BY DEF Cache!StoreVersion
  <2>3. QED
    BY <1>2, <2>1, <2>2
<1>5. visit' = [v \in Visitors |-> visit'[v]]
  BY DEF Cache!StoreVersion
<1>6. QED
  BY <1>1, <1>2, <1>3, <1>4, <1>5

LEMMA CacheTypeStep == ASSUME Cache!CacheAssumption PROVE Cache!TypeOK /\ [Cache!Next]_(Cache!cvars) => Cache!TypeOK'
<1> SUFFICES ASSUME Cache!TypeOK, [Cache!Next]_(Cache!cvars) PROVE Cache!TypeOK'
  OBVIOUS
<1>0. stored \in Nat /\ Duration \in Nat \ {0} /\ MaxVersions \in Nat /\ 0 \in 0..stored /\ stored \in 0..stored
      /\ Duration \in 0..Duration
  BY DEF Cache!TypeOK, Cache!Versions, Cache!CacheAssumption
<1>1. ASSUME NEW v \in Visitors, NEW u \in Urls, Cache!Hit(v, u) PROVE Cache!TypeOK'
  <2>1. entry[u] \in [version : 0..stored, left : 0..Duration, late : BOOLEAN]
    BY <1>1 DEF Cache!Hit, Cache!TypeOK
  <2>2. entry' = entry
    BY <1>1 DEF Cache!Hit, Cache!Kept, Cache!TypeOK
  <2>3. QED
    BY <1>1, <2>1, <2>2 DEF Cache!Hit, Cache!TypeOK
<1>2. ASSUME NEW v \in Visitors, NEW u \in Urls, Cache!Miss(v, u) PROVE Cache!TypeOK'
  BY <1>0, <1>2 DEF Cache!Miss, Cache!TypeOK, Cache!NoVisit
<1>3. ASSUME NEW v \in Visitors, Cache!Read(v) PROVE Cache!TypeOK'
  <2>1. visit[v] \in [step : {"idle", "read", "end"}, url : Urls \cup {NoEntry}, version : 0..stored,
                      late : BOOLEAN]
        /\ visit[v].url \in Urls
    BY <1>3 DEF Cache!Read, Cache!TypeOK
  <2>2. visit' = [visit EXCEPT ![v] = [visit[v] EXCEPT !.step = "end", !.version = stored]]
    BY <1>3 DEF Cache!Read, Cache!TypeOK
  <2>3. [visit[v] EXCEPT !.step = "end", !.version = stored] \in
          [step : {"idle", "read", "end"}, url : Urls \cup {NoEntry}, version : 0..stored, late : BOOLEAN]
    BY <1>0, <2>1
  <2>4. visit' \in [Visitors -> [step : {"idle", "read", "end"}, url : Urls \cup {NoEntry},
                                version : 0..stored, late : BOOLEAN]]
    BY <2>2, <2>3 DEF Cache!TypeOK
  <2>5. \A x \in Visitors : visit'[x].step # "idle" => visit'[x].url \in Urls
    BY <2>1, <2>2 DEF Cache!TypeOK
  <2>6. QED
    BY <1>3, <2>4, <2>5 DEF Cache!Read, Cache!TypeOK
<1>4. ASSUME NEW v \in Visitors, Cache!End(v) PROVE Cache!TypeOK'
  <2> DEFINE u == visit[v].url
  <2>1. u \in Urls /\ visit[v].version \in 0..stored /\ visit[v].late \in BOOLEAN
    BY <1>4 DEF Cache!End, Cache!TypeOK
  <2> HIDE DEF u
  <2>2. entry' = [entry EXCEPT ![u] = [version |-> visit[v].version, left |-> Duration, late |-> visit[v].late]]
    BY <1>4 DEF Cache!End, u
  <2>3. entry' \in [Urls -> {NoEntry} \cup [version : 0..stored, left : 0..Duration, late : BOOLEAN]]
    BY <1>0, <2>1, <2>2 DEF Cache!TypeOK
  <2>4. Cache!Orphans(u) \in SUBSET ({"memory", "index"} \X (0..Duration))
    BY <2>1 DEF Cache!Orphans, Cache!TypeOK
  <2>5. strays' \in [Urls -> SUBSET ({"memory", "index"} \X (0..Duration))]
    BY <1>4, <2>1, <2>4 DEF Cache!End, Cache!TypeOK, u
  <2>6. served' \in [Urls -> [version : 0..stored, late : BOOLEAN]]
    BY <1>4, <2>1 DEF Cache!End, Cache!TypeOK, u
  <2>7. QED
    BY <1>0, <1>4, <2>3, <2>5, <2>6 DEF Cache!End, Cache!TypeOK, Cache!NoVisit
<1>5. ASSUME NEW u \in Urls, Cache!Expire(u) PROVE Cache!TypeOK'
  BY <1>5 DEF Cache!Expire, Cache!TypeOK
<1>6. ASSUME NEW u \in Urls, Cache!StrayFires(u) PROVE Cache!TypeOK'
  <2>1. PICK s \in strays[u] :
           /\ entry' = [entry EXCEPT ![u] = NoEntry]
           /\ strays' = [strays EXCEPT ![u] =
                (@ \ {s}) \cup IF s[1] = "memory" /\ entry[u] # NoEntry /\ entry[u].left > 0
                               THEN {<<"index", entry[u].left>>} ELSE {}]
           /\ UNCHANGED <<stored, made, visit, change, served>>
    BY <1>6 DEF Cache!StrayFires
  <2>2. entry[u] # NoEntry => entry[u].left \in 0..Duration
    BY DEF Cache!TypeOK
  <2>3. strays' \in [Urls -> SUBSET ({"memory", "index"} \X (0..Duration))]
    BY <2>1, <2>2 DEF Cache!TypeOK
  <2>4. QED
    BY <2>1, <2>3 DEF Cache!TypeOK
<1>7. ASSUME Cache!Elapse PROVE Cache!TypeOK'
  <2>1. \A u \in Urls : entry[u] # NoEntry => [entry[u] EXCEPT !.left = @ - 1] \in
                          [version : 0..stored, left : 0..Duration, late : BOOLEAN]
    <3>1. SUFFICES ASSUME NEW u \in Urls, entry[u] # NoEntry
                   PROVE [entry[u] EXCEPT !.left = @ - 1] \in
                          [version : 0..stored, left : 0..Duration, late : BOOLEAN]
      OBVIOUS
    <3>2. entry[u] \in [version : 0..stored, left : 0..Duration, late : BOOLEAN] /\ entry[u].left # 0
      BY <1>7, <3>1 DEF Cache!Elapse, Cache!Due, Cache!TypeOK
    <3>3. entry[u].left - 1 \in 0..Duration
      BY <1>0, <3>2
    <3>4. QED
      BY <3>2, <3>3
  <2>2. \A u \in Urls : {<<s[1], s[2] - 1>> : s \in strays[u]} \in SUBSET ({"memory", "index"} \X (0..Duration))
    <3>1. SUFFICES ASSUME NEW u \in Urls, NEW s \in strays[u] PROVE <<s[1], s[2] - 1>> \in {"memory", "index"} \X (0..Duration)
      OBVIOUS
    <3>2. s \in {"memory", "index"} \X (0..Duration) /\ s[2] > 0
      BY <1>7 DEF Cache!Elapse, Cache!TypeOK
    <3>3. QED
      BY <1>0, <3>2
  <2>3. QED
    BY <1>7, <2>1, <2>2 DEF Cache!Elapse, Cache!TypeOK
<1>8. ASSUME NEW w \in Changers, Cache!BeginBeat(w) PROVE Cache!TypeOK'
  <2>1. [step |-> "store", from |-> stored] \in [step : {"idle", "store", "clear"}, from : 0..stored]
    BY <1>0
  <2>2. QED
    BY <1>8, <2>1, ClearTypes DEF Cache!BeginBeat, Cache!TypeOK
<1>9. ASSUME NEW kind \in Cache!Kinds, Cache!StoreVersion(kind), UNCHANGED <<entry, strays, served>>,
             change' \in [Changers -> [step : {"idle", "store", "clear"}, from : 0..stored]]
      PROVE  Cache!TypeOK'
  <2>1. 0..stored \subseteq 0..stored'
    BY <1>9, StoreTypes
  <2>2. entry' \in [Urls -> {NoEntry} \cup [version : 0..stored', left : 0..Duration, late : BOOLEAN]]
    BY <1>9, <2>1 DEF Cache!TypeOK
  <2>3. change' \in [Changers -> [step : {"idle", "store", "clear"}, from : 0..stored']]
    BY <1>9, <2>1
  <2>4. served' \in [Urls -> [version : 0..stored', late : BOOLEAN]]
    BY <1>9, <2>1 DEF Cache!TypeOK
  <2>5. strays' \in [Urls -> SUBSET ({"memory", "index"} \X (0..Duration))]
    BY <1>9 DEF Cache!TypeOK
  <2>6. /\ stored' \in Cache!Versions /\ made' \in [1..stored' -> Cache!Kinds \cup {"failed"}]
        /\ visit' \in [Visitors -> [step : {"idle", "read", "end"}, url : Urls \cup {NoEntry},
                                    version : 0..stored', late : BOOLEAN]]
        /\ \A v \in Visitors : visit'[v].step # "idle" => visit'[v].url \in Urls
    BY <1>9, StoreTypes DEF Cache!TypeOK
  <2>7. QED
    BY <2>2, <2>3, <2>4, <2>5, <2>6 DEF Cache!TypeOK
<1>10. ASSUME NEW w \in Changers, Cache!StoreBeat(w) PROVE Cache!TypeOK'
  <2>1. change' \in [Changers -> [step : {"idle", "store", "clear"}, from : 0..stored]] /\ "beat" \in Cache!Kinds
    BY <1>0, <1>10 DEF Cache!StoreBeat, Cache!TypeOK, Cache!NoChange, Cache!Kinds
  <2>2. QED
    BY <1>9, <1>10, <2>1 DEF Cache!StoreBeat
<1>11. ASSUME NEW w \in Changers, Cache!StoreChange(w) PROVE Cache!TypeOK'
  <2>1. change[w].from \in 0..stored
    BY DEF Cache!TypeOK
  <2>2. change' \in [Changers -> [step : {"idle", "store", "clear"}, from : 0..stored]] /\ "clearing" \in Cache!Kinds
    BY <1>0, <1>11, <2>1 DEF Cache!StoreChange, Cache!TypeOK, Cache!Kinds
  <2>3. QED
    BY <1>9, <1>11, <2>2 DEF Cache!StoreChange
<1>12. ASSUME NEW w \in Changers, Cache!ClearChange(w) PROVE Cache!TypeOK'
  <2>1. Cache!NoChange \in [step : {"idle", "store", "clear"}, from : 0..stored]
    BY <1>0 DEF Cache!NoChange
  <2>2. QED
    BY <1>12, <2>1, ClearTypes DEF Cache!ClearChange, Cache!TypeOK
<1>13. ASSUME NEW w \in Changers, Cache!ChangeFails(w) PROVE Cache!TypeOK'
  BY <1>0, <1>13 DEF Cache!ChangeFails, Cache!TypeOK, Cache!NoChange
<1>14. ASSUME Cache!SilentChange PROVE Cache!TypeOK'
  <2>1. change' \in [Changers -> [step : {"idle", "store", "clear"}, from : 0..stored]] /\ "silent" \in Cache!Kinds
    BY <1>14 DEF Cache!SilentChange, Cache!TypeOK, Cache!Kinds
  <2>2. QED
    BY <1>9, <1>14, <2>1 DEF Cache!SilentChange
<1>15. ASSUME UNCHANGED Cache!cvars PROVE Cache!TypeOK'
  BY <1>15 DEF Cache!cvars, Cache!TypeOK
<1>16. QED
  BY <1>1, <1>2, <1>3, <1>4, <1>5, <1>6, <1>7, <1>8, <1>10, <1>11, <1>12, <1>13, <1>14, <1>15 DEF Cache!Next

-------------------------------------------------------------------------------
(* Outdated answers.                                                           *)

\* An answer that is made has read what is stored, or is known to be late.
ReadIsCurrent ==
  \A v \in Visitors : visit[v].step = "end" => visit[v].late \/ visit[v].version = stored

\* What is kept is not older than what was sent.
KeptIsSent ==
  \A u \in Urls : entry[u] # NoEntry => entry[u].late \/ entry[u].version >= served[u].version

AnswersInv == Cache!TypeOK /\ ReadIsCurrent /\ Cache!StaleAnswerHasAReason /\ KeptIsSent

\* Why an answer of a version may lack the versions after it.
Reason(version) ==
  \A n \in (version + 1)..stored :
    \/ made[n] # "clearing"
    \/ \E w \in Changers : change[w].step = "clear" /\ n > change[w].from

\* A store gives the answers that were current a reason to be outdated, and leaves the others
\* theirs.
LEMMA StoreReasons ==
  ASSUME Cache!CacheAssumption, Cache!TypeOK, ReadIsCurrent, Cache!StaleAnswerHasAReason, NEW kind \in Cache!Kinds, Cache!StoreVersion(kind),
         entry' = entry,
         \A w \in Changers : change[w].step = "clear" => change'[w] = [change[w] EXCEPT !.step = "clear"],
         kind = "clearing" => \E w \in Changers : change'[w].step = "clear" /\ stored + 1 > change'[w].from
  PROVE  ReadIsCurrent' /\ Cache!StaleAnswerHasAReason'
<1>1. ReadIsCurrent'
  BY StoreTypes DEF ReadIsCurrent
<1>2. Cache!StaleAnswerHasAReason'
  <2>1. stored \in Nat /\ stored' = stored + 1
    BY DEF Cache!StoreVersion, Cache!TypeOK, Cache!Versions
  <2>2. /\ \A n \in 1..stored : made'[n] = made[n]
        /\ made'[stored + 1] = kind
    BY <2>1 DEF Cache!StoreVersion
  <2>3. \A w \in Changers : change[w].step = "clear" => change'[w].step = "clear" /\ change'[w].from = change[w].from
    BY DEF Cache!TypeOK
  <2>4. SUFFICES ASSUME NEW u \in Urls, entry[u] # NoEntry, ~entry[u].late,
                        NEW n \in (entry[u].version + 1)..(stored + 1), made'[n] = "clearing"
                 PROVE  \E w \in Changers : change'[w].step = "clear" /\ n > change'[w].from
    BY <2>1 DEF Cache!StaleAnswerHasAReason, Cache!Stale
  <2>5. entry[u].version \in 0..stored
    BY <2>4 DEF Cache!TypeOK
  <2>6. CASE n = stored + 1
    BY <2>2, <2>4, <2>6
  <2>7. CASE n # stored + 1
    <3>1. n \in 1..stored /\ n \in (entry[u].version + 1)..stored /\ entry[u].version < stored
      BY <2>1, <2>5, <2>7
    <3>2. \E w \in Changers : change[w].step = "clear" /\ n > change[w].from
      BY <2>2, <2>4, <3>1 DEF Cache!StaleAnswerHasAReason, Cache!Stale
    <3>3. QED
      BY <2>3, <3>2
  <2>8. QED
    BY <2>6, <2>7
<1>3. QED
  BY <1>1, <1>2

LEMMA AnswersInit == ASSUME Cache!CacheAssumption PROVE Cache!Init => AnswersInv
<1> SUFFICES ASSUME Cache!Init PROVE AnswersInv
  OBVIOUS
<1>1. \A u \in Urls : entry[u] = NoEntry
  BY DEF Cache!Init
<1>2. ReadIsCurrent
  BY DEF Cache!Init, ReadIsCurrent, Cache!NoVisit
<1>3. QED
  BY <1>1, <1>2, CacheTypeInit DEF AnswersInv, Cache!StaleAnswerHasAReason, KeptIsSent, Cache!Stale

\* Answers that are kept stay as they are, or go.
LEMMA EntriesKept ==
  ASSUME Cache!StaleAnswerHasAReason, KeptIsSent, \A u \in Urls : entry'[u] # NoEntry =>
           /\ entry[u] # NoEntry /\ entry'[u].version = entry[u].version /\ entry'[u].late = entry[u].late,
         UNCHANGED <<stored, made, change, served>>
  PROVE  Cache!StaleAnswerHasAReason' /\ KeptIsSent'
BY DEF Cache!StaleAnswerHasAReason, Cache!Stale, KeptIsSent

\* Whatever is stored, emptied or made meanwhile: outdated answers keep a reason, and what is sent
\* is not older than what was sent before, or known to be late.
LEMMA AnswersStep ==
  ASSUME Cache!CacheAssumption
  PROVE  AnswersInv /\ [Cache!Next]_(Cache!cvars) => /\ AnswersInv'
                                       /\ \A u \in Urls : served'[u].version < served[u].version => served'[u].late
<1> DEFINE Goal == /\ ReadIsCurrent' /\ Cache!StaleAnswerHasAReason' /\ KeptIsSent'
                   /\ \A u \in Urls : served'[u].version < served[u].version => served'[u].late
<1> SUFFICES ASSUME AnswersInv, [Cache!Next]_(Cache!cvars) PROVE Goal
  BY CacheTypeStep DEF AnswersInv
<1>0. /\ Cache!TypeOK /\ Cache!TypeOK' /\ ReadIsCurrent /\ Cache!StaleAnswerHasAReason /\ KeptIsSent /\ stored \in Nat
      /\ \A u \in Urls : served[u].version \in 0..stored /\ served[u].late \in BOOLEAN
      /\ \A u \in Urls : entry[u] # NoEntry => entry[u].version \in 0..stored /\ entry[u].late \in BOOLEAN
  BY CacheTypeStep DEF AnswersInv, Cache!TypeOK, Cache!Versions
<1>a. ASSUME served' = served PROVE \A u \in Urls : ~(served'[u].version < served[u].version)
  BY <1>0, <1>a
<1>1. ASSUME NEW v \in Visitors, NEW u \in Urls, Cache!Hit(v, u) PROVE Goal
  <2>1. entry' = entry /\ entry[u] # NoEntry
    BY <1>0, <1>1 DEF Cache!Hit, Cache!Kept, Cache!TypeOK
  <2>2. /\ served'[u] = [version |-> entry[u].version, late |-> entry[u].late]
        /\ \A x \in Urls : x # u => served'[x] = served[x]
    BY <1>0, <1>1 DEF Cache!Hit, Cache!TypeOK
  <2>3. ReadIsCurrent' /\ Cache!StaleAnswerHasAReason'
    BY <1>0, <1>1, <2>1 DEF Cache!Hit, ReadIsCurrent, Cache!StaleAnswerHasAReason, Cache!Stale
  <2>4. KeptIsSent'
    BY <1>0, <2>1, <2>2 DEF KeptIsSent
  <2>5. \A x \in Urls : served'[x].version < served[x].version => served'[x].late
    BY <1>0, <2>1, <2>2 DEF KeptIsSent
  <2>6. QED
    BY <2>3, <2>4, <2>5
<1>2. ASSUME NEW v \in Visitors, NEW u \in Urls, Cache!Miss(v, u) PROVE Goal
  <2>1. ReadIsCurrent'
    BY <1>0, <1>2 DEF Cache!Miss, ReadIsCurrent, Cache!NoVisit, Cache!TypeOK
  <2>2. QED
    BY <1>0, <1>2, <1>a, <2>1, EntriesKept DEF Cache!Miss
<1>3. ASSUME NEW v \in Visitors, Cache!Read(v) PROVE Goal
  <2>1. ReadIsCurrent'
    BY <1>0, <1>3 DEF Cache!Read, ReadIsCurrent, Cache!TypeOK
  <2>2. QED
    BY <1>0, <1>3, <1>a, <2>1, EntriesKept DEF Cache!Read
<1>4. ASSUME NEW v \in Visitors, Cache!End(v) PROVE Goal
  <2> DEFINE u == visit[v].url
  <2>1. /\ u \in Urls /\ visit[v].version \in 0..stored /\ visit[v].late \in BOOLEAN
        /\ visit[v].late \/ visit[v].version = stored
    BY <1>0, <1>4 DEF Cache!End, Cache!TypeOK, ReadIsCurrent
  <2>2. /\ entry'[u] = [version |-> visit[v].version, left |-> Duration, late |-> visit[v].late]
        /\ \A x \in Urls : x # u => entry'[x] = entry[x]
        /\ served'[u] = [version |-> visit[v].version, late |-> visit[v].late]
        /\ \A x \in Urls : x # u => served'[x] = served[x]
        /\ UNCHANGED <<stored, made, change>>
    BY <1>0, <1>4, <2>1 DEF Cache!End, Cache!TypeOK
  <2> HIDE DEF u
  <2>3. ReadIsCurrent'
    BY <1>0, <1>4 DEF Cache!End, ReadIsCurrent, Cache!TypeOK, Cache!NoVisit
  <2>4. KeptIsSent'
    BY <1>0, <2>1, <2>2 DEF KeptIsSent
  <2>5. Cache!StaleAnswerHasAReason'
    <3>1. SUFFICES ASSUME NEW x \in Urls, Cache!Stale(x)', ~entry'[x].late,
                          NEW n \in (entry'[x].version + 1)..stored, made[n] = "clearing"
                   PROVE  \E w \in Changers : change[w].step = "clear" /\ n > change[w].from
      BY <2>2 DEF Cache!StaleAnswerHasAReason
    <3>2. CASE x = u
      BY <1>0, <2>1, <2>2, <3>1, <3>2 DEF Cache!Stale
    <3>3. CASE x # u
      BY <1>0, <2>2, <3>1, <3>3 DEF Cache!Stale, Cache!StaleAnswerHasAReason
    <3>4. QED
      BY <3>2, <3>3
  <2>6. \A x \in Urls : served'[x].version < served[x].version => served'[x].late
    BY <1>0, <2>1, <2>2
  <2>7. QED
    BY <2>3, <2>4, <2>5, <2>6
<1>5. ASSUME NEW u \in Urls, Cache!Expire(u) PROVE Goal
  <2>1. \A x \in Urls : entry'[x] # NoEntry => entry'[x] = entry[x]
    BY <1>0, <1>5 DEF Cache!Expire, Cache!TypeOK
  <2>2. ReadIsCurrent'
    BY <1>0, <1>5 DEF Cache!Expire, ReadIsCurrent
  <2>3. QED
    BY <1>0, <1>5, <1>a, <2>1, <2>2, EntriesKept DEF Cache!Expire
<1>6. ASSUME NEW u \in Urls, Cache!StrayFires(u) PROVE Goal
  <2>1. \A x \in Urls : entry'[x] # NoEntry => entry'[x] = entry[x]
    BY <1>0, <1>6 DEF Cache!StrayFires, Cache!TypeOK
  <2>2. ReadIsCurrent'
    BY <1>0, <1>6 DEF Cache!StrayFires, ReadIsCurrent
  <2>3. QED
    BY <1>0, <1>6, <1>a, <2>1, <2>2, EntriesKept DEF Cache!StrayFires
<1>7. ASSUME Cache!Elapse PROVE Goal
  <2>1. ASSUME NEW x \in Urls, entry'[x] # NoEntry
        PROVE entry[x] # NoEntry /\ entry'[x].version = entry[x].version /\ entry'[x].late = entry[x].late
    <3>1. entry[x] # NoEntry /\ entry'[x] = [entry[x] EXCEPT !.left = @ - 1]
      BY <1>7, <2>1 DEF Cache!Elapse
    <3>2. entry[x] \in [version : 0..stored, left : 0..Duration, late : BOOLEAN]
      BY <1>0, <3>1 DEF Cache!TypeOK
    <3>3. QED
      BY <3>1, <3>2
  <2>2. ReadIsCurrent'
    BY <1>0, <1>7 DEF Cache!Elapse, ReadIsCurrent
  <2>3. QED
    BY <1>0, <1>7, <1>a, <2>1, <2>2, EntriesKept DEF Cache!Elapse
<1>b. ASSUME Cache!ClearAll, UNCHANGED <<stored, made, visit, served>> PROVE Goal
  <2>1. \A u \in Urls : entry'[u] = NoEntry
    BY <1>b DEF Cache!ClearAll
  <2>2. QED
    BY <1>0, <1>a, <1>b, <2>1 DEF ReadIsCurrent, Cache!StaleAnswerHasAReason, Cache!Stale, KeptIsSent
<1>8. ASSUME NEW w \in Changers, Cache!BeginBeat(w) PROVE Goal
  BY <1>8, <1>b DEF Cache!BeginBeat
<1>9. ASSUME NEW w \in Changers, Cache!ClearChange(w) PROVE Goal
  BY <1>9, <1>b DEF Cache!ClearChange
<1>c. ASSUME entry' = entry, served' = served PROVE KeptIsSent'
  BY <1>0, <1>c DEF KeptIsSent
<1>10. ASSUME NEW w \in Changers, Cache!StoreBeat(w) PROVE Goal
  <2>1. \A x \in Changers : change[x].step = "clear" => change'[x] = [change[x] EXCEPT !.step = "clear"]
    BY <1>0, <1>10 DEF Cache!StoreBeat, Cache!TypeOK
  <2>2. "beat" \in Cache!Kinds /\ "beat" # "clearing"
    BY DEF Cache!Kinds
  <2>3. ReadIsCurrent' /\ Cache!StaleAnswerHasAReason'
    BY <1>0, <1>10, <2>1, <2>2, StoreReasons DEF Cache!StoreBeat
  <2>4. QED
    BY <1>10, <1>a, <1>c, <2>3 DEF Cache!StoreBeat
<1>11. ASSUME NEW w \in Changers, Cache!StoreChange(w) PROVE Goal
  <2>1. \A x \in Changers : change[x].step = "clear" => change'[x] = [change[x] EXCEPT !.step = "clear"]
    BY <1>0, <1>11 DEF Cache!StoreChange, Cache!TypeOK
  <2>2. change'[w].step = "clear" /\ stored + 1 > change'[w].from
    <3>1. change[w].from \in 0..stored
      BY <1>0 DEF Cache!TypeOK
    <3>2. change'[w] = [step |-> "clear", from |-> IF change[w].step = "idle" THEN stored ELSE change[w].from]
      BY <1>0, <1>11 DEF Cache!StoreChange, Cache!TypeOK
    <3>3. QED
      BY <1>0, <3>1, <3>2
  <2>3. ReadIsCurrent' /\ Cache!StaleAnswerHasAReason'
    BY <1>0, <1>11, <2>1, <2>2, StoreReasons DEF Cache!StoreChange, Cache!Kinds
  <2>4. QED
    BY <1>11, <1>a, <1>c, <2>3 DEF Cache!StoreChange
<1>12. ASSUME NEW w \in Changers, Cache!ChangeFails(w) PROVE Goal
  <2>1. /\ \A n \in 1..stored : made'[n] = "clearing" => made[n] = "clearing" /\ ~(n > change[w].from)
        /\ \A x \in Changers : x # w => change'[x] = change[x]
    BY <1>0, <1>12 DEF Cache!ChangeFails, Cache!TypeOK
  <2>2. ASSUME NEW u \in Urls, Cache!Stale(u), ~entry[u].late PROVE Reason(entry[u].version)'
    <3>1. (entry[u].version + 1)..stored \subseteq 1..stored
      BY <1>0, <2>2 DEF Cache!Stale
    <3>2. Reason(entry[u].version)
      BY <1>0, <2>2 DEF Cache!StaleAnswerHasAReason, Reason
    <3>3. PICK old : old = entry[u].version
      OBVIOUS
    <3>4. Reason(old)'
      BY <1>12, <2>1, <3>1, <3>2, <3>3 DEF Reason, Cache!ChangeFails
    <3>5. entry'[u] = entry[u]
      BY <1>12 DEF Cache!ChangeFails
    <3>6. QED
      BY <3>3, <3>4, <3>5
  <2>3. Cache!StaleAnswerHasAReason'
    BY <1>0, <1>12, <2>2 DEF Cache!ChangeFails, Cache!StaleAnswerHasAReason, Cache!Stale, Reason
  <2>4. ReadIsCurrent'
    BY <1>0, <1>12 DEF Cache!ChangeFails, ReadIsCurrent
  <2>5. QED
    BY <1>12, <1>a, <1>c, <2>3, <2>4 DEF Cache!ChangeFails
<1>13. ASSUME Cache!SilentChange PROVE Goal
  <2>1. \A x \in Changers : change[x].step = "clear" => change'[x] = [change[x] EXCEPT !.step = "clear"]
    BY <1>0, <1>13 DEF Cache!SilentChange, Cache!TypeOK
  <2>2. "silent" \in Cache!Kinds /\ "silent" # "clearing"
    BY DEF Cache!Kinds
  <2>3. ReadIsCurrent' /\ Cache!StaleAnswerHasAReason'
    BY <1>0, <1>13, <2>1, <2>2, StoreReasons DEF Cache!SilentChange
  <2>4. QED
    BY <1>13, <1>a, <1>c, <2>3 DEF Cache!SilentChange
<1>14. ASSUME UNCHANGED Cache!cvars PROVE Goal
  BY <1>0, <1>14, <1>a DEF Cache!cvars, ReadIsCurrent, Cache!StaleAnswerHasAReason, Cache!Stale, KeptIsSent
<1>15. QED
  BY <1>1, <1>2, <1>3, <1>4, <1>5, <1>6, <1>7, <1>8, <1>9, <1>10, <1>11, <1>12, <1>13, <1>14 DEF Cache!Next

\* What apicache keeps (memCache.cache, its timers) and the requests and handlers in progress have
\* the types declared for them.
THEOREM AnswerTypes == ASSUME Cache!CacheAssumption PROVE Cache!Spec => []Cache!TypeOK
BY CacheTypeInit, CacheTypeStep, PTL DEF Cache!Spec

\* apicache.clear() is called without a key and after the stores of a handler: an answer that it
\* should have removed was read before a store that overtook it, or a handler that empties the
\* cache is still at work or has failed, for any routes, requests and handlers at once.
THEOREM StaleAnswersHold == ASSUME Cache!CacheAssumption PROVE Cache!Spec => []Cache!StaleAnswerHasAReason
<1>1. AnswersInv /\ [Cache!Next]_(Cache!cvars) => AnswersInv'
  BY AnswersStep
<1>2. AnswersInv => Cache!StaleAnswerHasAReason
  BY DEF AnswersInv
<1>3. QED
  BY <1>1, <1>2, AnswersInit, PTL DEF Cache!Spec

\* makeResponseCacheable() keeps every answer over the one that came meanwhile, so that no visitor
\* is sent an older version than the one sent before, but for an answer that a store overtook.
THEOREM AnswersForward == ASSUME Cache!CacheAssumption PROVE Cache!Spec => Cache!AnswersGoForward
<1>1. AnswersInv /\ [Cache!Next]_(Cache!cvars) => AnswersInv'
  BY AnswersStep
<1>2. AnswersInv /\ [Cache!Next]_(Cache!cvars) =>
        [\A u \in Urls : served'[u].version < served[u].version => served'[u].late]_(Cache!cvars)
  BY AnswersStep
<1>3. QED
  BY <1>1, <1>2, AnswersInit, PTL DEF Cache!Spec, Cache!AnswersGoForward

===============================================================================
