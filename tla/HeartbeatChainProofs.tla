------------------------- MODULE HeartbeatChainProofs -------------------------
(***************************************************************************)
(* Type correctness of HeartbeatChain for every kind of monitor, and for a    *)
(* monitor that is checked by beat() alone and restarted between beats: the   *)
(* retries, the resent notifications and the refinement of Alerting, for any  *)
(* number of retries, resend interval and restarts, upside down or not, with  *)
(* any number of exceptions and crashes at any point.                         *)
(* In the second half, that a browser settles on the status that is stored,   *)
(* in ClientHeartbeats (View), for any number of heartbeats kept and shown.    *)
(***************************************************************************)
EXTENDS HeartbeatChain, SequenceTheorems, TLAPS

\* The checks succeed, fail, or find a maintenance, and nothing writes heartbeats but beat().
PlainChecks ==
  /\ Pushers = {} /\ ~Push /\ ~EditMidBeat
  /\ Results \subseteq {UP, "error", MAINTENANCE}

Busy == stage[current] \in {"alert", "store"}

\* One instance is at work, and no heartbeat overtakes another.
Solo ==
  /\ stage[current] # "off"
  /\ \A s \in Slots : s # current => stage[s] = "off"
  /\ \A w \in Writers : ~outdated[w] /\ earlier[w] = {}

\* What the instance goes on from is what is stored.
Continued ==
  /\ stage[current] = "read" => previous[current] = None
  /\ stage[current] \in InFlight \/ previous[current] # None => previous[current] = lastByTime

\* A heartbeat says how many checks have failed in a row.
Says(beat, n) == beat.retries = Cap(n) /\ (beat.status = DOWN <=> n = MaxRetries + 1)

\* The stored heartbeat says it of the checks that were recorded, the heartbeat being made
\* and the closure of all of them; without a fault they agree.
Counts ==
  /\ IF lastByTime = None THEN kept.streak = 0 ELSE Says(lastByTime, kept.streak)
  /\ Busy => Says(bean[current], streak)
  /\ ~unsure /\ ~Busy => streak = kept.streak
  /\ stage[current] \in InFlight \/ previous[current] # None \/ lastByTime = None
       => retries[current] = Cap(streak)

\* What a heartbeat means for the state that was confirmed: c, after a maintenance m, with n
\* heartbeats unannounced.  PENDING follows DOWN only after a fault.
Means(beat, c, m, n, fault) ==
  /\ beat.status = DOWN => c = "down" /\ ~m /\ (ResendInterval > 0 => n = beat.downCount)
  /\ beat.status = UP => c = "up" /\ ~m
  /\ beat.status = MAINTENANCE => m
  /\ beat.status = PENDING => c # "down" \/ m \/ fault
  /\ ResendInterval > 0 => beat.downCount < ResendInterval

Recorded ==
  IF lastByTime = None THEN kept.confirmed = "unknown" /\ ~kept.muted
  ELSE Means(lastByTime, kept.confirmed, kept.muted, kept.silent, unsure \/ stage[current] = "store")

\* A heartbeat that is about to be announced is a change, or a reminder.
Due(beat) ==
  /\ beat.downCount = 0
  /\ \/ beat.status = UP /\ confirmed = "down" /\ ~muted
     \/ beat.status = DOWN /\ (confirmed # "down" \/ muted \/ ResendInterval > 0 \/ unsure)

\* The consequences of a heartbeat are drawn when it is announced, or found not to be, and
\* recorded when it is stored.
Announced ==
  /\ Recorded
  /\ IF stage[current] = "store" THEN Means(bean[current], confirmed, muted, silent, unsure)
     ELSE confirmed = kept.confirmed /\ muted = kept.muted /\ silent = kept.silent
  /\ stage[current] = "alert" => Due(bean[current])
  /\ ResendInterval > 0 => silent < ResendInterval /\ kept.silent < ResendInterval

IInv == TypeOK /\ Solo /\ Continued /\ Counts /\ Announced

-------------------------------------------------------------------------------
(* What the rules return.                                                      *)

Verdicts == [status : Statuses, retries : 0..MaxRetries]

\* A retry counter stays within its bound.
LEMMA CapBounds == \A n \in Nat : Cap(n) \in 0..MaxRetries /\ (n <= MaxRetries => Cap(n) = n)
BY RulesAssumption DEF Cap

\* beat() gives a heartbeat a status and a count of retries.
LEMMA ResultTypes ==
  ASSUME NEW outcome \in Outcomes, NEW n \in 0..MaxRetries
  PROVE  beatResult(outcome, n) \in Verdicts
<1>1. Cap(n + 1) \in 0..MaxRetries /\ 0 \in 0..MaxRetries /\ n \in Nat
  BY CapBounds, RulesAssumption
<1>2. ~Throws(outcome) => outcome \in Statuses
  BY DEF Throws, Outcomes
<1>3. outcome \in Statuses => flipStatus(outcome) \in Statuses
  BY DEF flipStatus, Statuses
<1>4. CaughtStatus(outcome) \in Statuses /\ {UP, DOWN, PENDING} \subseteq Statuses
  BY DEF CaughtStatus, Statuses
<1>5. \A v : (\E st \in Statuses, r \in 0..MaxRetries : v = [status |-> st, retries |-> r]) => v \in Verdicts
  BY DEF Verdicts
<1>6. QED
  BY <1>1, <1>2, <1>3, <1>4, <1>5 DEF beatResult

\* So does the push route.
LEMMA PushTypes ==
  ASSUME NEW pushed \in {UP, DOWN}, NEW explicit, NEW hasPrev, NEW known, NEW n \in 0..MaxRetries
  PROVE  determineStatus(pushed, explicit, hasPrev, known, n) \in Verdicts
<1> DEFINE status == IF UpsideDown THEN flipStatus(pushed) ELSE pushed
<1>1. Cap(n + 1) \in 0..MaxRetries /\ 0 \in 0..MaxRetries /\ (MaxRetries > 0 => 1 \in 0..MaxRetries)
  BY CapBounds, RulesAssumption
<1>2. status \in Statuses /\ {PENDING, DOWN} \subseteq Statuses
  BY DEF flipStatus, Statuses
<1>3. \A v : (\E st \in Statuses, r \in 0..MaxRetries : v = [status |-> st, retries |-> r]) => v \in Verdicts
  BY DEF Verdicts
<1>4. QED
  BY <1>1, <1>2, <1>3 DEF determineStatus

\* The down count of a heartbeat stays below the interval of reminders.
LEMMA NoticeTypes ==
  ASSUME NEW first, NEW known, NEW status, NEW n \in 0..ResendInterval
  PROVE  /\ beatNotice(first, known, status, n).downCount \in 0..ResendInterval
         /\ pushNotice(first, known, status, n).downCount \in 0..ResendInterval
BY RulesAssumption DEF beatNotice, pushNotice

-------------------------------------------------------------------------------
(* Type correctness.                                                           *)

\* The first state has the types.
LEMMA InitTypes == Init => TypeOK
<1> SUFFICES ASSUME Init PROVE TypeOK
  OBVIOUS
<1>1. current \in Slots
  BY ChainAssumption DEF Init
<1>2. /\ stage \in [Writers -> {"off", "idle", "read"} \cup InFlight]
      /\ \A w \in Writers : stage[w] \in {"off", "idle"}
  BY DEF Init
<1>3. /\ previous \in [Writers -> Beats \cup {None}] /\ bean \in [Writers -> Beats \cup {None}]
      /\ earlier \in [Writers -> SUBSET Writers] /\ outdated \in [Writers -> BOOLEAN]
  BY DEF Init
<1>4. retries \in [Slots -> 0..MaxRetries] /\ restarts \in 0..MaxRestarts
      /\ streak \in 0..(MaxRetries + 1) /\ silent \in 0..ResendInterval /\ quiet \in 0..MaxQuiet
  BY ChainAssumption, RulesAssumption DEF Init
<1>5. kept \in Memories /\ faults \in 0..MaxFaults
  BY ChainAssumption, RulesAssumption DEF Init, Memories
<1>6. QED
  BY <1>1, <1>2, <1>3, <1>4, <1>5 DEF Init, TypeOK

\* Deciding about a heartbeat keeps the types.
LEMMA DecideTypes ==
  ASSUME TypeOK, NEW w \in Writers, NEW verdict \in Verdicts, NEW notice,
         notice.downCount \in 0..ResendInterval, Decide(w, verdict, notice)
  PROVE  /\ bean' \in [Writers -> Beats \cup {None}]
         /\ bean'[w] \in Beats
         /\ stage' \in [Writers -> {"off", "idle", "read"} \cup InFlight]
         /\ stage'[w] \in {"alert", "store"}
         /\ \A v \in Writers : v # w => bean'[v] = bean[v] /\ stage'[v] = stage[v]
         /\ confirmed' \in {"unknown", "up", "down"} /\ muted' \in BOOLEAN /\ unsure' \in BOOLEAN
         /\ silent' \in 0..ResendInterval
<1> DEFINE b == [status |-> verdict.status, retries |-> verdict.retries, downCount |-> notice.downCount]
<1>1. b \in Beats
  BY DEF Verdicts, Beats
<1>2. bean' = [bean EXCEPT ![w] = b]
  BY DEF Decide
<1>3. bean' \in [Writers -> Beats \cup {None}] /\ bean'[w] \in Beats
      /\ \A v \in Writers : v # w => bean'[v] = bean[v]
  BY <1>1, <1>2 DEF TypeOK
<1>4. \E to \in {"alert", "store"} : stage' = [stage EXCEPT ![w] = to]
  BY DEF Decide, Move
<1>5. /\ stage' \in [Writers -> {"off", "idle", "read"} \cup InFlight]
      /\ stage'[w] \in {"alert", "store"}
      /\ \A v \in Writers : v # w => stage'[v] = stage[v]
  BY <1>4 DEF TypeOK, InFlight
<1>6. confirmed' \in {"unknown", "up", "down"} /\ muted' \in BOOLEAN /\ unsure' \in BOOLEAN
  BY DEF Decide, Confirm, drawnVars, TypeOK
<1>7. silent' \in 0..ResendInterval
  BY RulesAssumption DEF Decide, drawnVars, TypeOK
<1>8. QED
  BY <1>3, <1>5, <1>6, <1>7

\* Every action preserves the types.
LEMMA TypeStep == TypeOK /\ [Next]_vars => TypeOK'
<1> SUFFICES ASSUME TypeOK, [Next]_vars PROVE TypeOK'
  OBVIOUS
<1> USE ChainAssumption, RulesAssumption
<1>1. ASSUME NEW s \in Slots, TimerFires(s) PROVE TypeOK'
  <2>1. /\ stage' \in [Writers -> {"off", "idle", "read"} \cup InFlight]
        /\ \A w \in Writers : stage'[w] \in {"alert", "store"} => stage[w] \in {"alert", "store"}
    BY <1>1 DEF TypeOK, TimerFires, Move, Writers, InFlight
  <2>2. earlier' \in [Writers -> SUBSET Writers] /\ outdated' \in [Writers -> BOOLEAN]
    <3>1. {v \in Writers : stage[v] \in InFlight} \in SUBSET Writers /\ s \in Writers
      BY DEF Writers
    <3>2. CASE UNCHANGED orderVars
      BY <3>2 DEF TypeOK, orderVars
    <3>3. CASE Dispense(s)
      BY <3>1, <3>3 DEF TypeOK, Dispense
    <3>4. QED
      BY <1>1, <3>2, <3>3 DEF TimerFires
  <2>3. QED
    BY <1>1, <2>1, <2>2 DEF TypeOK, TimerFires, storedVars, boundVars, historyVars, drawnVars
<1>2. ASSUME NEW s \in Slots, ReadPrevious(s) PROVE TypeOK'
  <2>1. IF lastByTime # None THEN lastByTime.retries \in 0..MaxRetries ELSE TRUE
    BY DEF TypeOK, Beats
  <2>2. retries' \in [Slots -> 0..MaxRetries]
    BY <1>2, <2>1 DEF TypeOK, ReadPrevious
  <2>3. streak' \in 0..(MaxRetries + 1)
    BY <1>2 DEF TypeOK, ReadPrevious, Memories
  <2>4. QED
    BY <1>2, <2>2, <2>3 DEF TypeOK, ReadPrevious, Move, Dispense, Writers, InFlight, storedVars, boundVars, historyVars, drawnVars
<1>3. ASSUME NEW s \in Slots, NEW o \in Results, Conclude(s, o) PROVE TypeOK'
  <2> DEFINE prev    == previous[s]
             verdict == beatResult(o, retries[s])
             notice  == beatNotice(prev = None, IF prev = None THEN None ELSE prev.status,
                                   verdict.status, IF prev = None THEN 0 ELSE prev.downCount)
  <2>1. s \in Writers /\ o \in Outcomes /\ retries[s] \in 0..MaxRetries
    BY DEF TypeOK, Writers
  <2>2. verdict \in Verdicts
    BY <2>1, ResultTypes
  <2>3. IF prev = None THEN TRUE ELSE prev.downCount \in 0..ResendInterval
    BY <2>1 DEF TypeOK, Beats
  <2>4. notice.downCount \in 0..ResendInterval
    <3>1. (IF prev = None THEN 0 ELSE prev.downCount) \in 0..ResendInterval
      BY <2>3
    <3>2. QED
      BY <3>1, NoticeTypes
  <2>5. Decide(s, verdict, notice)
    BY <1>3 DEF Conclude
  <2>6. retries' \in [Slots -> 0..MaxRetries] /\ streak' \in 0..(MaxRetries + 1)
    BY <1>3, <2>2 DEF Conclude, TypeOK, Verdicts
  <2> HIDE DEF verdict, notice
  <2>7. QED
    BY <1>3, <2>1, <2>2, <2>4, <2>5, <2>6, DecideTypes, NoneAssumption
    DEF Conclude, TypeOK, orderVars, storedVars, boundVars
<1>4. ASSUME NEW s \in Slots, PushInTime(s) PROVE TypeOK'
  BY <1>4 DEF TypeOK, PushInTime, Move, Writers, InFlight, orderVars, boundVars, historyVars, drawnVars
<1>5. ASSUME NEW s \in Slots, Restart(s) PROVE TypeOK'
  <2>1. /\ stage' \in [Writers -> {"off", "idle", "read"} \cup InFlight]
        /\ \A w \in Writers : stage'[w] \in {"alert", "store"} => stage[w] \in {"alert", "store"}
    BY <1>5 DEF TypeOK, Restart, Writers
  <2>2. previous' \in [Writers -> Beats \cup {None}] /\ retries' \in [Slots -> 0..MaxRetries]
    BY <1>5 DEF TypeOK, Restart, Writers
  <2>3. streak' \in 0..(MaxRetries + 1) /\ restarts' \in 0..MaxRestarts
    BY <1>5 DEF TypeOK, Restart, Memories
  <2>4. QED
    BY <1>5, <2>1, <2>2, <2>3 DEF TypeOK, Restart, orderVars, storedVars, drawnVars
<1>6. ASSUME NEW p \in Pushers, PushArrives(p) PROVE TypeOK'
  BY <1>6 DEF TypeOK, PushArrives, Move, Dispense, Writers, InFlight, storedVars, boundVars, historyVars, drawnVars
<1>7. ASSUME NEW p \in Pushers, NEW pushed \in {UP, DOWN}, NEW explicit \in BOOLEAN,
             PushConcludes(p, pushed, explicit)
      PROVE TypeOK'
  <2> DEFINE prev    == previous[p]
             first   == prev = None
             verdict == determineStatus(pushed, explicit, ~first, IF first THEN None ELSE prev.status,
                                        IF first THEN 0 ELSE prev.retries)
             muffled == [status |-> MAINTENANCE, retries |-> 0]
             notice(v) == pushNotice(first, IF first THEN None ELSE prev.status, v.status,
                                     IF first THEN 0 ELSE prev.downCount)
  <2>1. p \in Writers
    BY DEF Writers
  <2>2. /\ (IF first THEN 0 ELSE prev.retries) \in 0..MaxRetries
        /\ (IF first THEN 0 ELSE prev.downCount) \in 0..ResendInterval
    BY <2>1 DEF TypeOK, Beats
  <2>3. verdict \in Verdicts
    BY <2>2, PushTypes
  <2>4. muffled \in Verdicts
    BY DEF Verdicts, Statuses
  <2>5. PICK v \in {verdict, muffled} : Decide(p, v, notice(v))
    BY <1>7 DEF PushConcludes
  <2>6. notice(v).downCount \in 0..ResendInterval
    BY <2>2, NoticeTypes
  <2> HIDE DEF verdict, muffled, notice
  <2>7. QED
    BY <1>7, <2>1, <2>3, <2>4, <2>5, <2>6, DecideTypes, NoneAssumption
    DEF PushConcludes, TypeOK, orderVars, storedVars, boundVars
<1>8. ASSUME NEW w \in Writers, Announce(w) PROVE TypeOK'
  <2>1. /\ stage' \in [Writers -> {"off", "idle", "read"} \cup InFlight]
        /\ \A v \in Writers : stage'[v] \in {"alert", "store"} => stage[v] \in {"alert", "store"}
    BY <1>8 DEF TypeOK, Announce, Move, InFlight
  <2>2. confirmed' \in {"unknown", "up", "down"} /\ muted' \in BOOLEAN /\ unsure' \in BOOLEAN
    BY <1>8 DEF TypeOK, Announce
  <2>3. told' \in {"nothing", "up", "down"} /\ parity' \in BOOLEAN /\ silent' \in 0..ResendInterval
    BY <1>8 DEF TypeOK, Announce
  <2>4. QED
    BY <1>8, <2>1, <2>2, <2>3 DEF TypeOK, Announce, orderVars, storedVars, boundVars
<1>9. ASSUME NEW w \in Writers, Store(w) PROVE TypeOK'
  <2>1. bean[w] \in Beats /\ lastByTime' \in Beats \cup {None} /\ lastById' \in Beats \cup {None}
    BY <1>9 DEF TypeOK, Store
  <2>2. earlier' \in [Writers -> SUBSET Writers] /\ outdated' \in [Writers -> BOOLEAN]
    BY <1>9 DEF TypeOK, Store
  <2>3. /\ stage' \in [Writers -> {"off", "idle", "read"} \cup InFlight]
        /\ stage'[w] \notin {"alert", "store"}
        /\ \A v \in Writers : v # w => stage'[v] = stage[v] /\ bean'[v] = bean[v]
        /\ bean' \in [Writers -> Beats \cup {None}]
    BY <1>9 DEF TypeOK, Store, Move, InFlight
  <2>4. previous' \in [Writers -> Beats \cup {None}]
    BY <1>9, <2>1 DEF TypeOK, Store
  <2>5. retries' \in [Slots -> 0..MaxRetries]
    BY <1>9 DEF TypeOK, Store
  <2>6. quiet' \in 0..MaxQuiet
    BY <1>9 DEF TypeOK, Store
  <2>7. kept' \in Memories
    BY <1>9 DEF TypeOK, Store, Memories
  <2>8. QED
    BY <1>9, <2>1, <2>2, <2>3, <2>4, <2>5, <2>6, <2>7 DEF TypeOK, Store, boundVars, drawnVars
<1>10. ASSUME Forget
       PROVE  /\ faults' \in 0..MaxFaults /\ restarts' \in 0..MaxRestarts
              /\ confirmed' \in {"unknown", "up", "down"} /\ muted' \in BOOLEAN
              /\ silent' \in 0..ResendInterval /\ unsure' \in BOOLEAN
              /\ kept' \in Memories /\ kept.streak \in 0..(MaxRetries + 1)
              /\ UNCHANGED <<lastByTime, lastById, quiet, told, parity>>
  BY <1>10 DEF TypeOK, Forget, Memories, storedVars
<1>11. ASSUME NEW w \in Writers, Fail(w) PROVE TypeOK'
  <2>1. Forget
    BY <1>11 DEF Fail
  <2>2. /\ stage' \in [Writers -> {"off", "idle", "read"} \cup InFlight]
        /\ stage'[w] \notin {"alert", "store"}
        /\ \A v \in Writers : v # w => stage'[v] = stage[v] /\ bean'[v] = bean[v]
        /\ bean' \in [Writers -> Beats \cup {None}]
    BY <1>11 DEF TypeOK, Fail, Move, InFlight
  <2>3. previous' \in [Writers -> Beats \cup {None}] /\ retries' \in [Slots -> 0..MaxRetries]
    BY <1>11 DEF TypeOK, Fail
  <2>4. earlier' \in [Writers -> SUBSET Writers] /\ outdated' \in [Writers -> BOOLEAN]
    BY <1>11 DEF TypeOK, Fail
  <2>5. current' \in Slots /\ streak' \in 0..(MaxRetries + 1)
    BY <1>11 DEF TypeOK, Fail
  <2>6. QED
    BY <1>10, <2>1, <2>2, <2>3, <2>4, <2>5 DEF TypeOK
<1>12. ASSUME Crash PROVE TypeOK'
  <2>1. Forget
    BY <1>12 DEF Crash
  <2>2. /\ stage' \in [Writers -> {"off", "idle", "read"} \cup InFlight]
        /\ \A v \in Writers : stage'[v] \notin {"alert", "store"}
        /\ bean' \in [Writers -> Beats \cup {None}] /\ previous' \in [Writers -> Beats \cup {None}]
    BY <1>12 DEF Crash
  <2>3. retries' \in [Slots -> 0..MaxRetries]
    BY <1>12 DEF Crash
  <2>4. earlier' \in [Writers -> SUBSET Writers] /\ outdated' \in [Writers -> BOOLEAN]
    BY <1>12 DEF Crash
  <2>5. current' \in Slots /\ streak' = kept.streak
    BY <1>12 DEF TypeOK, Crash
  <2>6. QED
    BY <1>10, <2>1, <2>2, <2>3, <2>4, <2>5 DEF TypeOK
<1>13. ASSUME UNCHANGED vars PROVE TypeOK'
  BY <1>13 DEF TypeOK, vars, writerVars, orderVars, storedVars, boundVars, historyVars, drawnVars
<1>14. QED
  BY <1>1, <1>2, <1>3, <1>4, <1>5, <1>6, <1>7, <1>8, <1>9, <1>11, <1>12, <1>13
  DEF Next, Finish, PushFinishes

\* Every reachable state has the types of TypeOK, for every kind of monitor.
THEOREM TypeCorrect == Spec => []TypeOK
<1>1. QED
  BY InitTypes, TypeStep, PTL DEF Spec

-------------------------------------------------------------------------------
(* The two routes, and the mirror image.                                       *)

\* Both routes allow the same number of retries (beat() and determineStatus()), but a push
\* of "status=down" allows none.
THEOREM RoutesAllowTheSame == Spec => []PushAgreesWithBeat
<1> USE DEF Straight!determineStatus, Straight!beatResult, Straight!Throws, Straight!CaughtStatus,
            Straight!Cap, Straight!DOWN, Straight!UP, Straight!PENDING,
            Reversed!determineStatus, Reversed!flipStatus, Reversed!Cap, Reversed!DOWN, Reversed!UP,
            Reversed!PENDING, DOWN, UP, PENDING
<1>1. ASSUME NEW first \in BOOLEAN, NEW known, NEW n \in 0..MaxRetries, NEW explicit \in BOOLEAN,
             first => n = 0, ~first => known \in {UP, PENDING}
      PROVE  LET found == Straight!beatResult("error", n).status
             IN /\ Straight!determineStatus(DOWN, explicit, ~first, known, n).status
                     = IF explicit THEN DOWN ELSE found
                /\ Reversed!determineStatus(UP, FALSE, ~first, known, n).status = found
                /\ Reversed!determineStatus(DOWN, TRUE, ~first, known, n).status = UP
  <2>1. Straight!beatResult("error", n).status = IF n < MaxRetries THEN PENDING ELSE DOWN
    BY RulesAssumption
  <2>2. Straight!determineStatus(DOWN, TRUE, ~first, known, n).status = DOWN
    OBVIOUS
  <2>3. Straight!determineStatus(DOWN, FALSE, ~first, known, n).status
          = IF n < MaxRetries THEN PENDING ELSE DOWN
    BY <1>1, RulesAssumption
  <2>4. Reversed!determineStatus(UP, FALSE, ~first, known, n).status
          = IF n < MaxRetries THEN PENDING ELSE DOWN
    BY <1>1, RulesAssumption
  <2>5. Reversed!determineStatus(DOWN, TRUE, ~first, known, n).status = UP
    BY <1>1
  <2>6. QED
    BY <2>1, <2>2, <2>3, <2>4, <2>5
<1>2. TypeOK => PushAgreesWithBeat
  <2> DEFINE first   == lastById = None
             counted == IF first THEN 0 ELSE lastById.retries
             known   == IF first THEN None ELSE lastById.status
  <2> SUFFICES ASSUME TypeOK, first \/ known \in {UP, PENDING}, NEW explicit \in BOOLEAN
               PROVE  LET found == Straight!beatResult("error", counted).status
                      IN /\ Straight!determineStatus(DOWN, explicit, ~first, known, counted).status
                              = IF explicit THEN DOWN ELSE found
                         /\ Reversed!determineStatus(UP, FALSE, ~first, known, counted).status = found
                         /\ Reversed!determineStatus(DOWN, TRUE, ~first, known, counted).status = UP
    BY DEF PushAgreesWithBeat
  <2>1. counted \in 0..MaxRetries /\ (first => counted = 0) /\ first \in BOOLEAN
    BY RulesAssumption DEF TypeOK, Beats
  <2>2. ~first => known \in {UP, PENDING}
    OBVIOUS
  <2> HIDE DEF first, counted, known
  <2>3. QED
    BY <1>1, <2>1, <2>2
<1>3. QED
  BY <1>2, TypeCorrect, PTL

\* Upside-down mode is the mirror image of the other (flipStatus() and the catch block of beat()).
THEOREM UpsideDownMirrors == Spec => []MirrorImage
<1>1. MirrorImage
  BY DEF MirrorImage, Reversed!beatResult, Straight!beatResult, Reversed!Throws, Straight!Throws,
         Reversed!CaughtStatus, Straight!CaughtStatus, Reversed!flipStatus, Straight!flipStatus,
         Reversed!Cap, Straight!Cap, Reversed!UP, Straight!UP, Reversed!DOWN, Straight!DOWN,
         Reversed!PENDING, Straight!PENDING, UP
<1>2. QED
  BY <1>1, PTL

-------------------------------------------------------------------------------
(* Retries, resends and the subscribers of a monitor that beat() alone checks. *)

\* A plain check either fails, and is a retry or DOWN, or starts the count afresh.
LEMMA PlainResult ==
  ASSUME NEW o \in {UP, "error", MAINTENANCE}, NEW n \in 0..MaxRetries
  PROVE  IF Fails(o)
         THEN beatResult(o, n) = [status |-> IF n < MaxRetries THEN PENDING ELSE DOWN,
                                  retries |-> Cap(n + 1)]
         ELSE /\ beatResult(o, n).status \in {UP, MAINTENANCE}
              /\ beatResult(o, n).retries = 0
BY RulesAssumption
DEF Fails, beatResult, Throws, CaughtStatus, flipStatus, UP, DOWN, PENDING, MAINTENANCE

\* One more failure of which the heartbeat counts the retries.
LEMMA OneMore ==
  ASSUME streak \in 0..(MaxRetries + 1),
         streak' = IF streak > MaxRetries THEN streak ELSE streak + 1
  PROVE  /\ Cap(Cap(streak) + 1) = Cap(streak')
         /\ Cap(streak) < MaxRetries <=> streak' # MaxRetries + 1
         /\ Cap(streak) \in 0..MaxRetries
BY RulesAssumption DEF Cap

\* The first state.
LEMMA InitIInv == PlainChecks /\ Init => IInv
<1> SUFFICES ASSUME PlainChecks, Init PROVE IInv
  OBVIOUS
<1>1. TypeOK /\ current \in Slots
  BY InitTypes DEF TypeOK
<1>2. stage[current] = "idle" /\ retries[current] = 0 /\ previous[current] = None
  BY <1>1 DEF Init, Writers
<1>3. Solo
  BY <1>2 DEF Init, Solo, Writers
<1>4. Continued /\ Counts
  BY <1>2, RulesAssumption DEF Init, Continued, Counts, Busy, InFlight, Cap
<1>5. Announced
  BY <1>2 DEF Init, Announced, Recorded
<1>6. QED
  BY <1>1, <1>3, <1>4, <1>5 DEF IInv

\* Whoever is not off is the current instance, and no push is in progress.
LEMMA Alone ==
  ASSUME PlainChecks, IInv
  PROVE  /\ Writers = Slots /\ current \in Slots
         /\ \A w \in Writers : stage[w] # "off" => w = current
         /\ {v \in Writers : stage[v] \in InFlight} \subseteq {current}
BY DEF PlainChecks, IInv, Solo, Writers, TypeOK, InFlight

\* The timer fires.
LEMMA TimerStep ==
  ASSUME PlainChecks, IInv, TypeOK', NEW s \in Slots, TimerFires(s)
  PROVE  IInv'
<1>1. s = current /\ Writers = Slots
  BY Alone DEF TimerFires
<1>2. /\ UNCHANGED <<current, previous, retries, bean, lastByTime, streak, confirmed, muted, silent,
                     kept, unsure>>
      /\ \A w \in Writers : w # current => stage'[w] = stage[w]
      /\ stage[current] = "idle" /\ stage \in [Writers -> {"off", "idle", "read"} \cup InFlight]
  BY <1>1 DEF TimerFires, Move, storedVars, historyVars, drawnVars, IInv, TypeOK
<1>3. \/ stage'[current] = "read" /\ previous[current] = None /\ UNCHANGED orderVars
      \/ stage'[current] = "check" /\ previous[current] # None /\ Dispense(current)
  BY <1>1, <1>2 DEF TimerFires, Move, PlainChecks
<1>4. {v \in Writers : stage[v] \in InFlight} = {}
  BY <1>2, Alone DEF InFlight
<1>5. \A w \in Writers : ~outdated'[w] /\ earlier'[w] = {}
  <2>1. CASE UNCHANGED orderVars
    BY <2>1 DEF IInv, Solo, orderVars
  <2>2. CASE Dispense(current)
    BY <2>2, <1>1, <1>4 DEF Dispense, IInv, Solo, TypeOK
  <2>3. QED
    BY <1>3, <2>1, <2>2
<1>6. Solo'
  BY <1>1, <1>2, <1>3, <1>5 DEF IInv, Solo
<1>7. Continued'
  BY <1>2, <1>3 DEF IInv, Continued, InFlight
<1>8. Counts'
  BY <1>2, <1>3 DEF IInv, Counts, Busy, Says, InFlight
<1>9. Announced'
  BY <1>2, <1>3 DEF IInv, Announced, Recorded, Means
<1>10. QED
  BY <1>6, <1>7, <1>8, <1>9 DEF IInv

\* The previous heartbeat is read back, and with it the retries.
LEMMA ReadStep ==
  ASSUME PlainChecks, IInv, TypeOK', NEW s \in Slots, ReadPrevious(s)
  PROVE  IInv'
<1>1. s = current /\ Writers = Slots
  BY Alone DEF ReadPrevious
<1>2. /\ UNCHANGED <<current, bean, lastByTime, confirmed, muted, silent, kept, unsure>>
      /\ \A w \in Writers : w # current => stage'[w] = stage[w]
      /\ stage[current] = "read" /\ stage'[current] = "check"
      /\ previous'[current] = lastByTime
      /\ streak' = IF lastByTime # None THEN kept.streak ELSE streak
      /\ retries'[current] = IF lastByTime # None THEN lastByTime.retries ELSE retries[current]
      /\ Dispense(current)
  BY <1>1 DEF ReadPrevious, Move, storedVars, drawnVars, IInv, TypeOK
<1>3. {v \in Writers : stage[v] \in InFlight} = {}
  BY <1>2, Alone DEF InFlight
<1>4. \A w \in Writers : ~outdated'[w] /\ earlier'[w] = {}
  BY <1>1, <1>2, <1>3 DEF Dispense, IInv, Solo, TypeOK
<1>5. Solo'
  BY <1>1, <1>2, <1>4 DEF IInv, Solo
<1>6. Continued'
  BY <1>2 DEF Continued, InFlight
<1>7. retries'[current] = Cap(streak')
  <2>1. CASE lastByTime # None
    BY <1>2, <2>1 DEF IInv, Counts, Says
  <2>2. CASE lastByTime = None
    BY <1>2, <2>2 DEF IInv, Counts
  <2>3. QED
    BY <2>1, <2>2
<1>8. Counts'
  BY <1>2, <1>7 DEF IInv, Counts, Busy, Says
<1>9. Announced'
  BY <1>2 DEF IInv, Announced, Recorded, Means
<1>10. QED
  BY <1>5, <1>6, <1>8, <1>9 DEF IInv

\* What a check leads to, in the terms of the invariant.
LEMMA ConcludeFacts ==
  ASSUME PlainChecks, IInv, TypeOK', NEW s \in Slots, NEW o \in Results, Conclude(s, o)
  PROVE  /\ s = current
         /\ stage[current] = "check" /\ stage'[current] \in {"alert", "store"}
         /\ \A w \in Writers : w # current => stage'[w] = stage[w]
         /\ UNCHANGED <<current, previous, orderVars, lastByTime, told, parity, kept, faults>>
         /\ previous[current] = lastByTime
         /\ retries'[current] = bean'[current].retries
         /\ bean'[current] \in Beats
         /\ Says(bean[current], streak)'
         /\ lastByTime # None /\ lastByTime.status = DOWN /\ ~unsure => bean'[current].status # PENDING
<1> DEFINE verdict == beatResult(o, retries[s])
<1>1. s = current /\ Writers = Slots /\ stage[s] = "check"
  BY Alone DEF Conclude
<1>2. /\ retries[s] = Cap(streak) /\ retries[s] \in 0..MaxRetries /\ streak \in 0..(MaxRetries + 1)
      /\ previous[s] = lastByTime
      /\ lastByTime # None /\ ~unsure => Says(lastByTime, streak)
  BY <1>1 DEF IInv, Counts, Continued, Busy, InFlight, TypeOK
<1>3. /\ bean'[s].status = verdict.status /\ bean'[s].retries = verdict.retries
      /\ stage'[s] \in {"alert", "store"} /\ \A w \in Writers : w # s => stage'[w] = stage[w]
      /\ retries'[s] = verdict.retries
  BY <1>1 DEF Conclude, Decide, Move, IInv, TypeOK
<1>4. bean'[s] \in Beats
  BY <1>1, <1>3 DEF TypeOK
<1>5. o \in {UP, "error", MAINTENANCE}
  BY DEF PlainChecks
<1>6. Says(bean[s], streak)'
  <2>1. CASE Fails(o)
    <3>1. streak' = IF streak > MaxRetries THEN streak ELSE streak + 1
      BY <2>1 DEF Conclude
    <3>2. /\ Cap(Cap(streak) + 1) = Cap(streak') /\ Cap(streak) \in 0..MaxRetries
          /\ Cap(streak) < MaxRetries <=> streak' # MaxRetries + 1
      BY <1>2, <3>1, OneMore
    <3>3. verdict = [status |-> IF Cap(streak) < MaxRetries THEN PENDING ELSE DOWN,
                     retries |-> Cap(streak')]
      BY <1>2, <1>5, <2>1, <3>2, PlainResult
    <3>4. QED
      BY <1>3, <3>2, <3>3 DEF Says, PENDING, DOWN
  <2>2. CASE ~Fails(o)
    <3>1. streak' = 0
      BY <2>2 DEF Conclude
    <3>2. verdict.status \in {UP, MAINTENANCE} /\ verdict.retries = 0
      BY <1>2, <1>5, <2>2, PlainResult
    <3>3. Cap(0) = 0 /\ 0 # MaxRetries + 1
      BY RulesAssumption DEF Cap
    <3>4. QED
      BY <1>3, <3>1, <3>2, <3>3 DEF Says, UP, MAINTENANCE, DOWN
  <2>3. QED
    BY <2>1, <2>2
<1>7. lastByTime # None /\ lastByTime.status = DOWN /\ ~unsure => bean'[s].status # PENDING
  <2> SUFFICES ASSUME lastByTime # None, lastByTime.status = DOWN, ~unsure
               PROVE bean'[s].status # PENDING
    OBVIOUS
  <2>1. streak = MaxRetries + 1
    BY <1>2 DEF Says
  <2>2. retries[s] = MaxRetries
    BY <1>2, <2>1, RulesAssumption DEF Cap
  <2>3. ~(MaxRetries < MaxRetries)
    BY RulesAssumption
  <2>4. QED
    BY <1>2, <1>3, <1>5, <2>2, <2>3, PlainResult DEF UP, MAINTENANCE, PENDING, DOWN
<1>8. QED
  BY <1>1, <1>2, <1>3, <1>4, <1>6, <1>7 DEF Conclude, storedVars, boundVars

\* What beat() notifies of, and what it counts.
LEMMA NoticeFacts ==
  ASSUME NEW first \in BOOLEAN, NEW known, NEW status \in Statuses, NEW n \in 0..ResendInterval,
         ~first => known \in Statuses
  PROVE  LET notice == beatNotice(first, known, status, n)
         IN /\ notice.notify => /\ notice.downCount = 0
                                /\ \/ status = DOWN /\ (first \/ known # DOWN \/ ResendInterval > 0)
                                   \/ status = UP /\ ~first /\ known = DOWN
            /\ ~notice.notify /\ status = DOWN =>
                 /\ ~first /\ known = DOWN
                 /\ ResendInterval > 0 => notice.downCount = n + 1 /\ n + 1 < ResendInterval
            /\ ~notice.notify /\ status = UP => first \/ known # DOWN
            /\ ResendInterval > 0 /\ n < ResendInterval => notice.downCount < ResendInterval
BY RulesAssumption
DEF beatNotice, isImportantBeat, isImportantForNotification, Audible, Statuses,
    UP, DOWN, PENDING, MAINTENANCE

\* A check ends: it is announced, or its consequences are drawn at once.
LEMMA ConcludeDraws ==
  ASSUME PlainChecks, IInv, TypeOK', NEW s \in Slots, NEW o \in Results, Conclude(s, o)
  PROVE  Announced' /\ [A!Next]_A!vars
<1> DEFINE prev   == lastByTime
           first  == prev = None
           known  == IF first THEN None ELSE prev.status
           n      == IF first THEN 0 ELSE prev.downCount
           b      == bean'[current]
           notice == beatNotice(first, known, b.status, n)
<1>1. /\ s = current /\ stage[current] = "check"
      /\ UNCHANGED <<current, lastByTime, told, parity, kept, faults>>
      /\ previous[current] = prev /\ b \in Beats
      /\ ~first /\ prev.status = DOWN /\ ~unsure => b.status # PENDING
  BY ConcludeFacts
<1>2. ~first => prev \in Beats
  BY DEF IInv, TypeOK
<1>3. b.status \in Statuses /\ n \in 0..ResendInterval /\ (~first => known \in Statuses)
  BY <1>1, <1>2, RulesAssumption DEF Beats
<1>4. b.downCount = notice.downCount /\ b.status = beatResult(o, retries[s]).status
  <2>1. s \in Writers
    BY DEF Writers
  <2>2. b.status = beatResult(o, retries[s]).status
    BY <1>1, <2>1 DEF Conclude, Decide, IInv, TypeOK
  <2>3. QED
    BY <1>1, <2>1, <2>2 DEF Conclude, Decide, IInv, TypeOK
<1>5. \/ notice.notify /\ stage'[current] = "alert" /\ UNCHANGED drawnVars
      \/ /\ ~notice.notify /\ stage'[current] = "store"
         /\ Confirm(b.status)
         /\ silent' = IF b.status = DOWN /\ silent < ResendInterval THEN silent + 1 ELSE silent
  <2>1. s \in Writers
    BY DEF Writers
  <2>2. QED
    BY <1>1, <1>4, <2>1 DEF Conclude, Decide, Move, IInv, TypeOK
<1>6. /\ notice.notify => /\ notice.downCount = 0
                          /\ \/ b.status = DOWN /\ (first \/ known # DOWN \/ ResendInterval > 0)
                             \/ b.status = UP /\ ~first /\ known = DOWN
      /\ ~notice.notify /\ b.status = DOWN =>
           /\ ~first /\ known = DOWN
           /\ ResendInterval > 0 => notice.downCount = n + 1 /\ n + 1 < ResendInterval
      /\ ~notice.notify /\ b.status = UP => first \/ known # DOWN
      /\ ResendInterval > 0 /\ n < ResendInterval => notice.downCount < ResendInterval
  <2>1. first \in BOOLEAN
    OBVIOUS
  <2> DEFINE status == b.status
  <2>2. status \in Statuses
    BY <1>3
  <2> HIDE DEF first, known, n, b, status
  <2>3. LET r == beatNotice(first, known, status, n)
        IN /\ r.notify => /\ r.downCount = 0
                          /\ \/ status = DOWN /\ (first \/ known # DOWN \/ ResendInterval > 0)
                             \/ status = UP /\ ~first /\ known = DOWN
           /\ ~r.notify /\ status = DOWN =>
                /\ ~first /\ known = DOWN
                /\ ResendInterval > 0 => r.downCount = n + 1 /\ n + 1 < ResendInterval
           /\ ~r.notify /\ status = UP => first \/ known # DOWN
           /\ ResendInterval > 0 /\ n < ResendInterval => r.downCount < ResendInterval
    BY <1>3, <2>1, <2>2, NoticeFacts
  <2>4. QED
    BY <2>3 DEF status
<1>7. /\ IF first THEN confirmed = "unknown" /\ ~muted ELSE Means(prev, confirmed, muted, silent, unsure)
      /\ confirmed = kept.confirmed /\ muted = kept.muted /\ silent = kept.silent
      /\ ResendInterval > 0 => silent < ResendInterval
  BY <1>1 DEF IInv, Announced, Recorded, Means
<1>8. /\ confirmed \in {"unknown", "up", "down"} /\ muted \in BOOLEAN /\ unsure \in BOOLEAN
      /\ silent \in 0..ResendInterval
  BY DEF IInv, TypeOK
<1>9. /\ UNCHANGED unsure => Recorded'
      /\ stage'[current] = "store" => Recorded'
  <2>1. CASE first
    BY <1>1, <2>1 DEF IInv, Announced, Recorded
  <2>2. CASE ~first
    BY <1>1, <2>2 DEF IInv, Announced, Recorded, Means
  <2>3. QED
    BY <2>1, <2>2
<1> HIDE DEF notice
<1>10. CASE notice.notify
  <2>1. stage'[current] = "alert" /\ UNCHANGED drawnVars
    BY <1>5, <1>10
  <2>2. Due(bean[current])'
    <3>1. b.downCount = 0
      BY <1>4, <1>6, <1>10
    <3>2. CASE b.status = DOWN /\ (first \/ known # DOWN \/ ResendInterval > 0)
      BY <1>1, <1>3, <1>7, <2>1, <3>1, <3>2 DEF Due, Means, Statuses, drawnVars
    <3>3. CASE b.status = UP /\ ~first /\ known = DOWN
      BY <1>1, <1>7, <2>1, <3>1, <3>3 DEF Due, Means, drawnVars
    <3>4. QED
      BY <1>6, <1>10, <3>2, <3>3
  <2>3. Announced'
    BY <1>1, <1>7, <1>9, <2>1, <2>2 DEF Announced, drawnVars
  <2>4. UNCHANGED A!vars
    BY <1>1, <2>1 DEF A!vars, drawnVars
  <2>5. QED
    BY <2>3, <2>4
<1>11. CASE ~notice.notify
  <2>1. /\ stage'[current] = "store" /\ Confirm(b.status)
        /\ silent' = IF b.status = DOWN /\ silent < ResendInterval THEN silent + 1 ELSE silent
    BY <1>5, <1>11
  <2>2. ResendInterval > 0 => b.downCount < ResendInterval
    BY <1>2, <1>4, <1>6, <1>7 DEF Means
  <2>3. A!OnRecord
    BY <1>1, <1>7 DEF A!OnRecord
  <2>4. CASE b.status = DOWN
    <3>1. ~first /\ prev.status = DOWN /\ confirmed = "down" /\ ~muted
      BY <1>6, <1>7, <1>11, <2>4 DEF Means
    <3>2. UNCHANGED <<confirmed, muted, unsure>>
      BY <1>8, <2>1, <2>4, <3>1 DEF Confirm, DOWN, UP, PENDING, MAINTENANCE
    <3>3. ResendInterval > 0 => silent' = b.downCount
      BY <1>3, <1>4, <1>6, <1>7, <1>8, <1>11, <2>1, <2>4, <3>1 DEF Means
    <3>4. Means(b, confirmed', muted', silent', unsure')
      BY <2>2, <2>4, <3>1, <3>2, <3>3 DEF Means, DOWN, UP, PENDING, MAINTENANCE
    <3>5. Announced'
      BY <1>1, <1>7, <1>9, <2>1, <2>2, <3>3, <3>4 DEF Announced
    <3>6. QED
      BY <1>1, <3>2, <3>5 DEF A!vars
  <2>5. CASE b.status = UP
    <3>1. confirmed' = "up" /\ muted' = FALSE /\ unsure' = FALSE /\ silent' = silent
      BY <2>1, <2>5 DEF Confirm, DOWN, UP, PENDING, MAINTENANCE
    <3>2. Means(b, confirmed', muted', silent', unsure')
      BY <2>2, <2>5, <3>1 DEF Means, DOWN, UP, PENDING, MAINTENANCE
    <3>3. Announced'
      BY <1>1, <1>7, <1>9, <2>1, <3>1, <3>2 DEF Announced
    <3>4. confirmed # "down" \/ muted \/ unsure
      BY <1>3, <1>6, <1>7, <1>11, <2>5 DEF Means, Statuses
    <3>5. A!Settle \/ UNCHANGED A!vars
      BY <1>1, <1>8, <2>3, <3>1, <3>4 DEF A!Settle, A!Silent, A!vars
    <3>6. QED
      BY <3>3, <3>5 DEF A!Next
  <2>6. CASE b.status = MAINTENANCE
    <3>1. muted' = TRUE /\ UNCHANGED <<confirmed, unsure, silent>>
      BY <1>8, <2>1, <2>6 DEF Confirm, DOWN, UP, MAINTENANCE
    <3>2. Means(b, confirmed', muted', silent', unsure')
      BY <2>2, <2>6, <3>1 DEF Means, DOWN, UP, PENDING, MAINTENANCE
    <3>3. Announced'
      BY <1>1, <1>7, <1>9, <2>1, <3>1, <3>2 DEF Announced
    <3>4. A!Maintain
      BY <1>1, <2>3, <3>1 DEF A!Maintain, A!Silent
    <3>5. QED
      BY <3>3, <3>4 DEF A!Next
  <2>7. CASE b.status = PENDING
    <3>1. UNCHANGED <<confirmed, muted, unsure, silent>>
      BY <1>8, <2>1, <2>7 DEF Confirm, DOWN, UP, MAINTENANCE, PENDING
    <3>2. confirmed # "down" \/ muted \/ unsure
      BY <1>1, <1>3, <1>7, <2>7 DEF Means, Statuses
    <3>3. Means(b, confirmed', muted', silent', unsure')
      BY <2>2, <2>7, <3>1, <3>2 DEF Means, DOWN, UP, PENDING, MAINTENANCE
    <3>4. Announced'
      BY <1>1, <1>7, <1>9, <2>1, <3>1, <3>3 DEF Announced
    <3>5. QED
      BY <1>1, <3>1, <3>4 DEF A!vars
  <2>8. QED
    BY <1>3, <2>4, <2>5, <2>6, <2>7 DEF Statuses
<1>12. QED
  BY <1>10, <1>11

\* A check ends.
LEMMA ConcludeStep ==
  ASSUME PlainChecks, IInv, TypeOK', NEW s \in Slots, NEW o \in Results, Conclude(s, o)
  PROVE  IInv'
<1>1. /\ s = current
      /\ stage[current] = "check" /\ stage'[current] \in {"alert", "store"}
      /\ \A w \in Writers : w # current => stage'[w] = stage[w]
      /\ UNCHANGED <<current, previous, orderVars, lastByTime, kept>>
      /\ previous[current] = lastByTime
      /\ retries'[current] = bean'[current].retries
      /\ Says(bean[current], streak)'
  BY ConcludeFacts
<1>2. Solo'
  BY <1>1, Alone DEF IInv, Solo, orderVars
<1>3. Continued'
  BY <1>1 DEF Continued
<1>4. Counts'
  BY <1>1 DEF IInv, Counts, Busy, Says
<1>5. Announced'
  BY ConcludeDraws
<1>6. QED
  BY <1>2, <1>3, <1>4, <1>5 DEF IInv

\* The subscribers are told.
LEMMA AnnounceStep ==
  ASSUME PlainChecks, IInv, TypeOK', NEW w \in Writers, Announce(w)
  PROVE  IInv' /\ A!Next
<1> DEFINE b == bean[current]
<1>1. /\ w = current /\ stage[current] = "alert" /\ stage'[current] = "store"
      /\ \A v \in Writers : v # current => stage'[v] = stage[v]
      /\ UNCHANGED <<current, previous, retries, bean, orderVars, lastByTime, streak, kept, faults>>
      /\ told' = (IF b.status = UP THEN "up" ELSE "down") /\ parity' = ~parity
      /\ confirmed' = told' /\ muted' = FALSE /\ unsure' = FALSE /\ silent' = 0
  BY Alone DEF Announce, Move, IInv, TypeOK, storedVars, boundVars
<1>2. Due(b) /\ Recorded /\ confirmed = kept.confirmed /\ muted = kept.muted
      /\ (ResendInterval > 0 => kept.silent < ResendInterval)
  BY <1>1 DEF IInv, Announced
<1>3. confirmed \in {"unknown", "up", "down"} /\ muted \in BOOLEAN
  BY DEF IInv, TypeOK
<1>4. Solo' /\ Continued' /\ Counts'
  <2>1. Solo'
    BY <1>1, Alone DEF IInv, Solo, orderVars
  <2>2. Continued'
    BY <1>1 DEF IInv, Continued, InFlight
  <2>3. Counts'
    BY <1>1 DEF IInv, Counts, Busy, Says, InFlight
  <2>4. QED
    BY <2>1, <2>2, <2>3
<1>5. Recorded'
  <2>1. CASE lastByTime = None
    BY <1>1, <1>2, <2>1 DEF Recorded
  <2>2. CASE lastByTime # None
    BY <1>1, <1>2, <2>2 DEF Recorded, Means
  <2>3. QED
    BY <2>1, <2>2
<1>6. Means(b, confirmed', muted', silent', unsure') => Announced'
  BY <1>1, <1>2, <1>5 DEF Announced
<1>7. A!OnRecord
  BY <1>1, <1>2 DEF A!OnRecord
<1>8. CASE b.status = UP
  <2>1. confirmed = "down" /\ ~muted
    BY <1>2, <1>8 DEF Due, UP, DOWN
  <2>2. confirmed' = "up" /\ told' = "up"
    BY <1>1, <1>8
  <2>3. Means(b, confirmed', muted', silent', unsure')
    BY <1>1, <1>2, <1>8, <2>2 DEF Means, Due, UP, DOWN, PENDING, MAINTENANCE
  <2>4. A!Recover
    BY <1>1, <1>3, <1>7, <2>1, <2>2 DEF A!Recover, A!Announce
  <2>5. QED
    BY <1>4, <1>6, <2>3, <2>4 DEF IInv, A!Next
<1>9. CASE b.status = DOWN
  <2>1. confirmed' = "down" /\ told' = "down"
    BY <1>1, <1>9 DEF UP, DOWN
  <2>2. Means(b, confirmed', muted', silent', unsure')
    BY <1>1, <1>2, <1>9, <2>1 DEF Means, Due, UP, DOWN, PENDING, MAINTENANCE
  <2>3. confirmed # "down" \/ muted \/ ResendInterval > 0 \/ unsure
    BY <1>2, <1>9 DEF Due, UP, DOWN
  <2>4. A!Alarm \/ A!Remind
    BY <1>1, <1>3, <1>7, <2>1, <2>3 DEF A!Alarm, A!Remind, A!Announce
  <2>5. QED
    BY <1>4, <1>6, <2>2, <2>4 DEF IInv, A!Next
<1>10. QED
  BY <1>2, <1>8, <1>9 DEF Due

\* The heartbeat is stored.
LEMMA StoreStep ==
  ASSUME PlainChecks, IInv, TypeOK', NEW w \in Writers, Store(w)
  PROVE  IInv' /\ A!Keep
<1>1. w = current /\ Writers = Slots /\ stage[current] = "store"
  BY Alone DEF Store
<1>2. /\ stage'[current] = "idle" /\ \A v \in Writers : v # current => stage'[v] = stage[v]
      /\ previous'[current] = bean[current] /\ bean[current] \in Beats
      /\ lastByTime' = bean[current]
      /\ kept' = [confirmed |-> confirmed, muted |-> muted, silent |-> silent, streak |-> streak]
      /\ UNCHANGED <<current, faults, streak, confirmed, muted, silent, unsure, told, parity>>
  BY <1>1 DEF Store, Move, IInv, TypeOK, Solo, boundVars, drawnVars
<1>3. retries'[current] = retries[current]
  BY <1>1 DEF Store, IInv, TypeOK
<1>4. \A v \in Writers : ~outdated'[v] /\ earlier'[v] = {}
  BY <1>1 DEF Store, IInv, Solo
<1>5. bean[current] # None
  BY <1>2, NoneAssumption
<1>6. Solo'
  BY <1>1, <1>2, <1>4 DEF IInv, Solo
<1>7. Continued'
  BY <1>2, <1>5 DEF Continued, InFlight
<1>8. Says(bean[current], streak) /\ retries[current] = Cap(streak)
  BY <1>1 DEF IInv, Counts, Busy, InFlight
<1>9. Counts'
  BY <1>2, <1>3, <1>5, <1>8 DEF Counts, Busy, Says
<1>10. Announced'
  BY <1>1, <1>2, <1>5 DEF IInv, Announced, Recorded, Means
<1>11. A!Keep
  BY <1>2 DEF A!Keep, A!Silent
<1>12. QED
  BY <1>6, <1>7, <1>9, <1>10, <1>11 DEF IInv

\* What was recorded is gone on from, however far beat() had come.
LEMMA ForgetFacts ==
  ASSUME IInv, Forget, UNCHANGED current, stage'[current] = "idle"
  PROVE  Announced' /\ A!Lapse
<1>1. /\ confirmed' = kept.confirmed /\ muted' = kept.muted /\ silent' = kept.silent /\ unsure' = TRUE
      /\ faults' = faults + 1
      /\ UNCHANGED <<lastByTime, told, parity, kept>>
  BY DEF Forget, storedVars
<1>2. Recorded'
  <2>1. CASE lastByTime = None
    BY <1>1, <2>1 DEF IInv, Announced, Recorded
  <2>2. CASE lastByTime # None
    BY <1>1, <2>2 DEF IInv, Announced, Recorded, Means
  <2>3. QED
    BY <2>1, <2>2
<1>3. Announced'
  BY <1>1, <1>2 DEF IInv, Announced
<1>4. A!Lapse
  BY <1>1 DEF A!Lapse, A!Silent
<1>5. QED
  BY <1>3, <1>4

\* beat() throws and is tried again.
LEMMA FailStep ==
  ASSUME PlainChecks, IInv, TypeOK', NEW w \in Writers, Fail(w)
  PROVE  IInv' /\ A!Lapse
<1>1. w = current /\ Writers = Slots /\ stage[current] \in {"read"} \cup InFlight
  BY Alone DEF Fail, InFlight
<1>2. /\ stage'[current] = "idle" /\ \A v \in Writers : v # current => stage'[v] = stage[v]
      /\ previous'[current] = previous[current] /\ retries'[current] = retries[current]
      /\ UNCHANGED <<current, streak, lastByTime, kept>>
      /\ unsure' = TRUE /\ Forget
  BY <1>1 DEF Fail, Forget, Move, IInv, TypeOK, storedVars
<1>3. \A v \in Writers : ~outdated'[v] /\ earlier'[v] = {}
  BY <1>1 DEF Fail, IInv, Solo, TypeOK
<1>4. Solo'
  BY <1>1, <1>2, <1>3 DEF IInv, Solo
<1>5. Continued'
  BY <1>1, <1>2 DEF IInv, Continued, InFlight
<1>6. Counts'
  BY <1>1, <1>2 DEF IInv, Continued, Counts, Busy, Says, InFlight
<1>7. Announced' /\ A!Lapse
  BY <1>2, ForgetFacts
<1>8. QED
  BY <1>4, <1>5, <1>6, <1>7 DEF IInv

\* The process dies and starts again.
LEMMA CrashStep ==
  ASSUME PlainChecks, IInv, TypeOK', Crash
  PROVE  IInv' /\ A!Lapse
<1>1. /\ current \in Slots /\ Writers = Slots
      /\ stage'[current] = "idle" /\ \A v \in Writers : v # current => stage'[v] = "off"
      /\ previous'[current] = None /\ retries'[current] = 0
      /\ UNCHANGED <<current, lastByTime, kept>>
      /\ streak' = kept.streak /\ unsure' = TRUE /\ Forget
  BY Alone DEF Crash, Forget, storedVars
<1>2. Solo'
  BY <1>1 DEF Crash, Solo
<1>3. Continued'
  BY <1>1 DEF Continued, InFlight
<1>4. Counts'
  BY <1>1, RulesAssumption DEF IInv, Counts, Busy, Says, InFlight, Cap
<1>5. Announced' /\ A!Lapse
  BY <1>1, ForgetFacts
<1>6. QED
  BY <1>2, <1>3, <1>4, <1>5 DEF IInv

\* The monitor is restarted between two beats.
LEMMA RestartStep ==
  ASSUME PlainChecks, IInv, TypeOK', NEW s \in Slots, Restart(s)
  PROVE  IInv' /\ UNCHANGED A!vars
<1>1. /\ current' = s /\ s # current /\ stage[current] = "idle" /\ Writers = Slots /\ current \in Slots
      /\ UNCHANGED <<bean, orderVars, lastByTime, confirmed, muted, silent, unsure, kept, faults, told,
                     parity>>
      /\ streak' = kept.streak
  BY Alone DEF Restart, PlainChecks, storedVars, drawnVars
<1>2. /\ stage'[s] = "idle" /\ stage'[current] = "off"
      /\ \A v \in Writers : v # current /\ v # s => stage'[v] = stage[v]
      /\ previous'[s] = None /\ retries'[s] = 0
  BY <1>1 DEF Restart, IInv, TypeOK
<1>3. Solo'
  BY <1>1, <1>2 DEF IInv, Solo, orderVars
<1>4. Continued'
  BY <1>1, <1>2 DEF Continued, InFlight
<1>5. Counts'
  BY <1>1, <1>2, RulesAssumption DEF IInv, Counts, Busy, Says, InFlight, Cap
<1>6. Announced'
  BY <1>1, <1>2 DEF IInv, Announced, Recorded, Means
<1>7. QED
  BY <1>1, <1>3, <1>4, <1>5, <1>6 DEF IInv, A!vars

\* IInv is inductive, and every step is one of Alerting or none.
LEMMA IInvStep ==
  ASSUME PlainChecks, IInv, [Next]_vars
  PROVE  IInv' /\ [A!Next]_A!vars
<1>1. TypeOK'
  BY TypeStep DEF IInv
<1>2. ASSUME NEW s \in Slots, TimerFires(s) PROVE IInv' /\ UNCHANGED A!vars
  BY <1>1, <1>2, TimerStep DEF TimerFires, boundVars, drawnVars, historyVars, A!vars
<1>3. ASSUME NEW s \in Slots, ReadPrevious(s) PROVE IInv' /\ UNCHANGED A!vars
  BY <1>1, <1>3, ReadStep DEF ReadPrevious, boundVars, drawnVars, A!vars
<1>4. ASSUME NEW s \in Slots, NEW o \in Results, Conclude(s, o) PROVE IInv' /\ [A!Next]_A!vars
  BY <1>1, <1>4, ConcludeStep, ConcludeDraws
<1>5. ASSUME NEW s \in Slots, PushInTime(s) PROVE FALSE
  BY <1>5 DEF PushInTime, PlainChecks
<1>6. ASSUME NEW s \in Slots, Restart(s) PROVE IInv' /\ UNCHANGED A!vars
  BY <1>1, <1>6, RestartStep
<1>7. ASSUME NEW w \in Writers, Announce(w) PROVE IInv' /\ A!Next
  BY <1>1, <1>7, AnnounceStep
<1>8. ASSUME NEW w \in Writers, Store(w) PROVE IInv' /\ A!Next
  BY <1>1, <1>8, StoreStep DEF A!Next
<1>9. ASSUME NEW w \in Writers, Fail(w) PROVE IInv' /\ A!Next
  BY <1>1, <1>9, FailStep DEF A!Next
<1>10. ASSUME Crash PROVE IInv' /\ A!Next
  BY <1>1, <1>10, CrashStep DEF A!Next
<1>11. ASSUME UNCHANGED vars PROVE IInv' /\ UNCHANGED A!vars
  <2>1. UNCHANGED <<stage, previous, retries, bean, current, earlier, outdated, lastByTime, confirmed,
                    muted, streak, silent, kept, unsure>>
    BY <1>11 DEF vars, writerVars, orderVars, storedVars, drawnVars, historyVars
  <2>2. Solo' /\ Continued' /\ Counts'
    BY <2>1 DEF IInv, Solo, Continued, Counts, Busy, Says
  <2>3. Announced'
    BY <2>1 DEF IInv, Announced, Recorded, Means, Due
  <2>4. UNCHANGED A!vars
    BY <1>11 DEF vars, boundVars, drawnVars, historyVars, A!vars
  <2>5. QED
    BY <1>1, <2>2, <2>3, <2>4 DEF IInv
<1>12. Pushers = {}
  BY DEF PlainChecks
<1>13. QED
  BY <1>2, <1>3, <1>4, <1>5, <1>6, <1>7, <1>8, <1>9, <1>10, <1>11, <1>12 DEF Next, Finish

\* DOWN comes exactly with the (MaxRetries + 1)st failed check in a row, whatever restarts,
\* crashes and exceptions fell between: the retries of beat() survive in the database
\* (model/monitor.js, start()).
THEOREM RetriesSurviveRestarts ==
  ASSUME PlainChecks
  PROVE  Spec => []DownAfterRetries
<1>1. Init => IInv
  BY InitIInv
<1>2. IInv /\ [Next]_vars => IInv'
  BY IInvStep
<1>3. IInv => DownAfterRetries
  <2> SUFFICES ASSUME IInv, NEW s \in Slots, stage[s] \in {"alert", "store"}
               PROVE bean[s].status = DOWN <=> streak = MaxRetries + 1
    BY DEF DownAfterRetries
  <2>1. s = current
    BY DEF IInv, Solo
  <2>2. QED
    BY <2>1 DEF IInv, Counts, Busy, Says
<1>4. QED
  BY <1>1, <1>2, <1>3, PTL DEF Spec

\* During an outage the down count of the heartbeats reaches no ResendInterval without a
\* notification, across restarts, crashes and exceptions.
THEOREM RemindersInTime ==
  ASSUME PlainChecks
  PROVE  Spec => []ReminderSpacing
<1>1. Init => IInv
  BY InitIInv
<1>2. IInv /\ [Next]_vars => IInv'
  BY IInvStep
<1>3. IInv => ReminderSpacing
  BY DEF IInv, Announced, ReminderSpacing
<1>4. QED
  BY <1>1, <1>2, <1>3, PTL DEF Spec

\* beat() implements the promise to the subscribers: every change of the confirmed state is
\* announced once, no state is announced that is not confirmed, and none of it is lost or
\* repeated by retries, maintenances, resends and restarts.  beat() announces before it
\* stores: an exception or a crash in between is the one thing after which an announcement
\* may be made again, or a recovery be silent.
THEOREM BeatImplementsAlerting ==
  ASSUME PlainChecks
  PROVE  Spec => ImplementsAlerting
<1>1. Init => IInv
  BY InitIInv
<1>2. Init => A!Init
  <2> SUFFICES ASSUME Init PROVE A!Init
    OBVIOUS
  <2>1. kept.confirmed = confirmed /\ kept.muted = muted
    BY DEF Init
  <2>2. <<kept.confirmed, kept.muted>> = <<confirmed, muted>>
    BY <2>1
  <2>3. QED
    BY <2>2 DEF Init, A!Init
<1>3. IInv /\ [Next]_vars => IInv' /\ [A!Next]_A!vars
  BY IInvStep
<1>4. QED
  BY <1>1, <1>2, <1>3, PTL DEF Spec, ImplementsAlerting, A!Spec

-------------------------------------------------------------------------------
(* The second half: what a browser shows of the heartbeats.                     *)

CONSTANTS
  HistoryLimit, ShownLimit,  \* lengths of a history and of what is shown
  MaxBeats, MaxLosses, MaxClears

VARIABLES
  sent, stored, storing,  \* the heartbeats 1..sent, the table, the last is not in it yet
  socket,    \* how many the browser had, and whether it is connected
  channel,   \* messages on the way
  history,   \* the logins
  clear, clears,  \* the handler of clearHeartbeats, how often it was called
  shown,     \* what the browser shows
  missed, wiped, twice  \* history: heartbeats sent too early, overwritten, sent between

View == INSTANCE ClientHeartbeats

-------------------------------------------------------------------------------
(* Sequences of heartbeats.                                                     *)

\* The last heartbeat of a list, 0 if it is empty.
LEMMA LastOfList ==
  ASSUME NEW n \in Nat, NEW s \in Seq(1..n)
  PROVE  View!LastOf(s) \in 0..n /\ (View!LastOf(s) = 0 <=> s = <<>>)
<1>1. CASE s = <<>>
  BY <1>1 DEF View!LastOf
<1>2. CASE s # <<>>
  <2>1. Len(s) \in Nat /\ Len(s) > 0
    BY <1>2, EmptySeq, LenProperties
  <2>2. s[Len(s)] \in 1..n
    BY <2>1, ElementOfSeq
  <2>3. QED
    BY <1>2, <2>2 DEF View!LastOf
<1>3. QED
  BY <1>1, <1>2

LEMMA LastOfConcat ==
  ASSUME NEW n \in Nat, NEW s \in Seq(1..n), NEW t \in Seq(1..n)
  PROVE  /\ s \o t \in Seq(1..n)
         /\ View!LastOf(s \o t) = IF t = <<>> THEN View!LastOf(s) ELSE View!LastOf(t)
<1>1. /\ s \o t \in Seq(1..n)
      /\ Len(s \o t) = Len(s) + Len(t)
      /\ \A i \in 1 .. Len(s) + Len(t) : (s \o t)[i] = IF i <= Len(s) THEN s[i] ELSE t[i - Len(s)]
  BY ConcatProperties
<1>2. CASE t = <<>>
  BY <1>1, <1>2, ConcatEmptySeq
<1>3. CASE t # <<>>
  <2>1. Len(s) \in Nat /\ Len(t) \in Nat /\ Len(t) > 0
    BY <1>3, EmptySeq, LenProperties
  <2>2. s \o t # <<>>
    BY <1>3, ConcatEqualIffEmpty
  <2>3. (s \o t)[Len(s \o t)] = t[Len(t)]
    BY <1>1, <2>1
  <2>4. QED
    BY <1>1, <1>3, <2>2, <2>3 DEF View!LastOf
<1>4. QED
  BY <1>2, <1>3

LEMMA LastOfTail ==
  ASSUME NEW n \in Nat, NEW s \in Seq(1..n), Len(s) > 1
  PROVE  Tail(s) \in Seq(1..n) /\ View!LastOf(Tail(s)) = View!LastOf(s)
<1>1. s # <<>> /\ Len(s) \in Nat
  BY EmptySeq, LenProperties
<1>2. /\ Tail(s) \in Seq(1..n) /\ Len(Tail(s)) = Len(s) - 1
      /\ \A i \in 1..Len(Tail(s)) : Tail(s)[i] = s[i + 1]
  BY <1>1, HeadTailProperties
<1>3. Tail(s) # <<>> /\ Tail(s)[Len(Tail(s))] = s[Len(s)]
  <2> DEFINE last == Len(Tail(s))
  <2>1. last \in 1..Len(Tail(s)) /\ last + 1 = Len(s)
    BY <1>1, <1>2
  <2>2. Tail(s)[last] = s[last + 1]
    BY <1>2, <2>1
  <2>3. Tail(s) # <<>>
    <3>1. Len(Tail(s)) > 0 /\ Len(<<>>) = 0
      BY <1>1, <1>2
    <3>2. QED
      BY <3>1
  <2>4. QED
    BY <2>1, <2>2, <2>3
<1>4. QED
  BY <1>1, <1>2, <1>3 DEF View!LastOf

LEMMA LastOfOne == ASSUME NEW n \in Nat \ {0} PROVE <<n>> \in Seq(1..n) /\ View!LastOf(<<n>>) = n
<1>1. <<n>> \in Seq(1..n) /\ Len(<<n>>) = 1 /\ <<n>> # <<>> /\ <<n>>[1] = n
  OBVIOUS
<1>2. QED
  BY <1>1 DEF View!LastOf

\* More heartbeats make no list wrong.
LEMMA ListsGrow ==
  ASSUME NEW n \in Nat, NEW s \in Seq(1..n)
  PROVE  s \in Seq(1..(n + 1))
  BY SeqMonotonic, 1..n \subseteq 1..(n + 1)

LEMMA NewestIsLast ==
  ASSUME View!HeartbeatsAssumption, sent \in Nat, stored \in Seq(1..sent)
  PROVE  /\ View!Newest \in Seq(1..sent)
         /\ View!LastOf(View!Newest) = View!LastOf(stored)
         /\ \A i \in DOMAIN View!Newest : \E j \in DOMAIN stored : View!Newest[i] = stored[j]
<1> DEFINE lo == IF Len(stored) > HistoryLimit THEN Len(stored) - HistoryLimit + 1 ELSE 1
<1>1. Len(stored) \in Nat /\ DOMAIN stored = 1..Len(stored)
  BY LenProperties
<1>2. lo \in Int /\ lo > 0 /\ (Len(stored) > 0 => lo <= Len(stored)) /\ (Len(stored) = 0 => lo = 1)
  BY <1>1 DEF View!HeartbeatsAssumption
<1>3. View!Newest = SubSeq(stored, lo, Len(stored))
  BY DEF View!Newest
<1>4. \A i \in lo..Len(stored) : stored[i] \in 1..sent
  BY <1>1, <1>2, ElementOfSeq
<1> HIDE DEF lo
<1>5. /\ View!Newest \in Seq(1..sent)
      /\ Len(View!Newest) = IF lo <= Len(stored) THEN Len(stored) - lo + 1 ELSE 0
      /\ \A i \in 1..(Len(stored) - lo + 1) : View!Newest[i] = stored[lo + i - 1]
  BY <1>1, <1>2, <1>3, <1>4, SubSeqProperties
<1>6. DOMAIN View!Newest = 1..Len(View!Newest)
  BY <1>5, LenProperties
<1>7. \A i \in DOMAIN View!Newest : \E j \in DOMAIN stored : View!Newest[i] = stored[j]
  <2> TAKE i \in DOMAIN View!Newest
  <2>0. i \in 1..Len(View!Newest) /\ lo <= Len(stored)
    BY <1>1, <1>2, <1>5, <1>6
  <2>1. i \in 1..(Len(stored) - lo + 1)
    BY <1>5, <2>0
  <2>2. lo + i - 1 \in 1..Len(stored)
    BY <1>1, <1>2, <2>1
  <2>3. QED
    BY <1>1, <1>5, <2>1, <2>2
<1>8. View!LastOf(View!Newest) = View!LastOf(stored)
  <2>1. CASE stored = <<>>
    <3>1. Len(View!Newest) = 0
      BY <1>2, <1>5, <2>1
    <3>2. View!Newest = <<>>
      BY <1>5, <3>1, EmptySeq
    <3>3. QED
      BY <2>1, <3>2
  <2>2. CASE stored # <<>>
    <3>1. Len(stored) > 0
      BY <1>1, <2>2, EmptySeq
    <3>2. Len(View!Newest) = Len(stored) - lo + 1 /\ View!Newest # <<>>
      BY <1>1, <1>2, <1>5, <3>1, EmptySeq
    <3>3. View!Newest[Len(View!Newest)] = stored[Len(stored)]
      <4> DEFINE last == Len(View!Newest)
      <4>1. last \in 1..(Len(stored) - lo + 1) /\ lo + last - 1 = Len(stored)
        BY <1>1, <1>2, <3>1, <3>2
      <4>2. View!Newest[last] = stored[lo + last - 1]
        BY <1>5, <4>1
      <4>3. QED
        BY <4>1, <4>2
    <3>4. QED
      BY <2>2, <3>2, <3>3 DEF View!LastOf
  <2>3. QED
    BY <2>1, <2>2
<1>9. QED
  BY <1>5, <1>7, <1>8

-------------------------------------------------------------------------------
(* What a browser shows: types.                                                 *)

\* A browser without a connection has nothing on its way, one that never had one shows nothing;
\* a heartbeat that is being stored is not in the table, and otherwise it is the last one there.
InLine ==
  /\ ~socket.connected => channel = <<>>
  /\ socket.connected => socket.count > 0
  /\ socket.count = 0 => shown = <<>>
  /\ storing => sent > 0 /\ \A i \in DOMAIN stored : stored[i] # sent
  /\ ~storing /\ stored # <<>> => View!LastOf(stored) = sent

ViewTyped == View!TypeOK /\ InLine

LEMMA SentMessages ==
  ASSUME NEW M, channel \in Seq(M), NEW m \in M, View!Send(m)
  PROVE  channel' \in Seq(M)
  BY AppendProperties DEF View!Send

LEMMA ViewTypesInit == ASSUME View!HeartbeatsAssumption PROVE View!Init => ViewTyped
<1>0. SUFFICES ASSUME View!Init PROVE ViewTyped
  OBVIOUS
<1>1. PICK n \in 0..HistoryLimit : n <= MaxBeats /\ sent = n /\ stored = [i \in 1..n |-> i]
  BY <1>0 DEF View!Init
<1>2. n \in Nat /\ n \in 0..MaxBeats
  BY <1>1 DEF View!HeartbeatsAssumption
<1>3. stored \in [1..n -> 1..n]
  BY <1>1
<1>4. stored \in Seq(1..n)
  BY <1>2, <1>3, SeqDef
<1>5. Len(stored) = n /\ DOMAIN stored = 1..n
  BY <1>2, <1>3, <1>4, LenProperties
<1>6. <<>> \in Seq(1..n) /\ channel \in Seq(View!Messages)
  BY <1>0, EmptySeq DEF View!Init
<1>7. View!TypeOK
  <2>1. history \in [View!Sockets -> [step : {"none", "read", "send", "done"}, list : Seq(1..n)]]
    BY <1>0, <1>6 DEF View!Init, View!Idle
  <2>2. clear \in [step : {"none", "read", "send"}, list : Seq(1..n)] /\ clears \in 0..MaxClears
    BY <1>0, <1>6 DEF View!Init, View!Idle, View!HeartbeatsAssumption
  <2>3. socket \in [count : 0..(MaxLosses + 1), connected : BOOLEAN]
    BY <1>0 DEF View!Init, View!HeartbeatsAssumption
  <2>4. storing \in BOOLEAN /\ shown = <<>> /\ missed = {} /\ wiped = {} /\ twice = {}
    BY <1>0 DEF View!Init
  <2>5. QED
    BY <1>1, <1>2, <1>4, <1>6, <2>1, <2>2, <2>3, <2>4 DEF View!TypeOK, View!Lists
<1>8. ~storing /\ (stored # <<>> => View!LastOf(stored) = sent)
  <2>1. ~storing
    BY <1>0 DEF View!Init
  <2>2. ASSUME stored # <<>> PROVE View!LastOf(stored) = n
    <3>1. n > 0
      BY <1>2, <1>4, <1>5, <2>2, EmptySeq
    <3>2. stored[n] = n
      BY <1>1, <1>2, <3>1
    <3>3. QED
      BY <1>5, <2>2, <3>2 DEF View!LastOf
  <2>3. QED
    BY <1>1, <2>1, <2>2
<1>9. QED
  BY <1>0, <1>7, <1>8 DEF ViewTyped, InLine, View!Init

LEMMA ViewTypesStep ==
  ASSUME View!HeartbeatsAssumption, ViewTyped, [View!Next]_(View!hvars)
  PROVE  ViewTyped'
<1> USE DEF View!HeartbeatsAssumption
<1>0. /\ sent \in Nat /\ sent \in 0..MaxBeats /\ stored \in Seq(1..sent) /\ storing \in BOOLEAN
      /\ socket \in [count : 0..(MaxLosses + 1), connected : BOOLEAN]
      /\ channel \in Seq(View!Messages)
      /\ history \in [View!Sockets -> [step : {"none", "read", "send", "done"}, list : Seq(1..sent)]]
      /\ clear \in [step : {"none", "read", "send"}, list : Seq(1..sent)] /\ clears \in 0..MaxClears
      /\ shown \in Seq(1..sent) /\ missed \subseteq 1..sent /\ wiped \subseteq 1..sent /\ twice \subseteq 1..sent
  BY DEF ViewTyped, View!TypeOK, View!Lists
<1>1. <<>> \in Seq(1..sent)
  BY EmptySeq
<1>2. sent' = sent => View!Lists' = Seq(1..sent) /\ View!Messages' = View!Messages
  BY DEF View!Lists, View!Messages
<1>3. View!Newest \in Seq(1..sent)
  BY <1>0, NewestIsLast
<1>4. CASE View!SendBeat
  <2> DEFINE Msg == [event |-> "heartbeat", list |-> <<sent + 1>>, overwrite |-> FALSE]
  <2>1. sent' = sent + 1 /\ sent' \in Nat /\ sent' \in 0..MaxBeats /\ storing'
    BY <1>0, <1>4 DEF View!SendBeat
  <2>2. \A s \in Seq(1..sent) : s \in Seq(1..sent')
    BY <1>0, <2>1, ListsGrow
  <2>3. channel \in Seq(View!Messages')
    <3>1. View!Messages \subseteq View!Messages'
      BY <2>2 DEF View!Messages, View!Lists
    <3>2. QED
      BY <1>0, <3>1, SeqMonotonic
  <2>4. Msg \in View!Messages'
    <3>1. <<sent + 1>> \in Seq(1..(sent + 1))
      BY <1>0, LastOfOne
    <3>2. QED
      BY <2>1, <3>1 DEF View!Messages, View!Lists
  <2>5. channel' \in Seq(View!Messages')
    <3>1. View!Send(Msg)
      BY <1>4 DEF View!SendBeat
    <3>2. QED
      BY <2>3, <2>4, <3>1, SentMessages
  <2>6. /\ history' \in [View!Sockets -> [step : {"none", "read", "send", "done"}, list : Seq(1..sent')]]
        /\ clear' \in [step : {"none", "read", "send"}, list : Seq(1..sent')] /\ clears' \in 0..MaxClears
    BY <1>0, <1>4, <2>2 DEF View!SendBeat
  <2>7. missed' \subseteq 1..sent' /\ wiped' \subseteq 1..sent' /\ twice' \subseteq 1..sent'
    BY <1>0, <1>4, <2>1 DEF View!SendBeat
  <2>8. View!TypeOK'
    BY <1>0, <1>4, <2>1, <2>2, <2>5, <2>6, <2>7 DEF View!TypeOK, View!Lists, View!SendBeat
  <2>9. InLine'
    <3>1. \A i \in DOMAIN stored : stored[i] # sent + 1
      BY <1>0, LenProperties
    <3>2. ~socket.connected => channel' = <<>>
      BY <1>4 DEF View!SendBeat, View!Send, ViewTyped, InLine
    <3>3. QED
      BY <1>0, <1>4, <2>1, <3>1, <3>2 DEF View!SendBeat, ViewTyped, InLine
  <2>10. QED
    BY <2>8, <2>9 DEF ViewTyped
<1>5. CASE View!StoreBeat
  <2>1. sent > 0 /\ sent \in 1..sent
    BY <1>0, <1>5 DEF View!StoreBeat, ViewTyped, InLine
  <2>2. stored' = Append(stored, sent) /\ stored' \in Seq(1..sent) /\ View!LastOf(stored') = sent
    <3> DEFINE new == Append(stored, sent)
    <3>1. new \in Seq(1..sent) /\ new # <<>> /\ Len(new) = Len(stored) + 1 /\ new[Len(stored) + 1] = sent
      <4>1. stored \in Seq(1..sent) /\ sent \in 1..sent
        BY <1>0, <2>1
      <4>2. QED
        BY <4>1, AppendProperties
    <3>2. View!LastOf(new) = sent
      BY <3>1 DEF View!LastOf
    <3>3. stored' = new
      BY <1>5 DEF View!StoreBeat
    <3>4. QED
      BY <3>1, <3>2, <3>3
  <2>3. View!TypeOK'
    BY <1>0, <1>2, <1>5, <2>2 DEF View!TypeOK, View!Lists, View!StoreBeat
  <2>4. QED
    BY <1>5, <2>2, <2>3 DEF View!StoreBeat, ViewTyped, InLine
<1>6. CASE View!Connect
  <2>1. socket.count + 1 \in 1..(MaxLosses + 1)
    BY <1>0, <1>6 DEF View!Connect
  <2>2. history' \in [View!Sockets -> [step : {"none", "read", "send", "done"}, list : Seq(1..sent)]]
    BY <1>0, <1>6, <2>1 DEF View!Connect, View!Sockets
  <2>3. missed' \subseteq 1..sent
    BY <1>0, <1>6 DEF View!Connect, ViewTyped, InLine
  <2>4. shown' \in Seq(1..sent)
    BY <1>0, <1>1, <1>6 DEF View!Connect
  <2>5. socket' = [count |-> socket.count + 1, connected |-> TRUE]
    BY <1>6 DEF View!Connect
  <2>6. View!TypeOK'
    <3>1. socket' \in [count : 0..(MaxLosses + 1), connected : BOOLEAN]
      BY <2>1, <2>5
    <3>2. wiped' = {} /\ twice' = {}
      BY <1>6 DEF View!Connect
    <3>3. UNCHANGED <<sent, stored, storing, channel, clear, clears>>
      BY <1>6 DEF View!Connect
    <3>4. QED
      BY <1>0, <1>2, <2>2, <2>3, <2>4, <3>1, <3>2, <3>3 DEF View!TypeOK, View!Lists
  <2>7. QED
    BY <1>0, <1>6, <2>1, <2>5, <2>6 DEF View!Connect, ViewTyped, InLine
<1>7. CASE View!Disconnect
  <2>1. socket' = [socket EXCEPT !.connected = FALSE] /\ channel' = <<>> /\ channel' \in Seq(View!Messages)
    BY <1>7, EmptySeq DEF View!Disconnect
  <2>2. View!TypeOK'
    BY <1>0, <1>2, <1>7, <2>1 DEF View!TypeOK, View!Lists, View!Disconnect
  <2>3. QED
    BY <1>0, <1>7, <2>1, <2>2 DEF View!Disconnect, ViewTyped, InLine
<1>8. ASSUME NEW s \in View!Sockets, View!ReadHistory(s) PROVE ViewTyped'
  <2>1. history' \in [View!Sockets -> [step : {"none", "read", "send", "done"}, list : Seq(1..sent)]]
    BY <1>0, <1>3, <1>8 DEF View!ReadHistory
  <2>2. missed' \subseteq 1..sent
    BY <1>0, <1>8 DEF View!ReadHistory
  <2>3. View!TypeOK'
    BY <1>0, <1>2, <1>8, <2>1, <2>2 DEF View!TypeOK, View!Lists, View!ReadHistory
  <2>4. QED
    BY <1>8, <2>3 DEF View!ReadHistory, ViewTyped, InLine
<1>9. ASSUME NEW s \in View!Sockets, View!SendHistory(s) PROVE ViewTyped'
  <2> DEFINE Msg == [event |-> "heartbeatList", list |-> history[s].list, overwrite |-> FALSE]
  <2>1. history' \in [View!Sockets -> [step : {"none", "read", "send", "done"}, list : Seq(1..sent)]]
    BY <1>0, <1>1, <1>9 DEF View!SendHistory
  <2>2. channel' \in Seq(View!Messages) /\ (~socket.connected => channel' = channel)
    <3>1. Msg \in View!Messages
      BY <1>0 DEF View!Messages, View!Lists
    <3>2. CASE View!Send(Msg)
      BY <1>0, <3>1, <3>2, SentMessages DEF View!Send
    <3>3. QED
      BY <1>0, <1>9, <3>2 DEF View!SendHistory
  <2>3. View!TypeOK'
    BY <1>0, <1>2, <1>9, <2>1, <2>2 DEF View!TypeOK, View!Lists, View!SendHistory
  <2>4. QED
    BY <1>9, <2>2, <2>3 DEF View!SendHistory, ViewTyped, InLine
<1>10. CASE View!ClearHeartbeats
  <2>1. clear' \in [step : {"none", "read", "send"}, list : Seq(1..sent)] /\ clears' \in 0..MaxClears
    <3>1. clears' \in 0..MaxClears
      BY <1>0, <1>10 DEF View!ClearHeartbeats
    <3>2. clear' = [clear EXCEPT !.step = "read"]
      BY <1>10 DEF View!ClearHeartbeats
    <3>3. QED
      BY <1>0, <3>1, <3>2
  <2>2. View!TypeOK'
    BY <1>0, <1>1, <1>2, <1>10, <2>1 DEF View!TypeOK, View!Lists, View!ClearHeartbeats
  <2>3. QED
    BY <1>10, <2>2 DEF View!ClearHeartbeats, ViewTyped, InLine
<1>11. CASE View!ReadCleared
  <2>1. clear' \in [step : {"none", "read", "send"}, list : Seq(1..sent)]
    BY <1>3, <1>11 DEF View!ReadCleared
  <2>2. View!TypeOK'
    BY <1>0, <1>2, <1>11, <2>1 DEF View!TypeOK, View!Lists, View!ReadCleared
  <2>3. QED
    BY <1>11, <2>2 DEF View!ReadCleared, ViewTyped, InLine
<1>12. CASE View!SendCleared
  <2> DEFINE Msg == [event |-> "heartbeatList", list |-> clear.list, overwrite |-> TRUE]
  <2>1. clear' \in [step : {"none", "read", "send"}, list : Seq(1..sent)]
    BY <1>1, <1>12 DEF View!SendCleared, View!Idle
  <2>2. channel' \in Seq(View!Messages) /\ (~socket.connected => channel' = channel)
    <3>1. Msg \in View!Messages
      BY <1>0 DEF View!Messages, View!Lists
    <3>2. View!Send(Msg)
      BY <1>12 DEF View!SendCleared
    <3>3. QED
      BY <1>0, <3>1, <3>2, SentMessages DEF View!Send
  <2>3. wiped' \subseteq 1..sent
    BY <1>0, <1>12 DEF View!SendCleared
  <2>4. View!TypeOK'
    BY <1>0, <1>2, <1>12, <2>1, <2>2, <2>3 DEF View!TypeOK, View!Lists, View!SendCleared
  <2>5. QED
    BY <1>12, <2>2, <2>4 DEF View!SendCleared, ViewTyped, InLine
<1>13. CASE View!Receive
  <2>1. /\ channel # <<>> /\ channel' = Tail(channel) /\ channel' \in Seq(View!Messages)
        /\ Head(channel) \in View!Messages
    BY <1>0, <1>13, HeadTailProperties DEF View!Receive
  <2>2. shown' \in Seq(1..sent)
    <3> DEFINE msg  == Head(channel)
               more == shown \o msg.list
    <3>1. msg.list \in Seq(1..sent) /\ msg.list \o shown \in Seq(1..sent) /\ more \in Seq(1..sent)
      BY <1>0, <2>1, LastOfConcat DEF View!Messages, View!Lists
    <3>2. Len(more) >= ShownLimit => Tail(more) \in Seq(1..sent)
      <4>1. Len(more) \in Nat
        BY <3>1, LenProperties
      <4>2. Len(more) >= ShownLimit => Len(more) > 1
        BY <4>1
      <4>3. QED
        BY <1>0, <3>1, <4>2, LastOfTail
    <3>3. \/ shown' = msg.list
          \/ shown' = msg.list \o shown
          \/ Len(more) >= ShownLimit /\ shown' = Tail(more)
          \/ shown' = more
      <4>1. shown' = IF msg.event = "heartbeat" THEN IF Len(more) >= ShownLimit THEN Tail(more) ELSE more
                     ELSE IF msg.overwrite THEN msg.list ELSE msg.list \o shown
        BY <1>13 DEF View!Receive
      <4>2. QED
        BY <4>1
    <3>4. QED
      BY <3>1, <3>2, <3>3
  <2>3. View!TypeOK'
    BY <1>0, <1>2, <1>13, <2>1, <2>2 DEF View!TypeOK, View!Lists, View!Receive
  <2>4. socket.connected /\ socket.count > 0
    BY <1>0, <2>1 DEF ViewTyped, InLine
  <2>5. QED
    BY <1>13, <2>3, <2>4 DEF View!Receive, ViewTyped, InLine
<1>14. CASE UNCHANGED View!hvars
  BY <1>2, <1>14 DEF View!hvars, ViewTyped, View!TypeOK, View!Lists, View!Messages, InLine
<1>15. QED
  BY <1>4, <1>5, <1>6, <1>7, <1>8, <1>9, <1>10, <1>11, <1>12, <1>13, <1>14 DEF View!Next

-------------------------------------------------------------------------------
(* What a browser shows: the last heartbeat.                                    *)

\* A message with the history of a login, which goes in front of what is shown.
InFront(m) == m.event = "heartbeatList" /\ ~m.overwrite

AllInFront(from) == \A j \in DOMAIN channel : j >= from => InFront(channel[j])

\* When the messages on the way have come, the last heartbeat sent is the last one shown.
EndsWithSent ==
  /\ sent > 0
  /\ \/ View!LastOf(shown) = sent /\ AllInFront(1)
     \/ \E i \in DOMAIN channel :
          ~InFront(channel[i]) /\ View!LastOf(channel[i].list) = sent /\ AllInFront(i + 1)

Login == history[socket.count]

Blank == shown = <<>> /\ channel = <<>>

\* Nothing was shown since the login, whose history is still to be read, to be sent or to come:
\* it ends with the last heartbeat sent, which otherwise is one it missed.
AtRead  == Blank /\ Login.step = "read" /\ (storing => sent \in missed)
AtSend  == Blank /\ Login.step = "send" /\ (View!LastOf(Login.list) = sent \/ sent \in missed)
OnWay   == /\ Login.step = "done" /\ shown = <<>> /\ sent > 0
           /\ Len(channel) = 1 /\ InFront(channel[1]) /\ View!LastOf(channel[1].list) = sent
Missed  == Login.step = "done" /\ sent \in missed
Nothing == stored = <<>> /\ ~storing

Shows == socket.connected => sent \in wiped \/ Nothing \/ EndsWithSent \/ AtRead \/ AtSend \/ OnWay \/ Missed

ShowsInv == ViewTyped /\ Shows

LEMMA ViewTypes ==
  ASSUME ViewTyped
  PROVE  /\ sent \in Nat /\ stored \in Seq(1..sent) /\ storing \in BOOLEAN
         /\ socket \in [count : 0..(MaxLosses + 1), connected : BOOLEAN]
         /\ channel \in Seq([event : {"heartbeat", "heartbeatList"}, list : Seq(1..sent), overwrite : BOOLEAN])
         /\ history \in [View!Sockets -> [step : {"none", "read", "send", "done"}, list : Seq(1..sent)]]
         /\ clear.list \in Seq(1..sent) /\ shown \in Seq(1..sent)
         /\ missed \subseteq 1..sent /\ wiped \subseteq 1..sent
  BY DEF ViewTyped, View!TypeOK, View!Lists, View!Messages

\* A message that puts the last heartbeat sent to the end, and one that changes nothing there.
LEMMA EndIsSent ==
  ASSUME NEW M, channel \in Seq(M), NEW m \in M,
         channel' = Append(channel, m), UNCHANGED shown, sent' > 0,
         \/ ~InFront(m) /\ View!LastOf(m.list) = sent'
         \/ InFront(m) /\ EndsWithSent /\ UNCHANGED sent
  PROVE  EndsWithSent'
<1> DEFINE n == Len(channel)
<1>1. /\ n \in Nat /\ DOMAIN channel = 1..n /\ DOMAIN channel' = 1..(n + 1)
      /\ \A i \in 1..n : channel'[i] = channel[i]
      /\ channel'[n + 1] = m
  <2>1. /\ Append(channel, m) \in Seq(M) /\ Len(Append(channel, m)) = Len(channel) + 1
        /\ \A i \in 1..Len(channel) : Append(channel, m)[i] = channel[i]
        /\ Append(channel, m)[Len(channel) + 1] = m
    BY AppendProperties
  <2>2. QED
    BY <2>1, LenProperties
<1> HIDE DEF n
<1>2. CASE ~InFront(m) /\ View!LastOf(m.list) = sent'
  <2>1. \A j \in DOMAIN channel' : ~(j >= (n + 1) + 1)
    BY <1>1
  <2>2. n + 1 \in DOMAIN channel' /\ channel'[n + 1] = m
    BY <1>1
  <2>3. ~InFront(channel'[n + 1]) /\ View!LastOf(channel'[n + 1].list) = sent'
    BY <1>2, <2>2
  <2>4. QED
    BY <2>1, <2>2, <2>3 DEF EndsWithSent, AllInFront, InFront
<1>3. CASE InFront(m) /\ EndsWithSent /\ UNCHANGED sent
  <2>1. ASSUME NEW from \in Nat, AllInFront(from)
        PROVE  \A j \in DOMAIN channel' : j >= from => InFront(channel'[j])
    BY <1>1, <1>3, <2>1 DEF AllInFront
  <2>2. CASE View!LastOf(shown) = sent /\ AllInFront(1)
    BY <1>3, <2>1, <2>2 DEF EndsWithSent, AllInFront, InFront
  <2>3. CASE \E i \in DOMAIN channel :
               ~InFront(channel[i]) /\ View!LastOf(channel[i].list) = sent /\ AllInFront(i + 1)
    <3>1. PICK i \in DOMAIN channel :
            ~InFront(channel[i]) /\ View!LastOf(channel[i].list) = sent /\ AllInFront(i + 1)
      BY <2>3
    <3>2. i \in DOMAIN channel' /\ channel'[i] = channel[i] /\ i + 1 \in Nat
      BY <1>1, <3>1
    <3>3. \A j \in DOMAIN channel' : j >= i + 1 => InFront(channel'[j])
      BY <2>1, <3>1, <3>2
    <3>4. QED
      BY <1>3, <3>1, <3>2, <3>3 DEF EndsWithSent, AllInFront, InFront
  <2>4. QED
    BY <1>3, <2>2, <2>3 DEF EndsWithSent
<1>4. QED
  BY <1>2, <1>3

\* What Receive makes of the first message: the end of what is shown is the end of a history that
\* is put in front only if there was nothing, and that of any other message otherwise.
LEMMA EndOfShown ==
  ASSUME View!HeartbeatsAssumption, ViewTyped, View!Receive
  PROVE  /\ Len(channel) \in Nat /\ Len(channel) > 0 /\ DOMAIN channel = 1..Len(channel)
         /\ DOMAIN channel' = 1..(Len(channel) - 1)
         /\ \A i \in 1..(Len(channel) - 1) : channel'[i] = channel[i + 1]
         /\ InFront(channel[1]) =>
              View!LastOf(shown') = IF shown = <<>> THEN View!LastOf(channel[1].list) ELSE View!LastOf(shown)
         /\ ~InFront(channel[1]) /\ View!LastOf(channel[1].list) > 0 =>
              View!LastOf(shown') = View!LastOf(channel[1].list)
         /\ sent' = sent
<1> DEFINE M == [event : {"heartbeat", "heartbeatList"}, list : Seq(1..sent), overwrite : BOOLEAN]
           msg  == channel[1]
           more == shown \o msg.list
<1>1. /\ channel \in Seq(M) /\ channel # <<>> /\ channel' = Tail(channel) /\ sent' = sent
      /\ sent \in Nat /\ shown \in Seq(1..sent)
  BY ViewTypes DEF View!Receive
<1>2. Len(channel) \in Nat /\ Len(channel) > 0 /\ DOMAIN channel = 1..Len(channel)
  BY <1>1, EmptySeq, LenProperties
<1>3. /\ Tail(channel) \in Seq(M) /\ Len(Tail(channel)) = Len(channel) - 1
      /\ \A i \in 1..Len(Tail(channel)) : Tail(channel)[i] = channel[i + 1]
  BY <1>1, HeadTailProperties
<1>4. DOMAIN Tail(channel) = 1..Len(Tail(channel))
  BY <1>3, LenProperties
<1>5. Head(channel) = msg /\ msg \in M
  <2>1. 1 \in 1..Len(channel)
    BY <1>2
  <2>2. msg \in M
    BY <1>1, <2>1, ElementOfSeq
  <2>3. QED
    BY <1>1, <2>2
<1>6. shown' = IF msg.event = "heartbeat" THEN IF Len(more) >= ShownLimit THEN Tail(more) ELSE more
               ELSE IF msg.overwrite THEN msg.list ELSE msg.list \o shown
  BY <1>5 DEF View!Receive
<1>7. msg.list \in Seq(1..sent) /\ msg.event \in {"heartbeat", "heartbeatList"}
  BY <1>5
<1>8. InFront(msg) =>
        View!LastOf(shown') = IF shown = <<>> THEN View!LastOf(msg.list) ELSE View!LastOf(shown)
  <2>1. View!LastOf(msg.list \o shown) = IF shown = <<>> THEN View!LastOf(msg.list) ELSE View!LastOf(shown)
    BY <1>1, <1>7, LastOfConcat
  <2>2. QED
    BY <1>6, <2>1 DEF InFront
<1>9. ASSUME ~InFront(msg), View!LastOf(msg.list) > 0 PROVE View!LastOf(shown') = View!LastOf(msg.list)
  <2>1. CASE msg.event = "heartbeat"
    <3>1. msg.list # <<>>
      BY <1>1, <1>7, <1>9, LastOfList
    <3>2. more \in Seq(1..sent) /\ View!LastOf(more) = View!LastOf(msg.list)
      BY <1>1, <1>7, <3>1, LastOfConcat
    <3>3. Len(more) >= ShownLimit => View!LastOf(Tail(more)) = View!LastOf(more)
      <4>1. Len(more) \in Nat
        BY <3>2, LenProperties
      <4>2. Len(more) >= ShownLimit => Len(more) > 1
        BY <4>1 DEF View!HeartbeatsAssumption
      <4>3. QED
        BY <1>1, <3>2, <4>2, LastOfTail
    <3>4. QED
      BY <1>6, <2>1, <3>2, <3>3
  <2>2. CASE msg.event # "heartbeat"
    BY <1>6, <1>7, <1>9, <2>2 DEF InFront
  <2>3. QED
    BY <2>1, <2>2
<1>10. QED
  BY <1>1, <1>2, <1>3, <1>4, <1>8, <1>9

LEMMA ReceiveKeepsTheEnd ==
  ASSUME View!HeartbeatsAssumption, ViewTyped, View!Receive, EndsWithSent
  PROVE  EndsWithSent'
<1> DEFINE n == Len(channel)
<1>1. /\ n \in Nat /\ n > 0 /\ DOMAIN channel = 1..n /\ DOMAIN channel' = 1..(n - 1)
      /\ \A i \in 1..(n - 1) : channel'[i] = channel[i + 1]
      /\ sent' = sent /\ sent > 0
  BY EndOfShown DEF EndsWithSent
<1>2. InFront(channel[1]) => View!LastOf(shown') = IF shown = <<>> THEN View!LastOf(channel[1].list) ELSE View!LastOf(shown)
  BY EndOfShown
<1>3. ~InFront(channel[1]) /\ View!LastOf(channel[1].list) > 0 => View!LastOf(shown') = View!LastOf(channel[1].list)
  BY EndOfShown
<1>4. sent \in Nat /\ shown \in Seq(1..sent)
  BY ViewTypes
<1> HIDE DEF n
<1>5. ASSUME NEW from \in Nat \ {0}, AllInFront(from + 1)
      PROVE  \A j \in DOMAIN channel' : j >= from => InFront(channel'[j])
  <2> SUFFICES ASSUME NEW j \in DOMAIN channel', j >= from PROVE InFront(channel'[j])
    OBVIOUS
  <2>1. j \in 1..(n - 1) /\ j + 1 \in DOMAIN channel /\ j + 1 >= from + 1
    BY <1>1
  <2>2. QED
    BY <1>1, <1>5, <2>1 DEF AllInFront
<1>6. AllInFront(1) => \A j \in DOMAIN channel' : InFront(channel'[j])
  <2> SUFFICES ASSUME AllInFront(1), NEW j \in DOMAIN channel' PROVE InFront(channel'[j])
    OBVIOUS
  <2>1. j \in 1..(n - 1) /\ j + 1 \in DOMAIN channel /\ j + 1 >= 1
    BY <1>1
  <2>2. QED
    BY <1>1, <2>1 DEF AllInFront
<1>7. CASE View!LastOf(shown) = sent /\ AllInFront(1)
  <2>1. InFront(channel[1])
    BY <1>1, <1>7 DEF AllInFront
  <2>2. shown # <<>>
    BY <1>1, <1>4, <1>7, LastOfList
  <2>3. View!LastOf(shown') = sent'
    BY <1>1, <1>2, <1>7, <2>1, <2>2
  <2>4. QED
    BY <1>1, <1>6, <1>7, <2>3 DEF EndsWithSent, AllInFront, InFront
<1>8. CASE \E i \in DOMAIN channel :
             ~InFront(channel[i]) /\ View!LastOf(channel[i].list) = sent /\ AllInFront(i + 1)
  <2>1. PICK i \in DOMAIN channel :
          ~InFront(channel[i]) /\ View!LastOf(channel[i].list) = sent /\ AllInFront(i + 1)
    BY <1>8
  <2>2. i \in Nat \ {0} /\ i \in 1..n
    BY <1>1, <2>1
  <2>3. \A j \in DOMAIN channel' : j >= i => InFront(channel'[j])
    BY <1>5, <2>1, <2>2
  <2>4. CASE i = 1
    <3>1. View!LastOf(shown') = sent'
      BY <1>1, <1>3, <2>1, <2>4
    <3>2. QED
      BY <1>1, <2>3, <2>4, <3>1 DEF EndsWithSent, AllInFront, InFront
  <2>5. CASE i # 1
    <3> DEFINE k == i - 1
    <3>1. k \in DOMAIN channel' /\ k + 1 = i /\ channel'[k] = channel[i]
      BY <1>1, <2>2, <2>5
    <3>2. ~InFront(channel'[k]) /\ View!LastOf(channel'[k].list) = sent'
      BY <1>1, <2>1, <3>1
    <3>3. \A j \in DOMAIN channel' : j >= k + 1 => InFront(channel'[j])
      BY <2>3, <3>1
    <3>4. QED
      BY <1>1, <3>1, <3>2, <3>3 DEF EndsWithSent, AllInFront, InFront
  <2>6. QED
    BY <2>4, <2>5
<1>9. QED
  BY <1>7, <1>8 DEF EndsWithSent

LEMMA ShowsInit == ASSUME View!HeartbeatsAssumption PROVE View!Init => ShowsInv
<1>1. View!Init => ~socket.connected
  BY DEF View!Init
<1>2. QED
  BY <1>1, ViewTypesInit DEF ShowsInv, Shows

LEMMA ShowsStep ==
  ASSUME View!HeartbeatsAssumption
  PROVE  ShowsInv /\ [View!Next]_(View!hvars) => ShowsInv'
<1>0. SUFFICES ASSUME ShowsInv, [View!Next]_(View!hvars), socket.connected'
               PROVE  (sent \in wiped \/ Nothing \/ EndsWithSent \/ AtRead \/ AtSend \/ OnWay \/ Missed)'
  BY ViewTypesStep DEF ShowsInv, Shows
<1>1. /\ ViewTyped /\ Shows /\ ViewTyped'
      /\ sent \in Nat /\ stored \in Seq(1..sent) /\ storing \in BOOLEAN
      /\ socket \in [count : 0..(MaxLosses + 1), connected : BOOLEAN]
      /\ history \in [View!Sockets -> [step : {"none", "read", "send", "done"}, list : Seq(1..sent)]]
      /\ clear.list \in Seq(1..sent) /\ shown \in Seq(1..sent)
      /\ missed \subseteq 1..sent /\ wiped \subseteq 1..sent
      /\ MaxLosses \in Nat
  BY <1>0, ViewTypesStep, ViewTypes DEF ShowsInv, View!HeartbeatsAssumption
<1> DEFINE M == [event : {"heartbeat", "heartbeatList"}, list : Seq(1..sent), overwrite : BOOLEAN]
<1>2. channel \in Seq(M)
  BY <1>1, ViewTypes
<1>3. socket.connected => socket.count \in View!Sockets
  BY <1>1 DEF ViewTyped, InLine, View!Sockets
<1> HIDE DEF M
<1>4. sent > 0 \/ Nothing
  <2>1. sent = 0 => stored = <<>>
    <3>1. Len(stored) > 0 => stored[1] \in 1..sent
      BY <1>1, LenProperties, ElementOfSeq
    <3>2. sent = 0 => Len(stored) = 0
      BY <1>1, <3>1, LenProperties
    <3>3. QED
      BY <1>1, <3>2, EmptySeq
  <2>2. storing => sent > 0
    BY <1>1 DEF ViewTyped, InLine
  <2>3. QED
    BY <1>1, <2>1, <2>2 DEF Nothing
\* What a step does not touch stays as it is.
<1>5. ASSUME UNCHANGED <<sent, shown, channel, socket, wiped>>
      PROVE  /\ socket.connected /\ Blank' = Blank /\ EndsWithSent' = EndsWithSent
             /\ (sent \in wiped => (sent \in wiped)')
  BY <1>0, <1>5 DEF Blank, EndsWithSent, AllInFront
<1>6. ASSUME UNCHANGED <<sent, shown, channel, socket, history, missed>>
      PROVE  OnWay' = OnWay /\ Missed' = Missed /\ AtSend' = AtSend
  BY <1>6 DEF OnWay, Missed, AtSend, Blank, Login
<1>7. CASE View!SendBeat
  <2> DEFINE Msg == [event |-> "heartbeat", list |-> <<sent + 1>>, overwrite |-> FALSE]
  <2>1. /\ socket' = socket /\ shown' = shown /\ sent' = sent + 1 /\ sent' > 0 /\ sent' \in Nat
        /\ channel' = Append(channel, Msg)
    BY <1>0, <1>1, <1>7 DEF View!SendBeat, View!Send
  <2>2. ~InFront(Msg) /\ View!LastOf(Msg.list) = sent'
    <3>1. sent + 1 \in Nat \ {0}
      BY <1>1
    <3>2. View!LastOf(<<sent + 1>>) = sent + 1
      BY <3>1, LastOfOne
    <3>3. QED
      BY <2>1, <3>2 DEF InFront
  <2>3. channel \in Seq(M \cup {Msg}) /\ Msg \in M \cup {Msg}
    BY <1>2, SeqMonotonic
  <2> HIDE DEF Msg
  <2>4. EndsWithSent'
    BY <2>1, <2>2, <2>3, EndIsSent
  <2>5. QED
    BY <2>4
<1>8. CASE View!StoreBeat
  <2>1. UNCHANGED <<sent, shown, channel, socket, history, missed, wiped>> /\ ~storing' /\ storing
    BY <1>1, <1>8 DEF View!StoreBeat
  <2>2. AtRead => AtRead'
    BY <2>1 DEF AtRead, Blank, Login
  <2>3. QED
    BY <1>1, <1>5, <1>6, <2>1, <2>2 DEF Shows, Nothing
<1>9. CASE View!Connect
  <2>1. /\ socket.count + 1 \in View!Sockets /\ socket'.count = socket.count + 1
        /\ sent' = sent /\ storing' = storing
        /\ missed' = (IF storing THEN {sent} ELSE {})
    BY <1>1, <1>9 DEF View!Connect, View!Sockets
  <2>2. shown' = <<>> /\ channel' = <<>>
    BY <1>1, <1>9 DEF View!Connect, ViewTyped, InLine
  <2>3. Login'.step = "read"
    BY <1>1, <1>9, <2>1 DEF View!Connect, Login
  <2>4. AtRead'
    BY <2>1, <2>2, <2>3 DEF AtRead, Blank
  <2>5. QED
    BY <2>4
<1>10. CASE View!Disconnect
  BY <1>0, <1>1, <1>10 DEF View!Disconnect
<1>11. ASSUME NEW s \in View!Sockets, View!ReadHistory(s)
       PROVE  (sent \in wiped \/ Nothing \/ EndsWithSent \/ AtRead \/ AtSend \/ OnWay \/ Missed)'
  <2>1. /\ UNCHANGED <<sent, stored, storing, shown, channel, socket, wiped>> /\ history[s].step = "read"
        /\ history' = [history EXCEPT ![s] = [step |-> "send", list |-> View!Newest]]
    BY <1>11 DEF View!ReadHistory
  <2>2. CASE s # socket.count
    <3>1. missed' = missed /\ history'[socket.count] = history[socket.count]
      BY <1>1, <1>3, <1>5, <1>11, <2>1, <2>2 DEF View!ReadHistory
    <3>2. (AtRead => AtRead') /\ (AtSend => AtSend') /\ (OnWay => OnWay') /\ (Missed => Missed')
      BY <2>1, <3>1 DEF AtRead, AtSend, OnWay, Missed, Blank, Login
    <3>3. Nothing => Nothing'
      BY <2>1 DEF Nothing
    <3>4. QED
      BY <1>1, <1>5, <2>1, <3>2, <3>3 DEF Shows
  <2>3. CASE s = socket.count
    <3>1. Login.step = "read" /\ Login'.step = "send" /\ Login'.list = View!Newest
      BY <1>1, <2>1, <2>3 DEF Login
    <3>2. sent \in wiped \/ Nothing \/ EndsWithSent \/ AtRead
      BY <1>1, <1>5, <2>1, <3>1 DEF Shows, AtSend, OnWay, Missed
    <3>3. Nothing => Nothing'
      BY <2>1 DEF Nothing
    <3>4. ASSUME AtRead, ~Nothing PROVE AtSend'
      <4>1. Blank' /\ View!LastOf(View!Newest) = View!LastOf(stored)
        BY <1>1, <1>5, <2>1, <3>4, NewestIsLast DEF AtRead
      <4>2. CASE ~storing
        BY <1>1, <2>1, <3>1, <3>4, <4>1, <4>2 DEF AtSend, Nothing, ViewTyped, InLine
      <4>3. CASE storing
        <5>1. \A i \in DOMAIN View!Newest : View!Newest[i] # sent
          BY <1>1, <4>3, NewestIsLast DEF ViewTyped, InLine
        <5>2. sent \notin View!ToSet(View!Newest)
          BY <5>1 DEF View!ToSet
        <5>3. sent' \in missed'
          BY <1>11, <2>1, <2>3, <3>4, <4>3, <5>2 DEF View!ReadHistory, AtRead
        <5>4. QED
          BY <3>1, <4>1, <5>3 DEF AtSend
      <4>4. QED
        BY <1>1, <4>2, <4>3
    <3>5. QED
      BY <1>5, <2>1, <3>2, <3>3, <3>4
  <2>4. QED
    BY <2>2, <2>3
<1>12. ASSUME NEW s \in View!Sockets, View!SendHistory(s)
       PROVE  (sent \in wiped \/ Nothing \/ EndsWithSent \/ AtRead \/ AtSend \/ OnWay \/ Missed)'
  <2> DEFINE Msg == [event |-> "heartbeatList", list |-> history[s].list, overwrite |-> FALSE]
  <2>1. /\ UNCHANGED <<sent, stored, storing, shown, socket, missed, wiped>> /\ history[s].step = "send"
        /\ history' = [history EXCEPT ![s] = [step |-> "done", list |-> <<>>]]
    BY <1>12 DEF View!SendHistory
  <2>2. (Nothing => Nothing') /\ (sent \in wiped => (sent \in wiped)') /\ socket.connected
    BY <1>0, <2>1 DEF Nothing
  <2>3. CASE s # socket.count
    <3>1. channel' = channel /\ history'[socket.count] = history[socket.count]
      BY <1>1, <1>3, <1>12, <2>1, <2>2, <2>3 DEF View!SendHistory
    <3>2. (AtRead => AtRead') /\ (AtSend => AtSend') /\ (OnWay => OnWay') /\ (Missed => Missed')
      BY <2>1, <3>1 DEF AtRead, AtSend, OnWay, Missed, Blank, Login
    <3>3. QED
      BY <1>1, <1>5, <2>1, <2>2, <3>1, <3>2 DEF Shows
  <2>4. CASE s = socket.count
    <3>1. Login.step = "send" /\ Login'.step = "done" /\ Login.list = history[s].list
      BY <1>1, <2>1, <2>4 DEF Login
    <3>2. sent \in wiped \/ Nothing \/ EndsWithSent \/ AtSend
      BY <1>1, <2>2, <3>1 DEF Shows, AtRead, OnWay, Missed
    <3>3. channel' = Append(channel, Msg)
      BY <1>12, <2>2, <2>4 DEF View!SendHistory, View!Send
    <3>4. Msg \in M /\ InFront(Msg)
      BY <1>1 DEF M, InFront
    <3> HIDE DEF Msg
    <3>5. EndsWithSent => EndsWithSent'
      <4>1. EndsWithSent => sent' > 0
        BY <2>1 DEF EndsWithSent
      <4>2. QED
        BY <1>2, <2>1, <3>3, <3>4, <4>1, EndIsSent
    <3>6. ASSUME AtSend, ~Nothing PROVE OnWay' \/ Missed'
      <4>1. CASE sent \in missed
        BY <2>1, <3>1, <4>1 DEF Missed
      <4>2. CASE View!LastOf(Login.list) = sent
        <5>1. channel = <<>> /\ shown' = <<>> /\ sent' > 0
          BY <1>4, <2>1, <3>6 DEF AtSend, Blank
        <5>2. Len(channel') = 1 /\ channel'[1] = Msg
          <6>1. Append(<<>>, Msg) = <<Msg>>
            OBVIOUS
          <6>2. QED
            BY <3>3, <5>1, <6>1
        <5>3. View!LastOf(channel'[1].list) = sent'
          BY <2>1, <3>1, <4>2, <5>2 DEF Msg
        <5>4. QED
          BY <3>1, <3>4, <5>1, <5>2, <5>3 DEF OnWay, InFront
      <4>3. QED
        BY <3>6, <4>1, <4>2 DEF AtSend
    <3>7. QED
      BY <2>2, <3>2, <3>5, <3>6
  <2>5. QED
    BY <2>3, <2>4
<1>13. CASE View!ClearHeartbeats
  <2>1. /\ UNCHANGED <<sent, storing, shown, channel, socket, history, missed, wiped>>
        /\ stored' = <<>>
    BY <1>13 DEF View!ClearHeartbeats
  <2>2. (AtRead => AtRead') /\ (Nothing => Nothing')
    BY <2>1 DEF AtRead, Blank, Login, Nothing
  <2>3. QED
    BY <1>1, <1>5, <1>6, <2>1, <2>2 DEF Shows
<1>14. CASE View!ReadCleared
  <2>1. UNCHANGED <<sent, stored, storing, shown, channel, socket, history, missed, wiped>>
    BY <1>14 DEF View!ReadCleared
  <2>2. (AtRead => AtRead') /\ (Nothing => Nothing')
    BY <2>1 DEF AtRead, Blank, Login, Nothing
  <2>3. QED
    BY <1>1, <1>5, <1>6, <2>1, <2>2 DEF Shows
<1>15. CASE View!SendCleared
  <2> DEFINE Msg == [event |-> "heartbeatList", list |-> clear.list, overwrite |-> TRUE]
  <2>1. /\ UNCHANGED <<sent, stored, storing, shown, socket>> /\ socket.connected
        /\ channel' = Append(channel, Msg)
        /\ wiped' = {b \in 1..sent : b > View!LastOf(clear.list)}
    BY <1>0, <1>15 DEF View!SendCleared, View!Send
  <2>2. Nothing => Nothing'
    BY <2>1 DEF Nothing
  <2>3. View!LastOf(clear.list) \in 0..sent
    BY <1>1, LastOfList
  <2>4. ASSUME sent > 0 PROVE (sent \in wiped)' \/ EndsWithSent'
    <3>1. CASE View!LastOf(clear.list) < sent
      BY <1>1, <2>1, <2>4, <3>1
    <3>2. CASE View!LastOf(clear.list) = sent
      <4>1. Msg \in M /\ ~InFront(Msg) /\ View!LastOf(Msg.list) = sent
        BY <1>1, <3>2 DEF M, InFront
      <4> HIDE DEF Msg
      <4>2. QED
        BY <1>2, <2>1, <2>4, <4>1, EndIsSent
    <3>3. QED
      BY <1>1, <2>3, <3>1, <3>2
  <2>5. QED
    BY <1>4, <2>2, <2>4
<1>16. CASE View!Receive
  <2>1. UNCHANGED <<sent, stored, storing, socket, history, missed, wiped>> /\ channel # <<>>
    BY <1>16 DEF View!Receive
  <2>2. (Nothing => Nothing') /\ (sent \in wiped => (sent \in wiped)') /\ (Missed => Missed') /\ socket.connected
    BY <1>0, <2>1 DEF Nothing, Missed, Login
  <2>3. ~AtRead /\ ~AtSend
    BY <2>1 DEF AtRead, AtSend, Blank
  <2>4. EndsWithSent => EndsWithSent'
    BY <1>1, <1>16, ReceiveKeepsTheEnd
  <2>5. ASSUME OnWay PROVE EndsWithSent'
    <3>1. DOMAIN channel' = 1..(Len(channel) - 1) /\ Len(channel) = 1
      BY <1>1, <1>16, <2>5, EndOfShown DEF OnWay
    <3>2. DOMAIN channel' = {}
      BY <3>1
    <3>3. View!LastOf(shown') = sent'
      BY <1>1, <1>16, <2>5, EndOfShown DEF OnWay
    <3>4. QED
      BY <2>1, <2>5, <3>2, <3>3 DEF EndsWithSent, AllInFront, OnWay
  <2>6. QED
    BY <1>1, <2>2, <2>3, <2>4, <2>5 DEF Shows
<1>17. CASE UNCHANGED View!hvars
  <2>1. UNCHANGED <<sent, stored, storing, shown, channel, socket, history, missed, wiped>>
    BY <1>17 DEF View!hvars
  <2>2. (AtRead => AtRead') /\ (Nothing => Nothing')
    BY <2>1 DEF AtRead, Blank, Login, Nothing
  <2>3. QED
    BY <1>1, <1>5, <1>6, <2>1, <2>2 DEF Shows
<1>18. QED
  BY <1>0, <1>7, <1>8, <1>9, <1>10, <1>11, <1>12, <1>13, <1>14, <1>15, <1>16, <1>17 DEF View!Next

\* What the browser and the server keep of the heartbeats has its types, for any lengths of the
\* history and of what is shown.
THEOREM ViewTypesHold == ASSUME View!HeartbeatsAssumption PROVE View!Spec => []View!TypeOK
<1>1. ShowsInv => View!TypeOK
  BY DEF ShowsInv, ViewTyped
<1>2. QED
  BY <1>1, ShowsInit, ShowsStep, PTL DEF View!Spec

\* Whatever is lost with a connection, arrives late or is cleared: when all has come, a browser
\* shows the stored status of a monitor, unless its login or a clear just missed the heartbeat.
\* The heartbeats are sent one at a time and before they are stored, histories after a query.
THEOREM LatestIsShownHolds == ASSUME View!HeartbeatsAssumption PROVE View!Spec => []View!LatestIsShown
<1>1. ASSUME ShowsInv PROVE View!LatestIsShown
  <2>1. SUFFICES ASSUME View!Quiet, stored # <<>>
                 PROVE  View!LastOf(shown) = View!LastOf(stored) \/ View!LastOf(stored) \in missed \cup wiped
    BY DEF View!LatestIsShown
  <2>2. View!LastOf(stored) = sent /\ ~Nothing
    BY <1>1, <2>1 DEF ShowsInv, ViewTyped, InLine, View!Quiet, Nothing
  <2>3. ~AtRead /\ ~AtSend /\ ~OnWay
    <3>1. Login.step = "done" /\ Len(channel) = 0
      BY <2>1 DEF View!Quiet, Login
    <3>2. QED
      BY <3>1 DEF AtRead, AtSend, OnWay
  <2>4. EndsWithSent => View!LastOf(shown) = sent
    BY <2>1 DEF EndsWithSent, View!Quiet
  <2>5. QED
    BY <1>1, <2>1, <2>2, <2>3, <2>4 DEF ShowsInv, Shows, Missed, View!Quiet
<1>2. QED
  BY <1>1, ShowsInit, ShowsStep, PTL DEF View!Spec
===============================================================================
