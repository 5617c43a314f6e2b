---------------------------- MODULE HeartbeatRules ----------------------------
(***************************************************************************)
(* The decisions taken for one heartbeat, as pure operators: the status a   *)
(* check leads to, the retry counter, which heartbeats are important and    *)
(* which of those are notified.  Both writers of heartbeats use them:       *)
(* beat() in model/monitor.js and the push route in routers/api-router.js.  *)
(***************************************************************************)
EXTENDS Integers

CONSTANTS
  MaxRetries,       \* monitor.maxretries
  ResendInterval,   \* monitor.resendInterval, 0 for never
  UpsideDown,       \* monitor.isUpsideDown()
  OnlyStatusCode    \* type "json-query" with retry_only_on_status_code_failure

ASSUME RulesAssumption ==
  /\ MaxRetries \in Nat
  /\ ResendInterval \in Nat
  /\ UpsideDown \in BOOLEAN
  /\ OnlyStatusCode \in BOOLEAN

DOWN        == "DOWN"
UP          == "UP"
PENDING     == "PENDING"
MAINTENANCE == "MAINTENANCE"
Statuses    == {DOWN, UP, PENDING, MAINTENANCE}

\* Retries are counted on while DOWN; every test is "retries < maxretries", so
\* the count is kept exact up to MaxRetries and cut off there.
Cap(n) == IF n > MaxRetries THEN MaxRetries ELSE n

flipStatus(s) == IF s = UP THEN DOWN ELSE IF s = DOWN THEN UP ELSE s

\* What a healthy push monitor's last heartbeat looks like.
HealthyStatus == IF UpsideDown THEN DOWN ELSE UP

\* How a check can end: it returns with a status of its own (MAINTENANCE when
\* the monitor is under maintenance, PENDING or DOWN for the types that allow a
\* custom status), or throws.  "jsonError" is the failed JSON query; "lateError"
\* is thrown after the check has set the status to UP already (MonitorTypes).
Outcomes == Statuses \cup {"error", "jsonError", "lateError"}

\* The catch block of beat() is entered for an error, and for an upside-down
\* monitor whose check returned UP ("Flip UP to DOWN").
Throws(outcome) ==
  outcome \in {"error", "jsonError", "lateError"} \/ (UpsideDown /\ outcome = UP)

\* The status the bean has when the catch block is entered.
CaughtStatus(outcome) ==
  IF (UpsideDown /\ outcome # UP) \/ outcome = "lateError" THEN UP ELSE DOWN

\* mutant: a retry is not counted.
beatResult_Uncounted(outcome, retries) ==
  IF ~Throws(outcome)
  THEN [status |-> IF UpsideDown THEN flipStatus(outcome) ELSE outcome, retries |-> 0]
  ELSE IF UpsideDown /\ CaughtStatus(outcome) = UP
  THEN [status |-> UP, retries |-> 0]
  ELSE IF retries < MaxRetries
  THEN [status |-> PENDING, retries |-> retries]
  ELSE [status |-> DOWN, retries |-> Cap(retries + 1)]

\* mutant: the catch block does not look at upside-down mode.
beatResult_NoMirror(outcome, retries) ==
  IF ~Throws(outcome)
  THEN [status |-> IF UpsideDown THEN flipStatus(outcome) ELSE outcome, retries |-> 0]
  ELSE [status |-> IF retries < MaxRetries THEN PENDING ELSE DOWN, retries |-> Cap(retries + 1)]

\* beat(): status and retries of the heartbeat, from the check's outcome and the
\* retries so far.
beatResult(outcome, retries) ==
  IF ~Throws(outcome)
  THEN [status |-> IF UpsideDown THEN flipStatus(outcome) ELSE outcome, retries |-> 0]
  ELSE IF UpsideDown /\ CaughtStatus(outcome) = UP
  THEN [status |-> UP, retries |-> 0]
  ELSE IF OnlyStatusCode /\ outcome = "jsonError"
  THEN [status |-> DOWN, retries |-> 0]
  ELSE [status  |-> IF retries < MaxRetries THEN PENDING ELSE CaughtStatus(outcome),
        retries |-> Cap(retries + 1)]

\* mutant: one retry fewer on the push route.
determineStatus_OffByOne(pushed, explicitDown, hasPrev, prevStatus, prevRetries) ==
  LET status == IF UpsideDown THEN flipStatus(pushed) ELSE pushed
      again  == [status |-> PENDING, retries |-> Cap(prevRetries + 1)]
  IN
  IF explicitDown /\ status = DOWN THEN [status |-> DOWN, retries |-> 0]
  ELSE IF ~hasPrev
  THEN IF status = DOWN /\ MaxRetries > 0 THEN [status |-> PENDING, retries |-> 1]
                                          ELSE [status |-> status, retries |-> 0]
  ELSE IF prevStatus \in {UP, PENDING} /\ status = DOWN /\ prevRetries + 1 < MaxRetries
  THEN again
  ELSE [status |-> status, retries |-> IF status = DOWN THEN Cap(prevRetries + 1) ELSE 0]

\* determineStatus() of the push route; prev is a record or none (hasPrev FALSE).
determineStatus(pushed, explicitDown, hasPrev, prevStatus, prevRetries) ==
  LET status == IF UpsideDown THEN flipStatus(pushed) ELSE pushed
      again  == [status |-> PENDING, retries |-> Cap(prevRetries + 1)]
  IN
  IF explicitDown /\ status = DOWN THEN [status |-> DOWN, retries |-> 0]
  ELSE IF ~hasPrev
  THEN IF status = DOWN /\ MaxRetries > 0 THEN [status |-> PENDING, retries |-> 1]
                                          ELSE [status |-> status, retries |-> 0]
  ELSE IF prevStatus = UP /\ status = DOWN
  THEN IF prevRetries < MaxRetries THEN again ELSE [status |-> DOWN, retries |-> 0]
  ELSE IF prevStatus = PENDING /\ status = DOWN /\ prevRetries < MaxRetries
  THEN again
  ELSE [status |-> status, retries |-> IF status = DOWN THEN Cap(prevRetries + 1) ELSE 0]

\* isImportantBeat(): the transitions that are events of the monitor.
isImportantBeat(isFirstBeat, previous, current) ==
  \/ isFirstBeat
  \/ <<previous, current>> \in
       {<<DOWN, MAINTENANCE>>, <<UP, MAINTENANCE>>, <<MAINTENANCE, DOWN>>,
        <<MAINTENANCE, UP>>, <<UP, DOWN>>, <<DOWN, UP>>, <<PENDING, DOWN>>}

\* mutant: "PENDING -> DOWN" is taken for a mere repetition.
isImportantForNotification_NoPending(isFirstBeat, previous, current) ==
  \/ isFirstBeat
  \/ <<previous, current>> \in {<<MAINTENANCE, DOWN>>, <<UP, DOWN>>, <<DOWN, UP>>}

\* isImportantForNotification(): those of them that are notified.
isImportantForNotification(isFirstBeat, previous, current) ==
  \/ isFirstBeat
  \/ <<previous, current>> \in
       {<<MAINTENANCE, DOWN>>, <<UP, DOWN>>, <<DOWN, UP>>, <<PENDING, DOWN>>}

\* sendNotification() stays silent on a first beat that is not DOWN.
Audible(isFirstBeat, status) == ~isFirstBeat \/ status = DOWN

\* mutant: the down count is not reset when the notification is sent again.
beatNotice_NoReset(isFirstBeat, previous, current, downCount) ==
  LET important == isImportantBeat(isFirstBeat, previous, current)
      again     == ~important /\ current = DOWN /\ ResendInterval > 0
      resend    == again /\ downCount + 1 >= ResendInterval
  IN [notify    |-> \/ /\ important
                       /\ isImportantForNotification(isFirstBeat, previous, current)
                       /\ Audible(isFirstBeat, current)
                    \/ resend,
      downCount |-> IF important THEN 0 ELSE IF again THEN downCount + 1 ELSE downCount]

\* beat(): the notification and the down count of a heartbeat.  A repeated DOWN
\* is notified again every ResendInterval heartbeats.
beatNotice(isFirstBeat, previous, current, downCount) ==
  LET important == isImportantBeat(isFirstBeat, previous, current)
      again     == ~important /\ current = DOWN /\ ResendInterval > 0
      resend    == again /\ downCount + 1 >= ResendInterval
  IN [notify    |-> \/ /\ important
                       /\ isImportantForNotification(isFirstBeat, previous, current)
                       /\ Audible(isFirstBeat, current)
                    \/ resend,
      downCount |-> IF important \/ resend THEN 0
                    ELSE IF again THEN downCount + 1 ELSE downCount]

\* The push route: the down count is reset by a notified transition only.
pushNotice(isFirstBeat, previous, current, downCount) ==
  LET notified == isImportantForNotification(isFirstBeat, previous, current)
      again    == ~notified /\ current = DOWN /\ ResendInterval > 0
      resend   == again /\ downCount + 1 >= ResendInterval
  IN [notify    |-> (notified /\ Audible(isFirstBeat, current)) \/ resend,
      downCount |-> IF notified \/ resend THEN 0
                    ELSE IF again THEN downCount + 1 ELSE downCount]
===============================================================================
