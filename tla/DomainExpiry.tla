----------------------------- MODULE DomainExpiry -----------------------------
(***************************************************************************)
(* server/model/domain_expiry.js as the heartbeats of monitor.js use it: one *)
(* row `domain_expiry` of a domain that several monitors share, looked up at *)
(* most once a day, and the notices that it will expire.                     *)
(*                                                                           *)
(* A heartbeat awaits checkExpiry() and starts sendNotifications() without   *)
(* awaiting it.  Both read the row, wait for the network, and store their    *)
(* copy; what they store is decided by what they read.                       *)
(***************************************************************************)
EXTENDS Naturals, FiniteSets

CONSTANTS
  Monitors,     \* monitors with this domain and domainExpiryNotification
  Senders,      \* sendNotifications() that may be in progress at the same time
  Destinations, \* notification destinations of the monitors
  NotifyDays,   \* the setting domainExpiryNotifyDays
  Period,       \* days for which a domain is registered or renewed
  LookupsFail,  \* TRUE: RDAP may give no expiry date
  MaxDay,       \* bound: days that pass
  MaxCrashes,   \* bound: crashes
  None, Bad     \* nothing stored; "Invalid Date" stored

\* What an instance has to satisfy.
DomainAssumption ==
  /\ NotifyDays \subseteq (Nat \ {0})
  /\ Period \in Nat /\ MaxDay \in Nat /\ MaxCrashes \in Nat
  /\ LookupsFail \in BOOLEAN
  /\ None # Bad /\ None \notin Nat /\ Bad \notin Nat

VARIABLES
  day,        \* days passed
  registered, \* environment: the day of expiry in the registry
  row,        \* the row: expiry, lastCheck, lastExpiryNotificationSent as `sent`
  check,      \* checkExpiry() of a monitor's heartbeat: its step, bean and answer
  sender,     \* sendNotifications(): its step, deadlines to try, whom to tell, any success
  crashes,
  told,       \* history: <<destination, deadline>> told in this period of registration
  repeated,   \* history: a destination was told of a deadline again for no good reason
  excused,    \* history: deadlines that overlaps and crashes may make told again, or never
  missed      \* history: `sent` stems from a period whose end no lookup saw

vars == <<day, registered, row, check, sender, crashes, told, repeated, excused, missed>>
hist == <<told, repeated, excused, missed>>

Days  == 0..(MaxDay + Period)
NoRow == [expiry |-> None, lastCheck |-> None, sent |-> None]
Beans == [expiry : Days \cup {None, Bad}, lastCheck : Days \cup {None},
          sent : NotifyDays \cup {None}]
NoCheck  == [step |-> "idle", bean |-> NoRow, answer |-> None]
NoSender == [step |-> "idle", todo |-> {}, to |-> {}, sent |-> FALSE]
First(S) == CHOOSE n \in S : \A k \in S : n <= k

TypeOK ==
  /\ day \in 0..MaxDay
  /\ registered \in Days
  /\ row \in Beans
  /\ check \in [Monitors -> [step : {"idle", "lookup", "store"}, bean : Beans,
                             answer : Days \cup {None}]]
  /\ sender \in [Senders -> [step : {"idle", "find", "send", "store"}, todo : SUBSET NotifyDays,
                             to : SUBSET Destinations, sent : BOOLEAN]]
  /\ \A s \in Senders : /\ sender[s].step \in {"send", "store"} => sender[s].todo # {}
                        /\ sender[s].step = "store" => sender[s].sent
  /\ crashes \in 0..MaxCrashes
  /\ told \subseteq Destinations \X NotifyDays
  /\ excused \subseteq NotifyDays

Init ==
  /\ day = 0 /\ registered = Period
  /\ row = NoRow
  /\ check = [m \in Monitors |-> NoCheck]
  /\ sender = [s \in Senders |-> NoSender]
  /\ crashes = 0
  /\ told = {} /\ repeated = FALSE /\ excused = {} /\ missed = FALSE

-----------------------------------------------------------------------------
(* checkExpiry() *)

\* The heartbeat has an expiry date and starts sendNotifications().
StartSender ==
  \E s \in Senders : /\ sender[s].step = "idle"
                     /\ sender' = [sender EXCEPT ![s] = [NoSender EXCEPT !.step = "find"]]

Recent == row.lastCheck = day

\* Checked less than a day ago: the stored expiry is used.
CheckedRecently(m) ==
  /\ check[m].step = "idle"
  /\ Recent
  /\ StartSender
  /\ UNCHANGED <<day, registered, row, check, crashes, hist>>

FindOrCreate(m) ==
  /\ check[m].step = "idle"
  /\ ~Recent
  /\ check' = [check EXCEPT ![m] = [step |-> "lookup", bean |-> row, answer |-> None]]
  /\ UNCHANGED <<day, registered, row, sender, crashes, hist>>

\* RDAP answers with the date of the registry, or with none.
Lookup(m) ==
  /\ check[m].step = "lookup"
  /\ \E d \in {registered} \cup (IF LookupsFail THEN {None} ELSE {}) :
       check' = [check EXCEPT ![m].step = "store", ![m].answer = d]
  /\ UNCHANGED <<day, registered, row, sender, crashes, hist>>

\* dayjs takes the missing expiry of a bean just created for now; a date that is not valid
\* is neither before nor after another.
IsAfter(answer, expiry) ==
  /\ answer # None /\ expiry # Bad
  /\ answer > (IF expiry = None THEN day ELSE expiry)

\* mutant: a renewal does not reset what was sent
StoreCheck_KeepsSent(m) ==
  LET c == check[m]
  IN /\ c.step = "store"
     /\ c.bean = NoRow => row = NoRow
     /\ row' = [expiry |-> IF c.answer = None THEN Bad ELSE c.answer, lastCheck |-> day, sent |-> row.sent]
     /\ check' = [check EXCEPT ![m] = NoCheck]
     /\ IF c.answer # None THEN StartSender ELSE UNCHANGED sender
     /\ missed' = (missed \/ (row.sent # None /\ (c.bean.expiry = Bad \/ c.bean.sent # row.sent)))
     /\ UNCHANGED <<day, registered, crashes, told, repeated, excused>>

\* Only fields that changed are stored.  A failed lookup stores a date that is not valid.
StoreCheck(m) ==
  LET c == check[m]
      reset == IsAfter(c.answer, c.bean.expiry) /\ c.bean.sent # None
  IN /\ c.step = "store"
     /\ c.bean = NoRow => row = NoRow
     /\ row' = [expiry |-> IF c.answer = None THEN Bad ELSE c.answer, lastCheck |-> day,
                sent |-> IF reset THEN None ELSE row.sent]
     /\ check' = [check EXCEPT ![m] = NoCheck]
     /\ IF c.answer # None THEN StartSender ELSE UNCHANGED sender
     /\ excused' = excused \cup (IF reset THEN {n \in NotifyDays : \E d \in Destinations : <<d, n>> \in told}
                                ELSE {})
     /\ missed' = (~reset /\ (missed \/ (row.sent # None /\ (c.bean.expiry = Bad \/ c.bean.sent # row.sent))))
     /\ UNCHANGED <<day, registered, crashes, told, repeated>>

\* The row exists by now and the domain is unique, or the database refuses the date: the
\* heartbeat catches the error.
StoreError(m) ==
  /\ check[m].step = "store"
  /\ (check[m].bean = NoRow /\ row # NoRow) \/ check[m].answer = None
  /\ check' = [check EXCEPT ![m] = NoCheck]
  /\ UNCHANGED <<day, registered, row, sender, crashes, hist>>

-----------------------------------------------------------------------------
(* sendNotifications() *)

\* mutant: what was sent is not looked at
Deadlines_All(bean) == {n \in NotifyDays : bean.expiry <= day + n}

\* The deadlines to try: reached, and not covered by the last one sent.
Deadlines(bean) ==
  {n \in NotifyDays : bean.expiry <= day + n /\ (bean.sent = None \/ bean.sent > n)}

\* Deadlines that calls in progress tell or may go on to.
Underway(calls) == UNION {sender[t].todo : t \in calls}

Find(s) ==
  /\ sender[s].step = "find"
  /\ IF row.expiry \in Days /\ Deadlines(row) # {}
     THEN /\ sender' = [sender EXCEPT ![s] = [step |-> "send", todo |-> Deadlines(row),
                                             to |-> Destinations, sent |-> FALSE]]
          /\ excused' = excused \cup
               (IF Underway(Senders) = {} THEN {} ELSE Deadlines(row) \cup Underway(Senders))
     ELSE sender' = [sender EXCEPT ![s] = NoSender] /\ UNCHANGED excused
  /\ UNCHANGED <<day, registered, row, check, crashes, told, repeated, missed>>

\* One destination after another is told, with or without success.
SendOk(s, d) ==
  LET n == First(sender[s].todo)
  IN /\ sender[s].step = "send" /\ d \in sender[s].to
     /\ sender' = [sender EXCEPT ![s].to = @ \ {d}, ![s].sent = TRUE]
     /\ told' = told \cup {<<d, n>>}
     /\ repeated' = (repeated \/ (<<d, n>> \in told /\ n \notin excused))
     /\ UNCHANGED <<day, registered, row, check, crashes, excused, missed>>

SendError(s, d) ==
  /\ sender[s].step = "send" /\ d \in sender[s].to
  /\ sender' = [sender EXCEPT ![s].to = @ \ {d}]
  /\ UNCHANGED <<day, registered, row, check, crashes, hist>>

\* mutant: the end of the list is not noticed
NextDeadline_PastTheEnd(s) ==
  /\ sender[s].step = "send" /\ sender[s].to = {}
  /\ sender' = [sender EXCEPT ![s] =
       IF @.sent THEN [@ EXCEPT !.step = "store"] ELSE [@ EXCEPT !.todo = @ \ {First(@)}]]
  /\ UNCHANGED <<day, registered, row, check, crashes, hist>>

\* mutant: an attempt that reached nobody counts as sent
NextDeadline_CountsFailures(s) ==
  /\ sender[s].step = "send" /\ sender[s].to = {}
  /\ sender' = [sender EXCEPT ![s].step = "store"]
  /\ UNCHANGED <<day, registered, row, check, crashes, hist>>

\* If nobody could be told, the next deadline is tried.
NextDeadline(s) ==
  LET rest == sender[s].todo \ {First(sender[s].todo)}
  IN /\ sender[s].step = "send" /\ sender[s].to = {}
     /\ sender' = [sender EXCEPT ![s] =
          IF @.sent THEN [@ EXCEPT !.step = "store"]
          ELSE IF rest = {} THEN NoSender
          ELSE [@ EXCEPT !.todo = rest, !.to = Destinations]]
     /\ UNCHANGED <<day, registered, row, check, crashes, hist>>

\* One success is enough: the deadline counts as sent.
StoreSent(s) ==
  /\ sender[s].step = "store"
  /\ row' = [row EXCEPT !.sent = First(sender[s].todo)]
  /\ missed' = FALSE
  /\ sender' = [sender EXCEPT ![s] = NoSender]
  /\ UNCHANGED <<day, registered, check, crashes, told, repeated, excused>>

-----------------------------------------------------------------------------
(* Time, the registry, crashes *)

Day ==
  /\ day < MaxDay /\ day' = day + 1
  /\ UNCHANGED <<registered, row, check, sender, crashes, hist>>

\* The owner renews: a new period, of whose end nobody has been told anything.
Renew ==
  /\ registered # day + Period
  /\ registered' = day + Period
  /\ told' = {}
  /\ excused' = Underway(Senders)
  /\ UNCHANGED <<day, row, check, sender, crashes, repeated, missed>>

Crash ==
  /\ crashes < MaxCrashes /\ crashes' = crashes + 1
  /\ check' = [m \in Monitors |-> NoCheck]
  /\ sender' = [s \in Senders |-> NoSender]
  /\ excused' = excused \cup Underway(Senders)
  /\ UNCHANGED <<day, registered, row, told, repeated, missed>>

Beat(m)  == FindOrCreate(m) \/ CheckedRecently(m)
Reply(m) == Lookup(m) \/ StoreCheck(m) \/ StoreError(m)
Deliver(s) == \E d \in Destinations : SendOk(s, d) \/ SendError(s, d)
Work(s)  == Find(s) \/ Deliver(s) \/ NextDeadline(s) \/ StoreSent(s)

Next ==
  \/ \E m \in Monitors : Beat(m) \/ Reply(m)
  \/ \E s \in Senders : Work(s)
  \/ Day
  \/ Renew
  \/ Crash

\* Heartbeats come again and again; lookups and deliveries end.
Fairness ==
  /\ \A m \in Monitors : WF_vars(Beat(m) \/ Reply(m))
  /\ \A s \in Senders : WF_vars(Work(s))

Spec == Init /\ [][Next]_vars /\ Fairness

-----------------------------------------------------------------------------
(* Properties *)

\* A destination is told of a deadline once in a period of registration, whichever monitor's
\* heartbeat does it, unless calls overlap or a crash loses what was sent.
ToldOnce == ~repeated

ToldDeadlines == {p[2] : p \in told}

\* "Trigger notification when domain names expires in" (src/lang/en.json:1508): what counts as
\* sent for the period that is stored was sent in that period.
SentWasTold ==
  row.expiry = registered /\ row.sent # None => row.sent \in ToldDeadlines \cup excused

\* The same, but for a renewal that met a row without a valid date.
SentWasToldUnlessMissed == SentWasTold \/ missed

\* A domain that runs out is announced to somebody, if lookups succeed and destinations
\* accept the message from some point on, also when earlier attempts failed.
RunsOut == \E n \in NotifyDays : registered <= day + n
LookupFailed(m) == check[m].step = "lookup" /\ check'[m].step = "store" /\ check'[m].answer = None

ExpiryIsAnnounced ==
  (/\ <>[](RunsOut /\ row.expiry = registered /\ ~missed /\ excused = {})
   /\ <>[][\A m \in DOMAIN check : ~LookupFailed(m)]_vars
   /\ <>[][\A s \in Senders, d \in Destinations : ~SendError(s, d)]_vars)
  => <>[](told # {})

=============================================================================
