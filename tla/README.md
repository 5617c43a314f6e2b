# Uptime Kuma in TLA+

Models, model-checking runs and proofs about Uptime Kuma: which monitor is being
checked by whom, what a check leads to, what subscribers are told and what that is
worth, what the statistics count, when a maintenance is in effect, what the caches
and the tables say together, and what a browser shows of it all.

```
tlc -config lifecycle_serial.cfg MCMonitorLifecycle.tla     # any run of PROJECT.json
tlapm MonitorLifecycleProofs.tla                            # the proofs
```

## 1. The system

The server is one Node.js process with one event loop. Code between two `await`s
runs undisturbed; at every `await` (a database query, a check over the network, a
notification) any other callback may run. State lives in the database (SQLite
through a pool of one connection, or MariaDB through a real pool), in lists kept
in memory beside it, and in the closures of timers. Nothing is transactional,
apart from the schema migrations. That is where the hard behaviour comes from:
handlers of socket events, HTTP requests, heartbeats and cron jobs interleave at
their queries, and the process may be killed between any two of them.

| Component | State | Operations | Hard part | What makes it correct |
|---|---|---|---|---|
| Monitor lifecycle (`server.js`, `model/monitor.js`) | `monitor` rows, `server.monitorList`, each `Monitor` object's timer and `isStop` | add, editMonitor, resumeMonitor, pauseMonitor, deleteMonitor, startMonitors; `start`, `beat`, `stop` | handlers overlap; `stop` during a check; crash between the row and the object | one chain of heartbeats per active monitor, none for the others, with the stored configuration |
| Heartbeat evaluation (`monitor.js` `beat`) | previous heartbeat and retries in a closure, `heartbeat` table | check, decide, announce, store | the status sequence decides what is announced; edits and pushes write the same table | every outage announced once, retries exact across restarts, resends in time |
| Push API (`routers/api-router.js`) | `heartbeat` table | `/api/push/:pushToken` | decides with a heartbeat it read before several awaits | agrees with `beat`; silence is noticed |
| Monitor types (`monitor-types/`, `beat`) | connections, timers | `check()` | it sets the status and then throws or returns; clients stay open; no limit of time | what a heartbeat says is what was found, what was opened is closed, a silent service does not end the beating |
| Conditions (`monitor-conditions/`, `EditMonitorConditions.vue`) | the tree in the form | add, remove, choose, save; evaluate | evaluation from left to right with early words ignored; what the form lets one save | judged by the rule that is shown; no saved tree fails every check |
| Uptime statistics (`uptime-calculator.js`) | calculator list, three limited queues each, three `stat_*` tables, cached beans | `getUptimeCalculator`, `init`, `update`, `getData`, `clearStatistics` | four tables written without a transaction, shared object used while it loads | every stored heartbeat counted once in each window, memory and tables agree |
| Maintenance (`model/maintenance.js`) | `maintenance` row, bean, cron job, timer | add, edit, pause, resume, delete; `run`, `startEvent` | timers and jobs that outlive the configuration that made them; restarts inside a window | in effect during its windows and at no other time |
| Groups (`monitor.js`, `server.js`) | `monitor.parent` | edit of a parent, unlink, recursive delete, walks up | several queries per decision | the tree stays a tree, a deletion leaves no member |
| Notifications of monitors (`server.js`, `notification.js`) | `monitor_notification` | store a list, apply to all, delete | rows replaced one by one | nobody is alerted twice; the list is what was asked for last |
| Notification providers (`notification-providers/`) | none | `send()` | several requests or recipients, retries | a resolved promise means somebody was told, a rejected one that something went wrong |
| Notification dialog and forms (`NotificationDialog.vue`, `notifications/*.vue`) | the object being edited | show, change type, submit | one object through 108 forms | a saved notification has what its provider cannot do without |
| Settings (`settings.js`) | `setting` table, cache | `get`, `set`, `setSettings`, cleaner | a late answer fills the cache | an outdated value has a reason and passes |
| Site checks (`site-check-runner.js`) | `site_check` rows, the set of running checks | collect, compare, deliver | partial delivery, edits during a collection, crashes | every transition told once to every destination |
| Domain and certificate expiry (`model/domain_expiry.js`, `monitor.js`) | `domain_expiry`, `monitor_tls_info`, `notification_sent_history` | check, notify, forget | monitors share a domain; calls overlap; renewals | each deadline told once per period, and told at all |
| Status pages (`model/status_page.js`) | pages, groups, domains, entry page | add, save, delete | many rows replaced one by one, copies in memory | domains and entry page lead to existing pages |
| Response cache (`modules/apicache`) | cached answers | answer, store, clear | an answer read before a clear | an outdated answer has a reason and passes |
| Aggregate table migration (`database.js`) | `stat_*` tables, state setting | migrate, reset, nightly clear | interruption, several servers | nothing counted twice, no half statistics served |
| Embedded MariaDB | child process, `started` | start, restart, stop | stop against the close event | one child process at most; `start()` resolves |
| Browser (`mixins/socket.js`, `MonitorListItem.vue`) | copies of monitors and heartbeats | receive, reconnect, drag | messages overtaken by changes, lost connections | the copies settle on what is stored |
| Jobs, rate limiter, authentication, lists of proxies and hosts, other pages, scripts | | | | see section 7 |

Interaction: handlers and `startMonitors` call `start` and `stop` of instances
(lifecycle). An instance's `beat` asks for maintenance and parents, decides, calls
the providers, updates the calculator and stores the heartbeat (chain, then
statistics). The push route does the same from an HTTP request. A `push` beat
reads what the push route stored. Maintenances are read by both routes. The
models meet at these calls: `checking` in the lifecycle is the whole of
`HeartbeatChain`'s stages `check` to `store`, and "a recorder" in `UptimeStats` is
the writer of a heartbeat between deciding and storing. `MonitorTypes` is what is
behind the results a check may have in `HeartbeatRules` (its outcome `lateError` among
them), `NotificationProviders` what is behind "delivered" and "failed" in `SiteChecks`,
`DomainExpiry` and `CertExpiry`. `MonitorTree` and `ClientMonitorList` are two views of the
same handlers: what they store, and what they tell browsers.

## 2. The modules

| Module | Models |
|---|---|
| `MonitorLifecycle` | rows, instances, timers, handlers, boot, crashes |
| `HeartbeatRules` | the decisions for one heartbeat, as operators |
| `Alerting` | abstract: what the subscribers of a monitor are promised |
| `HeartbeatChain` | the heartbeats of one monitor; composes `HeartbeatRules`, implements `Alerting` |
| `MonitorTypes` | one check, by type |
| `MonitorConditions` | the editor of conditions and their evaluation |
| `UptimeStats` | the calculator and the tables behind it |
| `MaintenanceWindow` | one maintenance |
| `MonitorTree`, `NotificationLists` | parents of monitors; notifications of monitors |
| `NotificationProviders` | one send, by provider |
| `NotificationForms`, `NotificationNeeds`, `NotificationDialog` | what forms ask for, what providers need, the dialog between them |
| `SiteChecks` | site checks and their alerts |
| `DomainExpiry`, `CertExpiry` | notices that a domain or certificate runs out |
| `SettingsCache`, `ResponseCache` | the two caches |
| `StatusPages` | pages, groups, domains, entry page |
| `DatabaseMigration`, `EmbeddedMariaDB` | the aggregate migration; the database process |
| `ClientMonitorList`, `ClientHeartbeats` | what a browser shows |
| `MC...` | instances for TLC |
| `...Proofs` (of `MonitorLifecycle`, `MaintenanceWindow`, `UptimeStats`), `SiteChecksProofs` (and of `SettingsCache` and `ResponseCache`), `HeartbeatChainProofs` (and of `ClientHeartbeats`), `DatabaseMigrationProofs` (and of `StatusPages` and `EmbeddedMariaDB`), `MonitorTreeProofs` (and of `NotificationLists`), `ExpiryNoticesProofs` (of `DomainExpiry` and `CertExpiry`) | theorems (section 5) |

Each module is a specification of its own (`Init`, `Next`, and `Fairness` where it promises
something in the end). The small ones are checked several at a time: `MCCalendar`,
`MCRecords` and `MCServices` hold instances of them side by side, and a variable `part` that
never changes says which one a behaviour is about, while the variables of the others
keep one initial state. `MCUptimeStats`, `MCCalendar` and `MCRecords` extend one of their
specifications (`UptimeStats`, `MaintenanceWindow`, `DatabaseMigration`) instead of holding an
instance of it, so that the run checks the very definitions its theorems are about. The other
properties of these modules are conjunctions of those of the instances, each under its `part`.
The instances' assumptions are checked as `InstanceAssumption`.

Operators whose name ends in `_Something` and whose comment begins with "mutant" are
plausible bugs of the definition they stand before. No specification uses them; they
show that the properties notice such a bug.

Where queries become steps: a query and the code that runs with its answer are one
step wherever no other code can tell, and two steps ("Delivered" in
`MonitorLifecycle`) where another query may be answered between them. In-memory
code between two awaits is never split. `redbean-node` is external: `R.store` of a
loaded bean is an UPDATE of that row (nothing happens if it is gone), of a new one
an INSERT.

### MonitorLifecycle

`row` and `config` are the table (`config` counts the edits stored), `monitorList` is
`server.monitorList`, `phase` and `isStop` belong to instances, `pc`, `target`,
`held`, `wasActive` to handlers. Instance `<<m, 0>>` is the one `startMonitors` loads.
The phases follow `start()`: `tags` (awaiting `getTags()`), `waiting` (a timer is
armed), `checking` (inside `beat`), `dead`. `start()` never looks at `isStop`, nor does
the branch of `beat` for a push monitor that is in time; the end of `beat` and the
catch block of `safeBeat` do. `await stop()` is one step: nothing is awaited in it but
a resolved promise. The handler `add` goes on to `startMonitor` for an active monitor;
`editMonitor` decides about the restart with the bean it loaded at first and with the
parents as they are now (`CheckActive`); the state of a parent is a free choice for
`GroupMembers`.

Switches: `Pooled` (MariaDB's pool; otherwise an answer is handled before the next
query takes effect, SQLite's pool being one connection), `EarlyUsers` (socket events
before `startMonitors` has filled the list: the server listens before that),
`Failures` (any query of a handler may throw).

### HeartbeatRules and HeartbeatChain

`beatResult` is the flow of status and retries through `beat`, with the catch block;
`determineStatus`, `isImportantBeat` and `isImportantForNotification` keep their names;
`beatNotice` and `pushNotice` are the two, different, treatments of `downCount`. Status
codes 0 to 3 are written as names. Retries are counted up to `MaxRetries` and cut off
there (`Cap`): every test is `retries < maxretries`.

A writer is an instance (`Slots`: the current one and those finishing a check) or a
push request. Its stages are `read` (previous heartbeat), `check`, `alert`
(`sendNotification`), `store`. `previous` and `retries` of an instance are its
closure; they are read from the table by a new instance and, every time, by a push
monitor. The table is reduced to the heartbeat with the latest time (what `beat`
reads) and the one inserted last (what the push route reads); these differ when a
heartbeat is stored after one of a later time, which `earlier` and `outdated` follow.
`quiet` bounds how often a push monitor may still find the last push recent: two
beats, then the interval and its buffer are over. A restart of the process is, for
one monitor, a restart of its instance between beats; the configuration of the rules is
constant, so a change of `maxretries` in an edit is not modelled.

History variables: `confirmed`, `muted`, `told`, `parity` are `Alerting`'s variables,
`streak` and `silent` count failed checks and unannounced DOWN heartbeats.

### UptimeStats

A bucket is the number of its heartbeats (`up`, `down`, `maintenance` and the ping
figures are written by the same assignments). Minutes, hours and days keep their
structure, with short hours and days. `mem` and `stack` are a `LimitQueue`; `Push`
keeps its behaviour of appending a key again when the value is replaced. Buckets are
objects: `bucket` is all of them, `mem` says which one a key has, and one that has left its
list lives on for the recorder that holds it (`held`). `update()` goes through the lists
minutes first and ends with a TypeError where a bucket it has just made room for is gone
again (`Reached`). `counted` and `recent` count heartbeats by minute, hour and day, as `beats` does.
`bean` is the cached `last*StatBean`; `row = None` in a bean means it has not been inserted.
`era` tells a row from a later one with the same key, whose id differs.

Switches: `Hasty` (a calculator may be handed out while its `init` runs: it is on the
list before it is loaded), `Clearing` (`clearStatistics` may be called). `InTurn` is what most
of the properties need: neither of them, and one recorder.

### MaintenanceWindow

Time is in slots, `DayLen` to the day, and what falls due in a slot is handled in it
(`Tick` waits for `Quiet`). `job` is `beanMeta.job` with the closure of the `run()` that
made it (`current`, the pattern, the strategy), `timer` is `durationTimeout`. The
configuration is the set of fields the code reads: strategy, the slots in which the cron
pattern fires (any set of them), duration (any number), date range. Windows may therefore
overlap, and `RunningTimeslot` is the first that is running, as `getRunningTimeslot` looks for
the first firing after `now - duration`. Two things are left to the source: the 1.1 hours by which the
test of the interval is widened, less than a slot, and `startAt`, which keeps an interval
maintenance from starting before its start date as `getStatus` does anyway.
`loadMaintenanceList` does not wait for `run()`; the model lets handlers begin when the
time zone of the boot is known. Handlers of other maintenances do not interfere. An edit whose
pattern is none (`Refused`) changes the bean and nothing else.

### MonitorTypes

A heartbeat begins DOWN (UP upside down). The check of a type is a set of plans; a plan is
the order of what it awaits, where it sets the status, what it opens and closes, what
it does without a limit of time (`patient` steps). Any wait may fail, and a service, or
the destinations of notices, may fall silent at any point (`mute`): a notice about a certificate is
sent, and awaited, within the check (`CertNotices`). The verdict is what `HeartbeatRules!beatResult` makes of
the way the check ended. A type that only differs in what it asks for shares its plan.

### MonitorConditions

The tree of the form is a set of numbered vertices with ordered children. Each way the
three components change it is an action; saving is no action, as what is shown can be
saved at any time. `Evaluate` is the evaluator, with the texts abstracted to how what was
read relates to the value of a condition (`Readings`: the same, longer, with a leading
zero, other, no number). `Rule` is the reference: a list of conditions is a disjunction
of runs, stated without an order of evaluation.

### MonitorTree and NotificationLists

`request` is a handler between two of its queries. In `MonitorTree` deletion is a stack of
frames, one per level of the recursion, each with the children it read; `walker` is a walk
up (`isParentActive`). When edits move the tree under a deletion its stack may grow beyond the
number of monitors. In `NotificationLists` a list is emptied by one query and inserted
by one query per notification, while "apply on all" looks for each monitor whether it has
the notification and inserts it. Deleting cascades.

### NotificationProviders

A provider is a set of plans by what the notice is about (`msg`, DOWN, UP, a test), a plan a
sequence of stages: one request, one of several recipients, a retry, a stage that may
throw before anything is sent. `promise` is what the caller learns, `told` who was reached.
A lost answer reaches the recipient and fails.

### NotificationForms, NotificationNeeds, NotificationDialog

`NotificationForms` has one definition per form: the fields it requires, offers, and sets when
it is mounted, by the choices that show or hide others. `NotificationNeeds` has one
definition per provider: what it reads without a fallback, by the same choices, and where
one of several fields is enough (`anyOf`). The dialog keeps one object
through all changes of the type and keeps the form of the type shown last mounted.
`NotAskedFor` lists the fields that are needed but that no form asks for; the property is
that there are no others.

### SiteChecks, DomainExpiry, CertExpiry

Each has its stored row, the copies that running calls hold, deliveries one destination
at a time with lost answers (`LostAnswers`), edits, crashes and a clock of days. What was
really told is kept in history variables (`heard`, `told`, `announced`), which only the
properties read. A period of registration and the validity of a certificate are two or
three days; `Bad` is the "Invalid Date" an RDAP answer without a date leaves.

### SettingsCache, ResponseCache, StatusPages, DatabaseMigration, EmbeddedMariaDB

`SettingsCache`: a `get()` that misses is two steps, and the cleaner's loop variable is the
parameter of the call that started it (`Captures`); the stores of a `setSettings()` that has rejected
run on. `ResponseCache`: a version is a change
that was stored; an answer has the version it was read at, and `made` says how the change
came about, as some handlers clear before they store and some not at all. `StatusPages`:
saving is a dozen queries, with the transaction of the domains as one step, which may be rolled
back for what it is given (`DomainsFail`).
`DatabaseMigration`: a date of a monitor is counted by one step per heartbeat, without a
transaction. `EmbeddedMariaDB`: processes print, exit and close in their own time, the class
learns of each by an event.

### ClientMonitorList and ClientHeartbeats

`rows` is the table with the notifications linked to each monitor, `mirror` the browser's copy,
`wire` the messages on the way. A handler stores a row at once; the links (`clear`, `fill`)
and the message that is prepared (`read`) and sent (`tell`) are tasks, and at each that
queries the database it may end (`Fail`), leaving what it has stored; a drag then gets an
answer that brings the old parent back. `Apply` changes the links of some monitors and sends
none of them. A login reads the whole list and sends it to the whole room. The history
variable `untold` holds the monitors not sent since they changed (with another monitor, by
`Apply`, or by a handler that failed), `late` those whose last message was overtaken: for
these the copy may differ, for no others, so that a drag of another monitor takes nothing
back. Other records a monitor refers to (proxies, Docker hosts, tags) and `getMonitorList`,
which sends the list again, are left out.
`ClientHeartbeats` numbers the heartbeats of one monitor; `missed`, `wiped` and `twice` hold
those that fall into one of three windows between two queries.

## 3. The runs

| Run | Instances | States | What it shows |
|---|---|---|---|
| `lifecycle_serial` | 2 monitors (one a push monitor in a group), 1 handler, 1 edit, 1 crash | 736,391 | with one event at a time, a paused or deleted monitor has no live instance, an active one runs with the stored configuration, a stopped instance arms no timer |
| `lifecycle_pooled` | 1 monitor, 2 handlers, pool, failing queries, 1 crash | 818,364 | `NoOrphan`: an instance that is not in `monitorList` has been stopped and has no next check (push monitors, which `lifecycle_push_zombie` shows to be different, are excepted by the formula) |
| `lifecycle_live` | 1 monitor, 2 handlers, 1 crash, fair | 146,646 | an active monitor is watched whenever no handler works on it; its next check always comes; a stopped chain ends |
| `lifecycle_push_zombie` | 1 push monitor, 1 handler | violation | a stopped push monitor arms a timer again |
| `chain` | "alerts": 2 slots, `MaxRetries` 2, `ResendInterval` 3, 2 restarts, 2 exceptions or crashes; "push": 1 push request at a time, edits during a beat; fair | 415,144 | `beat` implements `Alerting`, in which a fault before the store is what lets an announcement be repeated (`KeepsThePromise`); retries are exact across restarts, exceptions and crashes and resends come in time (`CountsAreKept`); both routes agree but for `status=down`, and upside-down mode is the mirror image; a lasting outage and a lasting silence are noticed |
| `uptime` | "serial": 1 recorder, 1 reader, 4 minutes in hours of 2 and a day of 4, limits of 2, 2 crashes; "overlap": 2 recorders, `Hasty`, `Clearing` | 982,029 | in turn, stored heartbeats are counted, memory and tables agree and no update fails (`StatsAgree`), lists keep within their limits and statistics never shrink; overlapping, none is counted twice (`OverlapCountsOnce`) |
| `calendar` | a domain of 2 monitors, 2 overlapping notifications, certificates with 1 and 2 calls, one maintenance of 6 configurations, one with overlapping windows, over 8 slots; refused edits; crashes; fair | 494,423 | each deadline is told once and what counts as sent was sent; what runs out is announced; a maintenance is in effect during its windows only (those of `Forgotten` apart), rows and beans agree but for an edit that was refused, and no job runs that nothing would stop (`MaintenanceIsSound`) |
| `maintenance_interval` | every second day | violation | the interval maintenance starts once |
| `site_alerts` | 1 monitor, 2 destinations, 2 targets, threshold 2, lost answers, 1 edit, 1 crash, fair | 470,292 | alerts alternate per destination, come at the threshold and reach everybody in the end; every run frees its slot |
| `site_lost_recovery` | 1 destination, 1 crash | violation | a failure after a recovery that was told but not stored is told to nobody |
| `records` | settings with overlapping reads or writes; a tree of 3 with 2 requests; 2 monitors and 2 notifications; 2 status pages; a migration by 2 servers; the editor of conditions; a browser with 3 monitors and 2 requests, one that logs in and reconnects twice around a request, both with failing queries, one with 3 heartbeats | 605,381 | rows of several tables, their copies in memory and in browsers agree, up to what the history variables name |
| `services` | the two caches, the database process, every provider, every type, the dialog; fair | 241,759 | outdated answers have a reason and pass; the database comes up once; promises of providers, verdicts of checks and saved notifications are what they seem |

Why the bounds suffice. Lifecycle: a race needs two handlers on one monitor and one
instance more than there are handlers; a second monitor only matters at boot, which
registers all, and is there in the serial run. Chain: with a new instance per restart
two slots are the running one and one finishing; two faults put one before and one after a heartbeat that was announced again; `MaxRetries = 2` tells a counter from a
flag and `ResendInterval = 3` an off-by-one from a reset. Statistics: limits of 2
make buckets leave every list, the clock crosses a minute and an hour, and two
crashes put a crash before and after a reload. The overlapping part stands still in
time, since the interleavings it is about fall within a minute. Maintenance: windows
across midnight, windows cut by an end date, windows that overlap the one before and two whole
days are within 8 slots.
Site checks: two destinations are one that got it and one that did not, threshold 2
tells counting from a flag, and two targets are what an edit needs. Expiry: two days to
the deadline and one to renew; two deadlines where their order matters. Tree: a group in
a group is what a search of one level misses. Lists: three requests with a crash are
enough to empty, fill and delete around each other. Pages: two of everything, three
requests. Migration: two days of one monitor and a second monitor tell the loops apart.
Conditions: four vertices hold a group within a group with its condition, or a list of
three before and after a removal; four changes build and unbuild it. Browser: a group in
a group for what is not told, two requests at a time for what
overtakes; a browser is logged in at first there, and logs in in the smaller instance, where the connection is lost before and after. Heartbeats: three
with histories of two, so that a history is full and one falls out of what is shown.
Providers: three recipients have a first, a middle and a last.
The counters `Max...`, `Procs`, `CertCrashes` and `LastDay` are tested where a user, the world or
the clock begins something, never where the program continues.

Deadlock is checked where the system cannot stop (lifecycle, chain, site checks); in
the other runs the world may have nothing left to do within the bounds.

**Fairness.** Weak fairness of single steps of the program: timers fire (`setTimeout`,
`setInterval`), queries are answered, `startMonitors` goes through its list, a process that was
started prints or ends. Checks end in `MonitorLifecycle` and `HeartbeatChain`: that is an
assumption, and `MonitorTypes` says for which types it rests on a limit in the code
(`WaitingEnds`), but for the notices about certificates (`Untold`), and which are `Patient`. No fairness is given to users, pushes,
failures, restarts or crashes: they are bounded or free. Properties that need a steady
world say so in their premise (checks fail from some point on, pushes have ceased,
deliveries succeed). `MCHeartbeatChain` states the fairness of `HeartbeatChain` by the stage a
writer moves on from (`Moves`), which amounts to the same there and is evaluated sooner.

## 4. What the runs found

The three runs that end in a violation:

1. `lifecycle_push_zombie`: the push branch of `beat` re-arms its timer without looking at
   `isStop` (`model/monitor.js:777`), and so does the first timer of `start`. A push
   monitor edited, paused or deleted during its beat keeps a chain that looks at the
   table and may store heartbeats; "isStop = true, no next check" does not hold for it.
2. `maintenance_interval`: with `interval_day` above 1, `last_start_date` is set from the
   time of `run()` and compared with that same time, so the maintenance starts once
   until an edit, a resume or a restart.
3. `site_lost_recovery`: delivery state is stored once, after all deliveries; a crash between
   a delivered recovery and the store makes the next failure look told.

What the other modules say in their properties as exceptions, or state without a run.
They are limits no document rules out, or that were refuted by TLC in larger instances:

*Lifecycle, heartbeats, statistics, maintenance*
- `InactiveIsQuiet` with two handlers: a pause that completes between the UPDATE and the
  `findOne` of `startMonitor` leaves a running instance for a paused monitor. `ConfigFresh`
  with two handlers: `editMonitor` decides with the `active` it read first. `NoOrphan` with
  `EarlyUsers` and `Pooled`: `startMonitors` overwrites what an early event registered.
- `OutageIsTold`, `RecoveryIsTold` with pushes or edits during a beat: the last announcement
  may contradict the last heartbeat. `NoDownToPending`: "DOWN -> PENDING = this case not
  exists" (`monitor.js:1406`), but types that set PENDING themselves do this, and the
  recovery through PENDING is never announced.
- A beat announces (`monitor.js:977`) and stores two queries later (`:1077`). When the store
  or a query before it throws, `safeBeat` arms the timer and the beat is forgotten, but for
  the retries in the closure; a crash forgets those too. The same outage or recovery is
  then announced again; or the next beat meets a success that was announced as no change
  ("up" was told, DOWN is stored, the monitor fails again: without reminders nobody hears of it);
  or, as the closure counts from 0 after the lost success, DOWN is followed by PENDING and a
  recovery from there is silent. `Fail`, `Crash` and, in `Alerting`, `Lapse` are these steps,
  and `unsure` is how long their effect lasts.
- `status=down` on the push route ignores `maxretries` (`api-router.js:590`), which
  `PushAgreesWithBeat` states as its exception.
- `NoUseBeforeInit` with `Hasty` and `ClearedStaysCleared` with `Clearing`: a heartbeat is counted in
  a calculator that is not loaded; an update under way brings back cleared counts.
  `UpdateNeverFails`: two heartbeats at the start of a period both insert its row and one
  `update()` throws (`uptime-calculator.js:210`, `:386`).
- `NoStrayJob` with two handlers: two overlapping `run()`s leave a job nothing stops. An edit
  that is refused for its pattern is in the bean all the same (`maintenance-socket-handler.js:56`):
  it takes effect where `getStatus` reads the bean, the next window stores it with the last
  start, and after a restart the maintenance has no job (`Refused`, `NoJob`).
- `InEffect` without `Forgotten`: where windows of one maintenance overlap (a pattern that
  fires again within the duration), an edit, a resumption or a restart while two are open takes up
  the first alone (`maintenance.js:346`, `:321`), and the maintenance ends with it although the second
  has begun.

*Checks* (`MonitorTypes`)
- A check that throws after it has set UP is recorded as UP (`SetsUpEarly`: TCP with TLS,
  `tcp.js:130`; the real browser when its context fails to close; tailscale). The comment
  in `monitor.js`, "If UP come in here, it must be upside down mode", does not hold for them.
- A check that returns without a word counts as a success upside down (`MayBeMute`).
- Clients stay open after a failure (redis, mongodb, gRPC) or always (Kafka producer):
  `LeavesOpen`. Fourteen types ask something without a limit of time: `Patient`.
- A check that finds a certificate about to expire awaits the delivery of the notices
  (`monitor.js:678`, `monitor.js:1575`, `tcp.js:267`), which has no limit: while a destination does
  not answer the monitor is not checked (`Untold`).

*Conditions*
- A group within a group can lose all it holds; it is saved, and the evaluator throws on
  every check (`unnested`). `num_equals` is never true and `num_not_equals` always true for
  the JSON value of MQTT, which is a text (`mqtt.js:116`) compared with `===`
  (`operators.js:183`). A CAA record without an issue makes every operator of texts but
  two throw. A change of the variable keeps an operator it does not offer.

*Notifications*
- SMSIR does not await its request (`smsir.js:49`); BearSMS, SMSEagle and Nostr are resolved
  when one of several recipients was reached. Google Chat's comment speaks of a default of
  3 where the code has 1; a negative number of tries, which the form does not take, posts
  nothing and is resolved. No provider's request has a limit of time.
- Fields that providers need and no form asks for (`NotAskedFor`): among them Octopush's
  `octopushDM...` (version 1), the event kinds of PagerDuty and Splunk, PagerTree's URL,
  Nextcloud's host and token, SMSManager's key and numbers, Webpush's subscription. SMSEagle's
  form for API v2 requires none of its three kinds of recipients (`SMSEagle.vue:131-162`), and
  the provider posts without any (`smseagle.js:95-103`).
  `octopush.js:41` reads fields under names no form uses. A text that is emptied is
  not replaced by its default where the code uses `??` (`telegramServerUrl`).

*Records*
- `CacheHoldsOwnValue` with `SlowQuery`: the cleaner's loop changes the key under which a slow
  query is cached (`settings.js:33`).
- `Acyclic` with overlapping edits: two moves that cross each other make a cycle, which
  `getAllChildrenIDs` walks for ever. A member moved out during a recursive deletion is
  still deleted. Overlapping edits give a monitor double rows in its list, and an alert
  between the DELETE and the INSERTs finds none.
- A domain of a deleted page leads to a later page with the same slug
  (`status-page-socket-handler.js:482`); the four properties of pages fail when requests overlap.
  A save whose list of domains is refused (`status_page.js:385`) has stored the new slug: the map
  and the entry page keep the old one (`outdated`, `adrift`). `setSettings` takes any entry page,
  also that of a page another client has deleted (`server.js:1160`, `adrift`).
- `NothingLost`: the reset that `database.js:908` advises after an interrupted migration loses
  heartbeats that were cleared. `StopIsFinal`: a database process that is starting when the
  server stops stays, and a program that is missing is started again at once for ever
  (`embedded-mariadb.js:111`).
- Incidents, new status pages, edits of maintenances and the starts and ends of recurring ones do
  not empty the response cache; heartbeats empty it before they are stored.

*Browser*
- Of a recursive deletion only the direct members are told (`server.js:828`), so deeper ones
  stay in the lists. Pausing, resuming or moving a group tells of the group alone; the
  members' `active` and the ancestors' `childrenIDs` stay as they were (`untold`).
- A monitor read before its deletion and sent after it comes back (`late`). Two refused
  drags in flight restore the wrong parent. A drag after a reconnect, before the list has
  come, takes back what was edited meanwhile.
- `applyExisting` and the deletion of a notification change the `notificationIDList` of monitors
  and send none (`notification.js:296-350`, `server.js:1199-1215`). A drag then sends the old
  list back (`MonitorListItem.vue:283-291`): the notification just applied is unlinked again
  without a word, and one that was deleted fails in `updateMonitorNotification`, after
  `R.store` and after the `DELETE`, so that the monitor keeps its new parent, has lost its
  notifications, and the browser shows the old parent (`untold`).
- Any error after `R.store` in `editMonitor` (`server.js:635-655`) leaves the row changed and
  tells no browser; a dragged monitor is shown with its old parent until the next login.
- A heartbeat between the join of the room and the query is shown twice, one sent before
  the join and stored after the query is missing, a clear takes away what came after its
  query (`twice`, `missed`, `wiped`).

## 5. What is proved

Eight modules of proofs; every leaf is checked by `tlapm`.

`MonitorLifecycleProofs`, for every set of monitors and handlers and all bounds:

| Theorem | Statement |
|---|---|
| `TypeCorrect` | `Spec => []TypeOK` |
| `NoOrphanHolds` | without `EarlyUsers`, `Spec => []NoOrphan`: what was replaced or removed is stopped and, push monitors apart, has no next check |
| `NoNextCheckHolds` | `Spec => []NoNextCheck` |
| `InactiveHolds` | without `EarlyUsers`, `Spec /\ []OneAtATime => []InactiveIsQuiet` |
| `ConfigFreshHolds` | without `EarlyUsers` and `Failures`, `Spec /\ []OneAtATime => []ConfigFresh` |
| `ActiveIsMonitoredHolds` | without `EarlyUsers`, `Failures` and `Pooled`, `Spec => []ActiveIsMonitored` |

`NoOrphan` follows from `NoNextCheck` and `LiveIsRegistered`: an instance that will go on
beating is the registered one. That is not inductive: `BootRegister` overwrites `monitorList`, which would orphan
whatever runs by then. The missing fact is `BootFirst`: until `startMonitors` has filled
the list no handler has begun and every instance is at most loaded, so nothing is
live that could be overwritten. `IInv == TypeOK /\ BootFirst /\ LiveIsRegistered` is inductive. The
steps that matter are `Register` and `Unregister`, where the instance that leaves the list
is stopped in the same step, and `BootRegister`; an instance becomes live only in the
step that registers it. `NoNextCheck` is inductive together with `TypeOK`. `~EarlyUsers` is a
hypothesis because the theorem is false without it (section 4).

The last three relate the row to what runs. `OneAtATime` says that no two requests work on the
same monitor; requests for different ones overlap in any way, and with one handler it always
holds (run `lifecycle_serial`). The runs checked one handler, the theorems say that overlaps
across monitors do no harm. What has to be known is what a handler that is between two queries
still owes:

- `InactiveIsQuiet`: whatever may still beat belongs to an active row, or a handler is about to
  stop it (`LiveIsOwed`); a row that was found active is still so when its instance is
  registered (`RowIsFound`). `pauseMonitor` changes the row first and stops afterwards,
  `deleteMonitor` the other way round, hence `StoppedBeforeDelete`.
- `ConfigFresh`: an instance with an old configuration is about to be replaced by the edit
  (`OutdatedIsReplaced`), which decides by a bean that is still current (`BeanIsCurrent`) and
  loads the row again before it registers (`HeldIsFresh`).
- `ActiveIsMonitored` needs no `OneAtATime` but one connection: then an answer is handled before
  another query takes effect (`OneAnswer`), so that `pauseMonitor` only stops a monitor whose row
  is paused (`StopsPaused`). That `start` never registers an instance that was stopped needs the
  numbers of instances to be given once (`Numbered`).

`SiteChecksProofs`, for all monitors, check types, destinations, targets, thresholds, slots,
edits and crashes, with or without lost answers:

| Theorem | Statement |
|---|---|
| `TypeCorrect` | `Spec => []TypeOK`, the bound on running checks included |
| `AlertsTakeTurns` | `Spec => AlertsAlternate` |
| `FailuresReachTheThreshold` | `Spec => ThresholdKept` |

The two action properties speak of a delivery, but what makes them true was decided
earlier: by the row a run has read, by what it counted, and by what the runs before it stored.
The invariant therefore follows one set of facts (`Agrees`: failures counted, destinations
told) from the row (`RowAgrees`) to the copy a run reads and the state it makes
(`RunAgrees`) and back into the row, and says that what is still to be delivered is still
to be told (`PendingIsDue`). Three places break a naive version. A deleted monitor has no row
while its run goes on: what that run has read agrees with nothing any more, and only the
second look at the monitor (`Reread`) keeps it from being used, hence the case in `Read`. Under
maintenance the state is passed on as it was, so the history it agrees with is the old one
(`Drawn`). A delivery whose answer is lost changes the history and not the state: the
pair is `unsaved`, and agreement is claimed for the others. `Slots` adds that the set of
runs is finite, as its cardinality is bounded; only `Begin` makes it larger.

Its second half is about the two caches. The settings, for any settings, values, reads and
writes in progress together, failing stores and time:

| Theorem | Hypothesis | Statement |
|---|---|---|
| `SettingsTypes` | | `Settings!Spec => []Settings!TypeOK` |
| `StaleHolds` | `SlowQuery = FALSE` | `Settings!Spec => []Settings!StaleHasAReason` |
| `OwnValuesHold` | `SlowQuery = FALSE` | `Settings!Spec => []Settings!CacheHoldsOwnValue` |

The types are split into those of the cache and of the writes (`TwoTypes`), as no step changes
both. A store of `setSettings` is of a key that was looked for and is the only one of its key
(`StoresFound`); an answer on its way is what the table holds unless a store has overtaken it
(`AnswerIsCurrent`). The hypothesis says that no query takes longer than the interval of the cleaner:
its loop assigns to the parameter `key` of a `get()` that waits, and the answer would be cached
under another name (section 4).

The answers of the API, for any routes, requests and handlers at once:

| Theorem | Statement |
|---|---|
| `AnswerTypes` | `Cache!Spec => []Cache!TypeOK` |
| `StaleAnswersHold` | `Cache!Spec => []Cache!StaleAnswerHasAReason` |
| `AnswersForward` | `Cache!Spec => Cache!AnswersGoForward` |

An answer being made has read what is stored, or a store has overtaken it and it counts as late
(`ReadIsCurrent`); what is kept is no older than what was sent (`KeptIsSent`), so that a
hit does not go back; and a store that makes an answer stale also gives it its reason
(`StoreReasons`: emptied before the store, or not at all). Timers that outlived their
entry only remove, which nothing of this minds.

`UptimeStatsProofs`, for any recorders, readers, calculators, limits of the lists, lengths of an
hour and of a day, and crashes:

| Theorem | Hypothesis | Statement |
|---|---|---|
| `StatsCountOnce` | | `Spec => []NothingCountedTwice` |
| `StatsTypes` | `InTurn` | `Spec => []TypeOK` |
| `StatsAgreeHolds` | | `Spec => []StatsAgree`, a part of which is under `InTurn` itself |
| `StatsNeverShrinkHolds` | `InTurn` | `Spec => StatsNeverShrink` |

That nothing is counted twice needs no discipline of the callers. What a row may get is bounded by the
bean on its way to it, that by the bucket its recorder holds, and that by the heartbeats counted of
the period (`CountInv`). A bucket may be shared by its list and several recorders, may have left
the list, and may have been made a second time, from a row, while the first one is still held; the
invariant says that one bucket is of one key only (`GoodList`, `BucketOf`), so that counting in one
never raises the other above its due. `init()` may therefore load into lists in use, and
`clearStatistics()` empty tables under them.

The rest needs `InTurn`; section 4 says what happens without it. In turn,
calculator and tables agree about every period of the window except for the heartbeat in hand, which
is ahead of the tables still to be stored (`Ahead`) and behind in those that are, the heartbeat table
being the last (`Behind`); every step of `update()` moves one of them (`Agreeing`, `BeatsIn`). A list is
in the order of time without repetitions, its keys as far apart as their places (`Ordered`): hence what is
dropped from a full list has left the window, also while rows with gaps between them are loaded. That
the one `R.store()` meets no second row of its period rests on the cached bean: one that has
no row yet is that of the recorder at work (`BeansHaveRows`), and a bean found by a query was asked for
after every other had been stored (`StoreRight`). Between the loading of two lists one of them is
still empty but for the bucket that the key of the query made (`NotLoaded`). A crash forgets what was ahead
and what was behind: the tables are then right about the heartbeats that are stored, which is all the
theorem claims. `init()` is a recursive function over the keys; that such a function exists, and what
it has loaded up to a key, is proved by the well-foundedness of the naturals on sets of keys
(`Stepwise`, `LoadedExists`, `LoadKeeps`).

`HeartbeatChainProofs`:

| Theorem | Hypothesis | Statement |
|---|---|---|
| `TypeCorrect` | | `Spec => []TypeOK` |
| `RoutesAllowTheSame` | | `Spec => []PushAgreesWithBeat` |
| `UpsideDownMirrors` | | `Spec => []MirrorImage` |
| `RetriesSurviveRestarts` | `PlainChecks` | `Spec => []DownAfterRetries` |
| `RemindersInTime` | `PlainChecks` | `Spec => []ReminderSpacing` |
| `BeatImplementsAlerting` | `PlainChecks` | `Spec => ImplementsAlerting` |

Exceptions and crashes happen at any point and any number of times in these theorems. What
they cost is in the abstract specification: `Alerting` concludes nothing before the last
conclusion is on record, and a `Lapse`, one per fault, takes it back to the record with the
announcement made; a repeated announcement or a silent recovery is a step of it only while
`unsure`, or as a reminder where `ResendInterval` asks for them.

`PlainChecks`: no pushes, no edit in the middle of a beat, and checks that succeed, fail or find
a maintenance. It is what the part "alerts" of run `chain` instantiates, and what the code
needs: with pushes or an edit during a beat two writers work from two previous heartbeats,
and types that set PENDING themselves announce no recovery (section 4). The invariant says
that one instance is at work and no heartbeat overtakes another (`Solo`), that its closure
continues what is stored (`Continued`), that the stored heartbeat has the retries of the failures
on record, the closure those of all, and DOWN means that they have passed the limit (`Counts`),
and what a heartbeat means for the state of `Alerting` (`Means`): the stored one for the state
on record (`Recorded`), the one in hand for the state itself (`Announced`). That distinction is
what carries the refinement over restarts and faults. Every step of the chain maps to a step
of `Alerting` or a stutter: a fault to `Lapse`, a store to `Keep`.

Its second half is about what a browser shows of a monitor's heartbeats, for any number of
heartbeats, lost connections and clears and any lengths of the history and of what is shown:

| Theorem | Statement |
|---|---|
| `ViewTypesHold` | `View!Spec => []View!TypeOK` |
| `LatestIsShownHolds` | `View!Spec => []View!LatestIsShown` |

A new heartbeat is sent before it is stored, a login reads its history before it sends it, and a
history goes in front of what is shown: it can only decide what comes last if nothing is shown
yet. The invariant says what the last heartbeat shown will be once all messages have come
(`EndsWithSent`, or `Nothing` as the monitor has none), and otherwise who is going to bring it: a
login that has not read (`AtRead`), one that has read and not sent (`AtSend`), its history on the
way (`OnWay`), or nobody, because the heartbeat fell between the two (`Missed`).

`DatabaseMigrationProofs`, for any servers, heartbeats, dates and starts, provided no two
servers read the state at the same time (`~StartsRace`):

| Theorem | Statement |
|---|---|
| `MigrationTypes` | `Spec => []TypeOK` |
| `NothingIsCountedTwice` | `Spec => []CountedOnce` |
| `NoneIsLeftHalf` | `Spec => []NeverHalf` |
| `NothingUncountedIsCleared` | `Spec => []ClearedWasCounted` |
| `MigrationSound` | `Spec => []MigrationIsSound`, the last three together |

The invariant splits at the server that migrates: what is ahead of it is not counted
(`Ahead`), what is behind it is (`Behind`), there is one of it (`Alone`), and the state it leaves
tells the next server what was done (`Told`).

Its second half is about status pages, for any pages, slugs, domains, groups and crashes:

| Theorem | Hypothesis | Statement |
|---|---|---|
| `PageTypes` | | `Page!Spec => []Page!TypeOK`, with the unique slug and the foreign key |
| `EntryExistsHolds` | `PagesOverlap = FALSE` | `Page!Spec => []Page!EntryExists` |
| `EntryIsStoredHolds` | `PagesOverlap = FALSE` | `Page!Spec => []Page!EntryIsStored` |
| `DomainsLeadHolds` | `PagesOverlap = FALSE` | `Page!Spec => []Page!DomainsLead` |
| `GroupsAsSavedHolds` | `PagesOverlap = FALSE` | `Page!Spec => []Page!GroupsAsSaved` |

The four say how things are between requests, or at the end of a save; the invariant
says of the one request in progress what each step has changed and still owes (`At`): the page has
its old slug until it is stored and the new one afterwards (`SlugAt`), the map is behind only from
there to its assignment, and before the domains are stored only for those of a page that is renamed
(`MapAt`), what is kept is on the page and after the sweep nothing else
(`GroupsAt`), entry page and setting differ only between the change of one and that of the
other (`EntryAt`), and what they name exists unless it is the slug being replaced
(`ShownAt`). What a refused list of domains or a client's choice leaves behind is in the two history
variables of the module, which the properties name. `Resting` is what that leaves when no request is in progress, and what a restart
finds. Without the hypothesis two saves can load the map in one order and assign it in the other.

Its third part is about the process of the embedded database, for any number of processes and
failures, with or without a missing program:

| Theorem | Statement |
|---|---|
| `MariaTypes` | `Maria!Spec => []Maria!TypeOK` |
| `OneServerHolds` | `Maria!Spec => []Maria!OneServer` |
| `StartedIsThereHolds` | `Maria!Spec => []Maria!StartedIsThere` |
| `StopReachesTheServer` | until `stop()` is called, the process that runs is `childProcess` |

`OneServer` alone is not inductive: what keeps the next process from being started next to one
that runs is that only the close event of the one before starts it, so that at most one
process is not yet closed and it is the one the class holds (`OneAtATime`).

`MaintenanceWindowProofs`, for any configurations (any slots in which a pattern fires, any
durations and dates), length of the day, handlers, edits, pauses and crashes. `WindowAssumption`
only gives the constants their types:

| Theorem | Statement |
|---|---|
| `TypeCorrect` | `Spec => []TypeOK` |
| `NoStrayJobHolds` | `Spec /\ []OneAtATime => []NoStrayJob` |
| `RowMatchesBeanHolds` | `Spec /\ []OneAtATime => []RowMatchesBean` |
| `InEffectHolds` | `Spec /\ []OneAtATime => []InEffect` |
| `SoundHolds` | `Spec /\ []OneAtATime => []MaintenanceIsSound`, the last three together |
| `OneRequestAtATime` | with one handler, `Spec => []OneAtATime` |

`OneAtATime` (no two requests, nor the boot and a request, work on this maintenance together) is
what the code needs: two overlapping `run()`s leave a job nothing stops (section 4). A `run()` that
waits for its time zone has stopped the old job (`ZoneHasNoJob`). Row and bean differ only while
a request is between changing one and storing the other, or after a refused edit
(`RowFollows`). `InEffect` compares the status with a window, so the invariant has to say what
the timer will do: while nobody works on the maintenance the job has the pattern of the
bean, a job that is due finds the clock at the beginning of its window, inside a window
the timer is not over before it or before the end date, and a maintenance that is in effect is in
one of its windows for as long as the timer runs (`WindowIsKept`). Windows that overlap are
what makes the last two differ from "the timer ends with the window": each one that starts sets
the timer anew. `TakesFirst` says which of them `run()` takes up, `Forgotten` names those it
does not, and `SeparateWindows` proves that there are none where a pattern fires no
sooner than the window before is over.

`MonitorTreeProofs`, for any monitors, tree to begin with, requests, walks and crashes:

| Theorem | Hypothesis | Statement |
|---|---|---|
| `TypeCorrect` | | `Spec => []TypeOK` |
| `AcyclicHolds` | `EditsOverlap = FALSE` | `Spec => []Acyclic` |
| `ParentsAreGroupsHolds` | | `Spec => []ParentsAreGroups` |

`Acyclic` says that from no monitor the way up goes on for ever: every set of monitors that is
not empty has one whose parent is not in the set. `editMonitor` searches what is below the
monitor, level by level, while other requests add and delete monitors; that the new parent is
not found must still mean something when the edit is stored. `Apart` says it with the way up
from the new parent: there is a set with the parent that leads out of itself only at the top,
whose members below the monitor have been seen as far as the search has come, and which the
monitor is not in once the search is over. Adding and deleting only make such a way shorter or
leave it alone, since a monitor that is added has no members yet (`Orderly`: its id was
promised to one request and is no row's parent). Only another edit could bring the monitor onto the way; two that
cross do (section 4), hence the hypothesis. `ParentsAreGroups` needs none: a parent is a group or
its edit is about to unlink the members (`Fit`), unless `torn` has said why not.

Its second half is about the notifications of monitors, for any monitors, notifications,
requests and crashes:

| Theorem | Hypothesis | Statement |
|---|---|---|
| `ListTypes` | | `List!Spec => []List!TypeOK` |
| `NoDoubleLinkHolds` | `SameMonitor = FALSE` | `List!Spec => []List!NoDoubleLink` |
| `ListAsWantedHolds` | `SameMonitor = FALSE` | `List!Spec => []List!ListAsWanted` |

No row is there twice because a request inserts only what it has cleared or looked for, one
query earlier, and nobody else works on its monitors (`OwnMonitors`, `NotThereYet`). Nothing is in
the table that was not asked for (`NotMore`, `Owed`), and what was asked for is there, or cut off,
or a request is about to insert it (`NotLess`). The types hold the foreign key.

`ExpiryNoticesProofs`, for any monitors, deadlines, destinations, calls in progress together, renewals
and crashes:

| Theorem | Statement |
|---|---|
| `DomainTypes`, `CertTypes` | `Spec => []TypeOK` of either module |
| `DomainToldOnce` | `Spec => []ToldOnce` |
| `DomainSentWasTold` | `Spec => []SentWasToldUnlessMissed` |
| `CertToldOnceHolds` | `Cert!Spec => []Cert!CertToldOnce` |
| `HistoryHolds` | `Cert!Spec => []Cert!HistoryIsOfThisCert` |

For a domain, what was told is covered by the row, or the call that told it is about to store it
(`Covered`), and what it will store is no later than what it leaves covered (`Low`); two calls at a time
excuse what they try (`Exclusive`). That a stored mark is of the stored period needs dates to
stem from the registry, whose date only grows (`Dated`), and looks at the copies of the row
that checks hold across a lookup (`Remembered`), because they are stored back as a whole. For a
certificate there are two histories. Between calls of one certificate, what is being told is not
covered by what is recorded, or the deadline is one that two calls tell (`Alone`, `Uncovered`). Around
a renewal nothing can be said once calls for two certificates overlapped or a crash came
between a delivery and its record; until then all calls at work have met one certificate
(`OneCert`), it is stored before anything is told of it (`Known`), nothing was told of a newer
one (`Past`), and what was told of it is recorded or about to be (`StillTold`). That a set of
deadlines has a first one (`LeastDay`) comes from the well-foundedness of the naturals.

Assumptions are those the modules name (`...Assumption`): bounds are naturals, switches
Boolean, `None` is no value of another kind. TLC evaluates them in every run that extends the
module; `MigrationAssumption`, `StatsAssumption` and those of other modules that are only instantiated are
conjuncts of `InstanceAssumption`.

Only model-checked: everything that happens in the end (`KeepsBeating`, `StoppedEnds`,
`OutageIsNoticed`, `LastingStateIsTold`, `SlotsAreFreed`, `WaitingEnds`, `ExpiryIsAnnounced`,
`DatabaseComesUp`, `BrowserFollows` in part), since fairness and `ENABLED` are out of
TLAPS's reach; `DeletionIsComplete` and `WalksEnd` of the tree; the
conditions, the checks, providers and forms; and `MirrorFollows`, `NoneIsMissing`
and `ShownOnce` of the browser. What a fold or a recursive function computes for every input
(the evaluation of conditions, the levels `Below` a group) cannot be had from the induction
theorems, which take an operator. A concrete predicate over naturals can be proved by a least
counterexample, as in `LeastDay` and `Stepwise`.

## 6. What is left to do

The order in which the project would grow:

1. Proofs: in `MonitorTreeProofs`, that a deletion is complete, with the levels of the tree
   by least counterexample.
2. A module for the form of a monitor (`EditMonitor.vue`): which fields each type shows,
   keeps, and resets when the type is changed, against what its check reads, as
   `NotificationForms` and `NotificationNeeds` do for notifications. Its defaults are copied
   one level deep (`EditMonitor.vue:4121`), so that the notifications ticked for one new
   monitor are still ticked for the next: that is where to begin.
3. The editor of status pages (`StatusPage.vue`): edits in the browser against messages
   that arrive meanwhile.
4. Incidents beside the pages of `StatusPages`; the timer of a window longer than 2^31 ms, which
   `setTimeout` ends at once.
5. Composition of `HeartbeatChain` with `UptimeStats` at `update()`, whose failure
   loses a heartbeat that was announced.

## 7. Not modelled

- Authentication and sessions: calls into the better-auth library, which keeps their state.
  The rate limiter: a wrapper over a library.
- The handlers of proxies, Docker hosts, remote browsers, tags and API keys: one row
  each, in one query or two.
- The form of a monitor apart from its conditions, the status page editor, the form of a
  maintenance and the views of monitors: state of one browser tab that is sent as a
  whole.
- What a check asks and how an answer is parsed; the texts of notifications; the lookups
  behind site checks and domains. They are outcomes of a wait.
- Time zones and daylight saving in maintenances, and how a pattern is parsed; the up, down,
  ping and maintenance figures in a bucket of statistics.
- Prometheus, analytics, Cloudflared: they report or drive what others own. The vacuum of
  the database. Translations, scripts, packaging and the schema scripts: data and tooling.
