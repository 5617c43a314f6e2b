------------------------------- MODULE MCServices -------------------------------
(* Instances of the modules about services of the server, for TLC, side by side: `part` says
   which of them a behaviour is about; the variables of the others stand still. *)
EXTENDS Naturals, TLC

CONSTANTS
  a, b,  \* ids of whatever an instance has
  Null

VARIABLES
  part,
  setting, cacheList, cacheCleaner, get, write, writes, shortfall,
  stored, made, entry, strays, visit, change, served,
  process, failed, child, running, started, creating, kuma, waiter, shutdown, failures,
  provider, about, plan, out, again, noted, told, trouble, promise,
  type, upside, tPlan, tries, status, found, open, mute, stage,
  note, form, shown, config, moves

settingVars == <<setting, cacheList, cacheCleaner, get, write, writes, shortfall>>
cacheVars   == <<stored, made, entry, strays, visit, change, served>>
mariaVars   == <<process, failed, child, running, started, creating, kuma, waiter, shutdown, failures>>
noticeVars  == <<provider, about, plan, out, again, noted, told, trouble, promise>>
checkVars   == <<type, upside, tPlan, tries, status, found, open, mute, stage>>
dialogVars  == <<note, form, shown, config, moves>>

\* One setting, one reader, one write.
Settings ==
  INSTANCE SettingsCache WITH
    Keys <- {a}, ValueOf <- (a :> {"a", "b"}), LegacyOf <- (a :> {}),
    TypeOf <- (a :> "general"), Readers <- {a}, Writers <- {a}, SlowQuery <- FALSE,
    DbFails <- TRUE, MaxWrites <- 1

Cache ==
  INSTANCE ResponseCache WITH
    Urls <- {a}, Visitors <- {a, b}, Changers <- {a}, Duration <- 1, MaxVersions <- 2, NoEntry <- Null

Maria == INSTANCE EmbeddedMariaDB WITH Procs <- 1..3, Missing <- TRUE, MaxFailures <- 2

\* Three numbers, relays or groups where there are several.
Notices == INSTANCE NotificationProviders WITH Many <- 3

Checks == INSTANCE MonitorTypes WITH plan <- tPlan

Dialog == INSTANCE NotificationDialog WITH MaxMoves <- 4

ASSUME InstanceAssumption ==
  /\ Settings!SettingsAssumption /\ Cache!CacheAssumption /\ Maria!MariaAssumption
  /\ Notices!ProvidersAssumption /\ Dialog!DialogAssumption

\* The one state in which the variables of a part that is not on stand still.
SettingsOff == Settings!Init /\ setting = (a :> Settings!NoRow)
CacheOff    == Cache!Init
MariaOff    == Maria!Init
NoticesOff  == Notices!Init
ChecksOff   == Checks!Init
DialogOff   == Dialog!DialogInit

Init ==
  \/ part = "settings" /\ Settings!Init /\ CacheOff /\ MariaOff /\ NoticesOff /\ ChecksOff /\ DialogOff
  \/ part = "cache"    /\ Cache!Init /\ SettingsOff /\ MariaOff /\ NoticesOff /\ ChecksOff /\ DialogOff
  \/ part = "maria"    /\ Maria!Init /\ SettingsOff /\ CacheOff /\ NoticesOff /\ ChecksOff /\ DialogOff
  \/ part = "notices"  /\ Notices!Init /\ SettingsOff /\ CacheOff /\ MariaOff /\ ChecksOff /\ DialogOff
  \/ part = "checks"   /\ Checks!Init /\ SettingsOff /\ CacheOff /\ MariaOff /\ NoticesOff /\ DialogOff
  \/ part = "dialog"   /\ Dialog!DialogInit /\ SettingsOff /\ CacheOff /\ MariaOff /\ NoticesOff /\ ChecksOff

notSetting == <<part, cacheVars, mariaVars, noticeVars, checkVars, dialogVars>>
notCache   == <<part, settingVars, mariaVars, noticeVars, checkVars, dialogVars>>
notMaria   == <<part, settingVars, cacheVars, noticeVars, checkVars, dialogVars>>
notNotice  == <<part, settingVars, cacheVars, mariaVars, checkVars, dialogVars>>
notCheck   == <<part, settingVars, cacheVars, mariaVars, noticeVars, dialogVars>>
notDialog  == <<part, settingVars, cacheVars, mariaVars, noticeVars, checkVars>>

Next ==
  \/ part = "settings" /\ Settings!Next /\ UNCHANGED notSetting
  \/ part = "cache"    /\ Cache!Next    /\ UNCHANGED notCache
  \/ part = "maria"    /\ Maria!Next    /\ UNCHANGED notMaria
  \/ part = "notices"  /\ Notices!Next  /\ UNCHANGED notNotice
  \/ part = "checks"   /\ Checks!Next   /\ UNCHANGED notCheck
  \/ part = "dialog"   /\ Dialog!DialogNext /\ UNCHANGED notDialog

vars == <<part, settingVars, cacheVars, mariaVars, noticeVars, checkVars, dialogVars>>

Fairness ==
  /\ WF_vars(part = "settings" /\ Settings!Clean /\ UNCHANGED notSetting)
  /\ WF_vars(part = "settings" /\ (Settings!Query(a) \/ Settings!Answer(a)) /\ UNCHANGED notSetting)
  /\ WF_vars(part = "cache" /\ Cache!Tick /\ UNCHANGED notCache)
  /\ WF_vars(part = "maria" /\ Maria!Poll /\ UNCHANGED notMaria)
  /\ \A p \in 1..3 : WF_vars(part = "maria" /\ (Maria!Ready(p) \/ Maria!Close(p)) /\ UNCHANGED notMaria)
  /\ WF_vars(part = "checks" /\ Checks!Goes /\ UNCHANGED notCheck)
  /\ WF_vars(part = "checks" /\ Checks!TimeOut /\ UNCHANGED notCheck)

Spec == Init /\ [][Next]_vars /\ Fairness

-----------------------------------------------------------------------------
TypesOK ==
  /\ part = "settings" => Settings!TypeOK
  /\ part = "cache"    => Cache!TypeOK
  /\ part = "maria"    => Maria!TypeOK
  /\ part = "notices"  => Notices!TypeOK
  /\ part = "checks"   => Checks!TypeOK
  /\ part = "dialog"   => Dialog!DialogTypeOK

\* An outdated answer in the cache has a reason, and no visitor is sent an older page than the one
\* before, but for one that a store overtook on its way (ResponseCache!StaleAnswerHasAReason and
\* AnswersGoForward).
AnswersAreExplained ==
  /\ [](part = "cache" => Cache!StaleAnswerHasAReason)
  /\ [][part = "cache" => (served'[a].version < served[a].version => served'[a].late)]_vars

\* What is to pass does pass: an outdated answer and a stale setting leave their caches, and the
\* check of a monitor ends although the service has fallen silent, if its type sets a limit, but
\* for one that waits for the delivery of a notice about a certificate
\* (ResponseCache!StaleAnswerEnds, SettingsCache!StaleEnds and MonitorTypes!ChecksEnd).
WaitingEnds ==
  /\ part = "cache" /\ Cache!Stale(a) ~> ~(part = "cache" /\ Cache!Stale(a))
  /\ part = "settings" /\ Settings!Stale(a) ~> ~(part = "settings" /\ Settings!Stale(a))
  /\ part = "checks" /\ stage = "checking" /\ type \notin Checks!Patient
       ~> part = "checks" /\ (Checks!Ended \/ Checks!Untold)

\* Never do two database processes run on the same data, `started` is not believed of one that is
\* gone, and start() resolves (EmbeddedMariaDB!OneServer, StartedIsThere and StartResolves).
DatabaseComesUp ==
  /\ [](part = "maria" => Maria!OneServer /\ Maria!StartedIsThere)
  /\ part = "maria" /\ waiter = "pending" ~> part = "maria" /\ (waiter = "resolved" \/ shutdown)

\* What a caller of Notification.send() may conclude from its promise
\* (NotificationProviders!SendsAreHonest).
SendsAreHonest == part = "notices" => Notices!SendsAreHonest

\* What a heartbeat says is what the check found out, and a check closes what it opens
\* (MonitorTypes!ChecksAreSound).
ChecksAreSound == part = "checks" => Checks!ChecksAreSound

\* A notification that was saved can be sent: its provider finds what it cannot do without
\* (NotificationDialog!SavedIsComplete).
SavedIsComplete == part = "dialog" => Dialog!SavedIsComplete

===============================================================================
