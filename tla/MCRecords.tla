------------------------------- MODULE MCRecords -------------------------------
(* DatabaseMigration, the module extended here, and instances of the other modules about rows of
   the database and what a browser shows of them, for TLC, side by side: `part` says which of them
   a behaviour is about; the variables of the others stand still. *)
EXTENDS DatabaseMigration, TLC

CONSTANTS
  a, b, c, d,  \* ids of whatever an instance has
  Null

VARIABLES
  part,
  setting, cacheList, cacheCleaner, get, write, writes, shortfall,
  parent, kind, used, request, walker, treeOps, treeCrashes, doomed, torn,
  notes, spent, links, event, listOps, listCrashes, wanted, cut,
  slug, groupOf, cname, spentIds, mapping, entryPage, entrySetting, ptask, pageOps, pageCrashes, outdated, adrift,
  form, condMoves, condChoices, unnested,
  rows, mirror, online, wire, login, req, requests, drops, untold, late,
  sent, stored, storing, socket, channel, history, clear, clears, shown, missed, wiped, twice

settingVars == <<setting, cacheList, cacheCleaner, get, write, writes, shortfall>>
treeVars    == <<parent, kind, used, request, walker, treeOps, treeCrashes, doomed, torn>>
listVars    == <<notes, spent, links, event, listOps, listCrashes, wanted, cut>>
pageVars    == <<slug, groupOf, cname, spentIds, mapping, entryPage, entrySetting, ptask, pageOps,
                 pageCrashes, outdated, adrift>>
formVars    == <<form, condMoves, condChoices, unnested>>
mirrorVars  == <<rows, mirror, online, wire, login, req, requests, drops, untold, late>>
beatVars    == <<sent, stored, storing, socket, channel, history, clear, clears, shown, missed, wiped, twice>>

\* One setting of the form and one internal; reads overlap with one write.
Reads ==
  INSTANCE SettingsCache WITH
    Keys <- {a, b}, ValueOf <- (a :> {"a", "b"}) @@ (b :> {"c"}),
    LegacyOf <- (a :> {"plain"}) @@ (b :> {}), TypeOf <- (a :> "general") @@ (b :> Null),
    Readers <- {a, b}, Writers <- {a}, SlowQuery <- FALSE, DbFails <- TRUE, MaxWrites <- 1

\* Two writes overlap.
Writes ==
  INSTANCE SettingsCache WITH
    Keys <- {a}, ValueOf <- (a :> {"a", "b"}), LegacyOf <- (a :> {}), TypeOf <- (a :> "general"),
    Readers <- {a}, Writers <- {a, b}, SlowQuery <- FALSE, DbFails <- TRUE, MaxWrites <- 2

\* A group within a group, a member at the bottom, an id not used yet.
Tree ==
  INSTANCE MonitorTree WITH
    Nodes <- {a, b, c, d}, Requests <- {a, b}, Walkers <- {a}, NoNode <- Null,
    InitParent <- (a :> Null) @@ (b :> a) @@ (c :> b) @@ (d :> Null),
    InitKind <- (a :> "group") @@ (b :> "group") @@ (c :> "plain") @@ (d :> "none"),
    EditsOverlap <- FALSE, MaxTreeOps <- 2, MaxTreeCrashes <- 0

Lists ==
  INSTANCE NotificationLists WITH
    Mons <- {a, b}, Notes <- {a, b}, Events <- {a, b}, SameMonitor <- FALSE,
    MaxListOps <- 3, MaxListCrashes <- 1

StatusPage ==
  INSTANCE StatusPages WITH
    PageIds <- {a, b}, Slugs <- {c, d}, Domains <- {a}, GroupIds <- {c, d}, PageTasks <- {a},
    PagesOverlap <- FALSE, MaxPageOps <- 3, MaxPageCrashes <- 1, NoPage <- Null

\* For DatabaseMigration: two monitors, one with beats of two days.
MonitorsOfBeats == (a :> 1) @@ (b :> 1) @@ (c :> 2)
DatesOfBeats    == (a :> 1) @@ (b :> 2) @@ (c :> 1)

Conditions == INSTANCE MonitorConditions WITH MaxVertices <- 4, MaxConditionMoves <- 4, MaxChoices <- 1

\* A group within a group, and two requests at a time of a browser that is logged in.
Browser ==
  INSTANCE ClientMonitorList WITH
    Mons <- {a, b, c}, Requests <- {a, b}, InitParent <- (a :> Null) @@ (b :> a) @@ (c :> b),
    NoMon <- Null, LoggedIn <- TRUE, MaxRequests <- 2, MaxDrops <- 0

\* A login, two lost connections, and a request.
Reconnected ==
  INSTANCE ClientMonitorList WITH
    Mons <- {a, b}, Requests <- {a}, InitParent <- (a :> Null) @@ (b :> a),
    NoMon <- Null, LoggedIn <- FALSE, MaxRequests <- 1, MaxDrops <- 2

Shown ==
  INSTANCE ClientHeartbeats WITH
    HistoryLimit <- 2, ShownLimit <- 4, MaxBeats <- 3, MaxLosses <- 1, MaxClears <- 1

ASSUME InstanceAssumption ==
  /\ Reads!SettingsAssumption /\ Writes!SettingsAssumption /\ Tree!TreeAssumption
  /\ Lists!ListAssumption /\ StatusPage!PagesAssumption /\ MigrationAssumption
  /\ Conditions!ConditionAssumption /\ Browser!MirrorAssumption /\ Reconnected!MirrorAssumption
  /\ Shown!HeartbeatsAssumption

\* The one state in which the variables of a part that is not on stand still.
SettingsOff == Writes!Init /\ setting = (a :> Writes!NoRow)
TreeOff     == Tree!Init
ListsOff    == Lists!Init /\ notes = {a}
PagesOff    == StatusPage!Init /\ entryPage = Null
BootOff     == Init /\ counted = [x \in {a, b, c} |-> 0]
FormOff     == Conditions!Init /\ form = Conditions!Empty("http")
MirrorOff   == Reconnected!Init
BeatsOff    == Shown!Init /\ sent = 0

RowsOff     == SettingsOff /\ TreeOff /\ ListsOff /\ PagesOff /\ BootOff
BrowserOff  == FormOff /\ MirrorOff /\ BeatsOff

MCInit ==
  \/ part = "reads"     /\ Reads!Init  /\ TreeOff /\ ListsOff /\ PagesOff /\ BootOff /\ BrowserOff
  \/ part = "writes"    /\ Writes!Init /\ TreeOff /\ ListsOff /\ PagesOff /\ BootOff /\ BrowserOff
  \/ part = "tree"      /\ Tree!Init /\ SettingsOff /\ ListsOff /\ PagesOff /\ BootOff /\ BrowserOff
  \/ part = "lists"     /\ Lists!Init /\ SettingsOff /\ TreeOff /\ PagesOff /\ BootOff /\ BrowserOff
  \/ part = "pages"     /\ StatusPage!Init /\ SettingsOff /\ TreeOff /\ ListsOff /\ BootOff /\ BrowserOff
  \/ part = "migration" /\ Init /\ SettingsOff /\ TreeOff /\ ListsOff /\ PagesOff /\ BrowserOff
  \/ part = "form"      /\ Conditions!Init /\ RowsOff /\ MirrorOff /\ BeatsOff
  \/ part = "browser"   /\ Browser!Init /\ RowsOff /\ FormOff /\ BeatsOff
  \/ part = "reconnect" /\ Reconnected!Init /\ RowsOff /\ FormOff /\ BeatsOff
  \/ part = "beats"     /\ Shown!Init /\ RowsOff /\ FormOff /\ MirrorOff

browserVars == <<formVars, mirrorVars, beatVars>>
rowVars     == <<settingVars, treeVars, listVars, pageVars, mvars>>
notSetting  == <<part, treeVars, listVars, pageVars, mvars, browserVars>>
notTree     == <<part, settingVars, listVars, pageVars, mvars, browserVars>>
notList     == <<part, settingVars, treeVars, pageVars, mvars, browserVars>>
notPage     == <<part, settingVars, treeVars, listVars, mvars, browserVars>>
notBoot     == <<part, settingVars, treeVars, listVars, pageVars, browserVars>>
notForm     == <<part, rowVars, mirrorVars, beatVars>>
notMirror   == <<part, rowVars, formVars, beatVars>>
notBeat     == <<part, rowVars, formVars, mirrorVars>>

MCNext ==
  \/ part = "reads"     /\ Reads!Next       /\ UNCHANGED notSetting
  \/ part = "writes"    /\ Writes!Next      /\ UNCHANGED notSetting
  \/ part = "tree"      /\ Tree!Next        /\ UNCHANGED notTree
  \/ part = "lists"     /\ Lists!Next       /\ UNCHANGED notList
  \/ part = "pages"     /\ StatusPage!Next  /\ UNCHANGED notPage
  \/ part = "migration" /\ Next   /\ UNCHANGED notBoot
  \/ part = "form"      /\ Conditions!Next  /\ UNCHANGED notForm
  \/ part = "browser"   /\ Browser!Next     /\ UNCHANGED notMirror
  \/ part = "reconnect" /\ Reconnected!Next /\ UNCHANGED notMirror
  \/ part = "beats"     /\ Shown!Next       /\ UNCHANGED notBeat

mcVars == <<part, rowVars, browserVars>>

MCSpec == MCInit /\ [][MCNext]_mcVars

-----------------------------------------------------------------------------
TypesOK ==
  /\ part = "reads"     => Reads!TypeOK
  /\ part = "writes"    => Writes!TypeOK
  /\ part = "tree"      => Tree!TypeOK
  /\ part = "lists"     => Lists!TypeOK
  /\ part = "pages"     => StatusPage!TypeOK
  /\ part = "migration" => TypeOK
  /\ part = "form"      => Conditions!TypeOK
  /\ part = "browser"   => Browser!TypeOK
  /\ part = "reconnect" => Reconnected!TypeOK
  /\ part = "beats"     => Shown!TypeOK

\* A cached setting differs from the table for a reason only, and is a value of that setting
\* (SettingsCache!StaleHasAReason and CacheHoldsOwnValue).
SettingsAreSound ==
  /\ part = "reads"  => Reads!StaleHasAReason /\ Reads!CacheHoldsOwnValue
  /\ part = "writes" => Writes!StaleHasAReason

\* No monitor is its own ancestor, a parent is a group, and a deletion leaves no member it found
\* (MonitorTree!Acyclic, ParentsAreGroups and DeletionIsComplete); no destination is alerted twice
\* for a monitor, and it alerts what was asked for last (NotificationLists!NoDoubleLink and
\* ListAsWanted).
MonitorsAreSound ==
  /\ part = "tree"  => Tree!Acyclic /\ Tree!ParentsAreGroups /\ Tree!DeletionIsComplete
  /\ part = "lists" => Lists!NoDoubleLink /\ Lists!ListAsWanted

\* The entry page exists and is the stored one, a domain leads to its page, and a save leaves the
\* groups of its list, up to what `adrift` and `outdated` name (StatusPages!EntryExists,
\* EntryIsStored, DomainsLead and GroupsAsSaved).
PagesAreSound ==
  part = "pages" => /\ StatusPage!EntryExists /\ StatusPage!EntryIsStored
                    /\ StatusPage!DomainsLead /\ StatusPage!GroupsAsSaved

\* Conditions are judged by the rule their form shows, and fail a check for one reason only
\* (MonitorConditions!JudgedByTheRule and FailsForAReason).
ConditionsAreSound == part = "form" => Conditions!JudgedByTheRule /\ Conditions!FailsForAReason

\* What a browser shows settles on what is stored, lost connections or not, up to what `untold`
\* and `late` name (ClientMonitorList!MirrorFollows, ClientHeartbeats!LatestIsShown,
\* NoneIsMissing and ShownOnce).
BrowserFollows ==
  /\ part = "browser"   => Browser!MirrorFollows
  /\ part = "reconnect" => Reconnected!MirrorFollows
  /\ part = "beats"     => Shown!LatestIsShown /\ Shown!NoneIsMissing /\ Shown!ShownOnce

===============================================================================
