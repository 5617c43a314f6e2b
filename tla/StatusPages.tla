------------------------------ MODULE StatusPages ------------------------------
(***************************************************************************)
(* Status pages (server/socket-handlers/status-page-socket-handler.js and    *)
(* server/model/status_page.js): the pages with their slugs, groups and       *)
(* domains, the map from domains to pages in memory, and the entry page,       *)
(* which is a setting and a field of the server and names a page by its slug.  *)
(*                                                                           *)
(* saveStatusPage is a dozen queries; only the domains are in a transaction.   *)
(* What a crash or a failure in the middle leaves is what the properties ask;  *)
(* queries fail for what they are given, the database itself answers.          *)
(***************************************************************************)
EXTENDS Naturals, FiniteSets

CONSTANTS
  PageIds, Slugs, Domains, GroupIds,
  PageTasks,     \* socket events that may be in progress at once
  PagesOverlap,  \* TRUE: two of them may be
  MaxPageOps,    \* bound: socket events
  MaxPageCrashes,
  NoPage         \* no page, no slug; as the entry page: the dashboard

\* What an instance has to satisfy.
PagesAssumption ==
  /\ NoPage \notin PageIds \cup Slugs /\ PageIds # {} /\ Slugs # {}
  /\ PagesOverlap \in BOOLEAN /\ MaxPageOps \in Nat /\ MaxPageCrashes \in Nat

VARIABLES
  slug,      \* status_page: the slug of a page that exists
  groupOf,   \* group: the page a group is on
  cname,     \* status_page_cname: the page of a domain
  spentIds,  \* ids of pages and groups given so far
  mapping,   \* StatusPage.domainMappingList
  entryPage, entrySetting,  \* server.entryPage, the setting
  ptask,     \* what a handler is at
  pageOps, pageCrashes,
  outdated,  \* history: domains whose page was deleted since the map was loaded, or renamed by
             \* a save that failed before it loaded the map
  adrift     \* history: the entry page was chosen though no page has the slug, or its page was
             \* renamed by a save that did not reach its end

pvars == <<slug, groupOf, cname, spentIds, mapping, entryPage, entrySetting, ptask, pageOps, pageCrashes, outdated, adrift>>

Pages    == {p \in PageIds : slug[p] # NoPage}
PageOf(s) == IF \E p \in Pages : slug[p] = s THEN CHOOSE p \in Pages : slug[p] = s ELSE NoPage
SlugOf(p) == IF p = NoPage THEN NoPage ELSE slug[p]
Groups(p) == {g \in GroupIds : groupOf[g] = p}

\* The join that loadDomainMappingList() asks for.
Mapped == [d \in Domains |-> SlugOf(cname[d])]

Rest == [op |-> "none", step |-> "idle", page |-> NoPage, from |-> NoPage, to |-> NoPage,
         domains |-> {}, list |-> {}, fresh |-> 0, kept |-> {}, answer |-> Mapped]

Steps == {"idle", "find", "store", "domains", "load", "assign", "groups", "sweep", "entry", "setting",
          "remove", "page", "done"}

TypeOK ==
  /\ slug \in [PageIds -> Slugs \cup {NoPage}]
  /\ \A p, q \in Pages : slug[p] = slug[q] => p = q
  /\ groupOf \in [GroupIds -> PageIds \cup {NoPage}]
  /\ cname \in [Domains -> Pages \cup {NoPage}]
  /\ Pages \subseteq spentIds /\ {g \in GroupIds : groupOf[g] # NoPage} \subseteq spentIds
  /\ mapping \in [Domains -> Slugs \cup {NoPage}]
  /\ {entryPage, entrySetting} \subseteq Slugs \cup {NoPage}
  /\ ptask \in [PageTasks -> [op : {"none", "save", "delete", "entry"}, step : Steps,
                             page : PageIds \cup {NoPage}, from : Slugs \cup {NoPage}, to : Slugs \cup {NoPage},
                             domains : SUBSET Domains, list : SUBSET GroupIds, fresh : Nat, kept : SUBSET GroupIds,
                             answer : [Domains -> Slugs \cup {NoPage}]]]
  /\ pageOps \in 0..MaxPageOps /\ pageCrashes \in 0..MaxPageCrashes
  /\ outdated \subseteq Domains /\ adrift \in BOOLEAN

Init ==
  /\ LET p == CHOOSE x \in PageIds : TRUE
         s == CHOOSE x \in Slugs : TRUE
     IN /\ slug = [q \in PageIds |-> IF q = p THEN s ELSE NoPage] /\ spentIds = {p}
        /\ entryPage \in {s, NoPage} /\ entrySetting = entryPage
  /\ groupOf = [g \in GroupIds |-> NoPage]
  /\ cname = [d \in Domains |-> NoPage] /\ mapping = Mapped
  /\ ptask = [t \in PageTasks |-> Rest]
  /\ pageOps = 0 /\ pageCrashes = 0 /\ adrift = FALSE /\ outdated = {}

Begin(t, record) ==
  /\ ptask[t].step = "idle" /\ pageOps < MaxPageOps
  /\ PagesOverlap \/ \A u \in PageTasks : ptask[u].step = "idle"
  /\ pageOps' = pageOps + 1
  /\ ptask' = [ptask EXCEPT ![t] = record]

Goto(t, step) == ptask' = [ptask EXCEPT ![t].step = step]

Done(t) ==
  /\ ptask[t].step = "done"
  /\ ptask' = [ptask EXCEPT ![t] = Rest]
  /\ UNCHANGED <<slug, groupOf, cname, spentIds, mapping, entryPage, entrySetting, pageOps, pageCrashes, outdated, adrift>>

-----------------------------------------------------------------------------
(* addStatusPage, saveStatusPage *)

\* The slug is unique: the store fails if it is taken.
AddPage(p, s) ==
  /\ pageOps < MaxPageOps /\ pageOps' = pageOps + 1
  /\ p \notin spentIds /\ spentIds' = spentIds \cup {p}
  /\ PagesOverlap \/ \A u \in PageTasks : ptask[u].step = "idle"
  /\ slug' = IF PageOf(s) = NoPage THEN [slug EXCEPT ![p] = s] ELSE slug
  /\ UNCHANGED <<groupOf, cname, mapping, entryPage, entrySetting, ptask, pageCrashes, outdated, adrift>>

\* The editor of a page that exists: a slug, domains, groups it has been shown and new ones.
BeginSave(t, p, to, domains, list, fresh) ==
  /\ p \in Pages /\ list \subseteq Groups(p)
  /\ Begin(t, [Rest EXCEPT !.op = "save", !.step = "find", !.from = slug[p], !.to = to,
                           !.domains = domains, !.list = list, !.fresh = fresh])
  /\ UNCHANGED <<slug, groupOf, cname, spentIds, mapping, entryPage, entrySetting, pageCrashes, outdated, adrift>>

FindPage(t) ==
  /\ ptask[t].op = "save" /\ ptask[t].step = "find"
  /\ LET p == PageOf(ptask[t].from)
     IN ptask' = [ptask EXCEPT ![t].page = p, ![t].step = IF p = NoPage THEN "done" ELSE "store"]
  /\ UNCHANGED <<slug, groupOf, cname, spentIds, mapping, entryPage, entrySetting, pageOps, pageCrashes, outdated, adrift>>

\* R.store(): fails if another page has the slug.  A page that is gone is not stored.
StorePage(t) ==
  LET q == ptask[t]
  IN /\ q.step = "store"
     /\ IF PageOf(q.to) \in {NoPage, q.page}
        THEN /\ slug' = IF q.page \in Pages THEN [slug EXCEPT ![q.page] = q.to] ELSE slug
             /\ Goto(t, "domains")
        ELSE UNCHANGED slug /\ Goto(t, "done")
     /\ UNCHANGED <<groupOf, cname, spentIds, mapping, entryPage, entrySetting, pageOps, pageCrashes, outdated, adrift>>

\* A save that ends here leaves the entry page behind, if it renames that.
LeavesEntry(t) == adrift' = (adrift \/ (ptask[t].from # ptask[t].to /\ entryPage = ptask[t].from))

\* updateDomainNameList(): one transaction.  A domain of another page is taken from it.
StoreDomains(t) ==
  LET q == ptask[t]
  IN /\ q.step = "domains" /\ (q.domains = {} \/ q.page \in Pages)
     /\ cname' = [d \in Domains |-> IF d \in q.domains THEN q.page
                                    ELSE IF cname[d] = q.page THEN NoPage ELSE cname[d]]
     /\ Goto(t, "load")
     /\ UNCHANGED <<slug, groupOf, spentIds, mapping, entryPage, entrySetting, pageOps, pageCrashes, outdated, adrift>>

\* A list that is none, a domain that is none, or a page that is gone: the transaction is rolled
\* back and the save ends, with the page stored and the map as it was.
DomainsFail(t) ==
  LET q == ptask[t]
  IN /\ q.step = "domains"
     /\ outdated' = IF q.from = q.to THEN outdated ELSE outdated \cup {d \in Domains : cname[d] = q.page}
     /\ Goto(t, "done") /\ LeavesEntry(t)
     /\ UNCHANGED <<slug, groupOf, cname, spentIds, mapping, entryPage, entrySetting, pageOps, pageCrashes>>

\* loadDomainMappingList(): asks ...
LoadMapping(t) ==
  /\ ptask[t].step = "load"
  /\ ptask' = [ptask EXCEPT ![t].step = "assign", ![t].answer = Mapped]
  /\ UNCHANGED <<slug, groupOf, cname, spentIds, mapping, entryPage, entrySetting, pageOps, pageCrashes, outdated, adrift>>

\* mutant: the old map is kept for domains that are in it
AssignMapping_Merges(t) ==
  /\ ptask[t].step = "assign"
  /\ mapping' = [d \in Domains |-> IF ptask[t].answer[d] = NoPage THEN mapping[d] ELSE ptask[t].answer[d]]
  /\ outdated' = {}
  /\ Goto(t, "groups")
  /\ UNCHANGED <<slug, groupOf, cname, spentIds, entryPage, entrySetting, pageOps, pageCrashes, adrift>>

\* ... and replaces the map.
AssignMapping(t) ==
  /\ ptask[t].step = "assign"
  /\ mapping' = ptask[t].answer
  /\ outdated' = {}
  /\ Goto(t, "groups")
  /\ UNCHANGED <<slug, groupOf, cname, spentIds, entryPage, entrySetting, pageOps, pageCrashes, adrift>>

\* One group after the other: one that was shown and is gone ends the save; so does a monitor
\* that was deleted meanwhile, when the group has already lost its members.
StoreGroup(t) ==
  LET q == ptask[t]
  IN /\ q.step = "groups" /\ (q.list # {} \/ q.fresh > 0)
     /\ \/ \E g \in q.list :
             IF groupOf[g] = q.page
             THEN /\ ptask' = [ptask EXCEPT ![t].list = @ \ {g}, ![t].kept = @ \cup {g}]
                  /\ UNCHANGED <<groupOf, spentIds, adrift>>
             ELSE Goto(t, "done") /\ LeavesEntry(t) /\ UNCHANGED <<groupOf, spentIds>>
        \/ \E g \in GroupIds \ spentIds :
             /\ q.fresh > 0
             /\ groupOf' = [groupOf EXCEPT ![g] = q.page] /\ spentIds' = spentIds \cup {g}
             /\ \/ ptask' = [ptask EXCEPT ![t].fresh = @ - 1, ![t].kept = @ \cup {g}] /\ UNCHANGED adrift
                \/ Goto(t, "done") /\ LeavesEntry(t)
     /\ UNCHANGED <<slug, cname, mapping, entryPage, entrySetting, pageOps, pageCrashes, outdated>>

GroupsStored(t) ==
  /\ ptask[t].step = "groups" /\ ptask[t].list = {} /\ ptask[t].fresh = 0
  /\ Goto(t, "sweep")
  /\ UNCHANGED <<slug, groupOf, cname, spentIds, mapping, entryPage, entrySetting, pageOps, pageCrashes, outdated, adrift>>

\* mutant: what is left of the list is spared, not what was stored
SweepGroups_Rest(t) ==
  /\ ptask[t].step = "sweep"
  /\ groupOf' = [g \in GroupIds |->
       IF groupOf[g] = ptask[t].page /\ g \notin ptask[t].list THEN NoPage ELSE groupOf[g]]
  /\ Goto(t, "entry")
  /\ UNCHANGED <<slug, cname, spentIds, mapping, entryPage, entrySetting, pageOps, pageCrashes, outdated, adrift>>

\* "Delete groups that are not in the list".
SweepGroups(t) ==
  /\ ptask[t].step = "sweep"
  /\ groupOf' = [g \in GroupIds |->
       IF groupOf[g] = ptask[t].page /\ g \notin ptask[t].kept THEN NoPage ELSE groupOf[g]]
  /\ Goto(t, "entry")
  /\ UNCHANGED <<slug, cname, spentIds, mapping, entryPage, entrySetting, pageOps, pageCrashes, outdated, adrift>>

\* mutant: only the setting is changed
RenameEntry_OnlySetting(t) ==
  /\ ptask[t].op = "save" /\ ptask[t].step = "entry"
  /\ entrySetting' = IF entryPage = ptask[t].from THEN ptask[t].to ELSE entrySetting
  /\ Goto(t, "done")
  /\ UNCHANGED <<slug, groupOf, cname, spentIds, mapping, entryPage, pageOps, pageCrashes, outdated, adrift>>

\* "Also change entry page to new slug if it is the default one, and slug is changed."
RenameEntry(t) ==
  LET q == ptask[t]
  IN /\ q.op = "save" /\ q.step = "entry"
     /\ IF entryPage = q.from /\ q.to # q.from
        THEN entryPage' = q.to /\ Goto(t, "setting")
        ELSE UNCHANGED entryPage /\ Goto(t, "done")
     /\ UNCHANGED <<slug, groupOf, cname, spentIds, mapping, entrySetting, pageOps, pageCrashes, outdated, adrift>>

\* Settings.set("entryPage", server.entryPage), then the end of the save or the rest of the deletion.
StoreEntry(t) ==
  /\ ptask[t].step = "setting"
  /\ entrySetting' = entryPage
  /\ Goto(t, IF ptask[t].op = "delete" THEN "remove" ELSE "done")
  /\ UNCHANGED <<slug, groupOf, cname, spentIds, mapping, entryPage, pageOps, pageCrashes, outdated, adrift>>

-----------------------------------------------------------------------------
(* deleteStatusPage *)

BeginDelete(t, p) ==
  /\ p \in Pages
  /\ Begin(t, [Rest EXCEPT !.op = "delete", !.step = "find", !.from = slug[p]])
  /\ UNCHANGED <<slug, groupOf, cname, spentIds, mapping, entryPage, entrySetting, pageCrashes, outdated, adrift>>

\* mutant: the entry page is reset in memory only
FindDelete_NotStored(t) ==
  LET p == PageOf(ptask[t].from)
  IN /\ ptask[t].op = "delete" /\ ptask[t].step = "find"
     /\ ptask' = [ptask EXCEPT ![t].page = p, ![t].step = IF p = NoPage THEN "done" ELSE "remove"]
     /\ entryPage' = IF p # NoPage /\ entryPage = ptask[t].from THEN NoPage ELSE entryPage
     /\ UNCHANGED <<slug, groupOf, cname, spentIds, mapping, entrySetting, pageOps, pageCrashes, outdated, adrift>>

\* The page, and whether it is the entry page.
FindDelete(t) ==
  LET p == PageOf(ptask[t].from)
      isEntry == entryPage = ptask[t].from
  IN /\ ptask[t].op = "delete" /\ ptask[t].step = "find"
     /\ ptask' = [ptask EXCEPT ![t].page = p,
                               ![t].step = CASE p = NoPage -> "done"
                                             [] p # NoPage /\ isEntry -> "setting"
                                             [] OTHER -> "remove"]
     /\ entryPage' = IF p # NoPage /\ isEntry THEN NoPage ELSE entryPage
     /\ UNCHANGED <<slug, groupOf, cname, spentIds, mapping, entrySetting, pageOps, pageCrashes, outdated, adrift>>

\* Incidents and groups, "so they have to be deleted manually" ...
RemoveGroups(t) ==
  /\ ptask[t].step = "remove"
  /\ groupOf' = [g \in GroupIds |-> IF groupOf[g] = ptask[t].page THEN NoPage ELSE groupOf[g]]
  /\ Goto(t, "page")
  /\ UNCHANGED <<slug, cname, spentIds, mapping, entryPage, entrySetting, pageOps, pageCrashes, outdated, adrift>>

\* ... then the page, and its domains with it.  The map in memory stays.
RemovePage(t) ==
  LET p == ptask[t].page
  IN /\ ptask[t].step = "page"
     /\ slug' = [slug EXCEPT ![p] = NoPage]
     /\ cname' = [d \in Domains |-> IF cname[d] = p THEN NoPage ELSE cname[d]]
     /\ outdated' = outdated \cup {d \in Domains : cname[d] = p}
     /\ Goto(t, "done")
     /\ UNCHANGED <<groupOf, spentIds, mapping, entryPage, entrySetting, pageOps, pageCrashes, adrift>>

\* setSettings, with whatever entry page the client holds, also that of a page that is gone:
\* stored first, then believed.
SetEntry(t, s) ==
  /\ Begin(t, [Rest EXCEPT !.op = "entry", !.step = "entry", !.to = s])
  /\ entrySetting' = s
  /\ adrift' = (s # NoPage /\ PageOf(s) = NoPage)
  /\ UNCHANGED <<slug, groupOf, cname, spentIds, mapping, entryPage, pageCrashes, outdated>>

BelieveEntry(t) ==
  /\ ptask[t].op = "entry" /\ ptask[t].step = "entry"
  /\ entryPage' = ptask[t].to
  /\ Goto(t, "done")
  /\ UNCHANGED <<slug, groupOf, cname, spentIds, mapping, entrySetting, pageOps, pageCrashes, outdated, adrift>>

\* A crash and the next start, which reads the setting and the map.
Restart ==
  /\ pageCrashes < MaxPageCrashes /\ pageCrashes' = pageCrashes + 1
  /\ ptask' = [t \in PageTasks |-> Rest]
  /\ entryPage' = entrySetting /\ mapping' = Mapped /\ outdated' = {}
  /\ adrift' = (adrift \/ \E t \in PageTasks :
                   ptask[t].op = "save" /\ ptask[t].from # ptask[t].to /\ ptask[t].from = entrySetting
                   /\ ptask[t].step \notin {"find", "store", "done"})
  /\ UNCHANGED <<slug, groupOf, cname, spentIds, entrySetting, pageOps>>

Work(t) ==
  \/ FindPage(t) \/ StorePage(t) \/ StoreDomains(t) \/ DomainsFail(t) \/ LoadMapping(t) \/ AssignMapping(t)
  \/ StoreGroup(t) \/ GroupsStored(t) \/ SweepGroups(t) \/ RenameEntry(t) \/ StoreEntry(t)
  \/ FindDelete(t) \/ RemoveGroups(t) \/ RemovePage(t) \/ BelieveEntry(t) \/ Done(t)

Next ==
  \/ \E p \in PageIds, s \in Slugs : AddPage(p, s)
  \/ \E t \in PageTasks :
       \/ \E p \in PageIds :
            \/ BeginDelete(t, p)
            \/ \E to \in Slugs, domains \in SUBSET Domains, list \in SUBSET GroupIds, fresh \in 0..1 :
                 BeginSave(t, p, to, domains, list, fresh)
       \/ \E s \in Slugs \cup {NoPage} : SetEntry(t, s)
       \/ Work(t)
  \/ Restart

Spec == Init /\ [][Next]_pvars

-----------------------------------------------------------------------------
(* Properties *)

Quiet == \A t \in PageTasks : ptask[t].step = "idle"

\* Between requests, the entry page is the dashboard or a page that exists, unless a save that
\* renamed it did not reach its end, or a client chose it when no page had the slug.
EntryExists == Quiet /\ ~adrift => entryPage = NoPage \/ PageOf(entryPage) # NoPage

\* Between requests, a restart would not change the entry page.
EntryIsStored == Quiet => entryPage = entrySetting

\* Between requests, a domain leads to the page the table gives it, unless that page was deleted, or
\* renamed by a save whose domains failed: only a save that stores the domains loads the map again.
DomainsLead == Quiet => \A d \in Domains \ outdated : mapping[d] = Mapped[d]

\* A save that is through has left exactly the groups of its list on the page.
GroupsAsSaved == \A t \in PageTasks :
  ptask[t].op = "save" /\ ptask[t].step = "entry" => Groups(ptask[t].page) = ptask[t].kept
===============================================================================
