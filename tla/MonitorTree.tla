------------------------------ MODULE MonitorTree ------------------------------
(***************************************************************************)
(* Groups of monitors: the column `parent` of the monitor table, the socket *)
(* handlers add, editMonitor and deleteMonitor (server/server.js) that       *)
(* change it, and the walks up and down the tree (server/model/monitor.js).  *)
(*                                                                           *)
(* Nothing in the database forbids a cycle, and the walks recurse until they *)
(* meet no parent: that they end rests on the test in editMonitor, which     *)
(* reads the descendants query by query and stores later.                    *)
(***************************************************************************)
EXTENDS Naturals, Sequences, FiniteSets

CONSTANTS
  Nodes,      \* ids of monitors
  Requests,   \* socket events that may be in progress at the same time
  Walkers,    \* isParentActive() or getAllPath() in progress
  InitParent, \* the tree at first: a function from Nodes to Nodes \cup {NoNode}
  InitKind,   \* "group", "plain", or "none": no row yet
  EditsOverlap, \* TRUE: two editMonitor may be in progress together
  MaxTreeOps, \* bound: requests made
  MaxTreeCrashes,
  NoNode

\* What an instance has to satisfy.
TreeAssumption ==
  /\ NoNode \notin Nodes
  /\ InitKind \in [Nodes -> {"group", "plain", "none"}]
  /\ InitParent \in [Nodes -> {n \in Nodes : InitKind[n] = "group"} \cup {NoNode}]
  /\ \A n \in Nodes : InitKind[n] = "none" => InitParent[n] = NoNode
  /\ \A S \in (SUBSET Nodes) \ {{}} : \E n \in S : InitParent[n] \notin S
  /\ EditsOverlap \in BOOLEAN /\ MaxTreeOps \in Nat /\ MaxTreeCrashes \in Nat

VARIABLES
  parent,   \* the column
  kind,     \* whether there is a row, and the column `type`
  used,     \* ids given to rows so far: they are not given again
  request,  \* what a handler is at
  walker,   \* the monitor whose parent a walk asks for next; NoNode: none
  treeOps, treeCrashes,
  doomed,   \* history variable: what a deletion with children has to remove
  torn      \* history variable: a crash or an overlap left members with a parent that is no group

tvars == <<parent, kind, used, request, walker, treeOps, treeCrashes, doomed, torn>>

Rows   == {n \in Nodes : kind[n] # "none"}
Groups == {n \in Nodes : kind[n] = "group"}
Children(n) == {c \in Rows : parent[c] = n}

\* Everything below n, through groups.
Below(n) ==
  LET level[k \in 0..Cardinality(Nodes)] ==
        IF k = 0 THEN Children(n)
        ELSE level[k - 1] \cup {c \in Rows : parent[c] \in level[k - 1] \cap Groups}
  IN level[Cardinality(Nodes)]

Free == [op |-> "none", step |-> "idle", node |-> NoNode, to |-> NoNode, kind |-> "none",
         was |-> NoNode, wasKind |-> "none", todo |-> {}, seen |-> {}, stack |-> <<>>]

Kinds  == {"group", "plain", "none"}
Frames == [node : Nodes, todo : SUBSET Nodes]
Asked  == [op : {"none", "add", "edit", "delete", "deleteAll"},
           step : {"idle", "find", "search", "store", "unlink", "remove", "done"},
           node : Nodes \cup {NoNode}, to : Nodes \cup {NoNode}, kind : Kinds,
           was : Nodes \cup {NoNode}, wasKind : Kinds,
           todo : SUBSET Nodes, seen : SUBSET Nodes, stack : Seq(Frames)]

TypeOK ==
  /\ parent \in [Nodes -> Nodes \cup {NoNode}]
  /\ kind \in [Nodes -> Kinds]
  /\ \A n \in Nodes : kind[n] = "none" => parent[n] = NoNode
  /\ Rows \subseteq used /\ used \subseteq Nodes
  /\ request \in [Requests -> Asked]
  /\ \A r \in Requests : /\ request[r].step # "idle" => request[r].node \in used
                         /\ request[r].op \in {"add", "edit"} => request[r].kind # "none"
  /\ walker \in [Walkers -> Nodes \cup {NoNode}]
  /\ treeOps \in 0..MaxTreeOps /\ treeCrashes \in 0..MaxTreeCrashes

Init ==
  /\ parent = InitParent /\ kind = InitKind
  /\ used = {n \in Nodes : InitKind[n] # "none"}
  /\ request = [r \in Requests |-> Free]
  /\ walker = [w \in Walkers |-> NoNode]
  /\ treeOps = 0 /\ treeCrashes = 0
  /\ doomed = [r \in Requests |-> {}] /\ torn = FALSE

Begin(r, record) ==
  /\ request[r].step = "idle" /\ treeOps < MaxTreeOps
  /\ treeOps' = treeOps + 1
  /\ request' = [request EXCEPT ![r] = record]

Goto(r, step) == request' = [request EXCEPT ![r].step = step]

\* The callback has been called, with an error or without one.
Done(r) ==
  /\ request[r].step = "done"
  /\ request' = [request EXCEPT ![r] = Free]
  /\ doomed' = [doomed EXCEPT ![r] = {}]
  /\ UNCHANGED <<parent, kind, used, walker, treeOps, treeCrashes, torn>>

-----------------------------------------------------------------------------
(* add *)

\* The form offers the groups there are.
BeginAdd(r, n, p) ==
  /\ n \notin used /\ p \in Groups \cup {NoNode}
  /\ \E k \in {"group", "plain"} :
       Begin(r, [Free EXCEPT !.op = "add", !.step = "store", !.node = n, !.to = p, !.kind = k])
  /\ used' = used \cup {n}
  /\ UNCHANGED <<parent, kind, walker, treeCrashes, doomed, torn>>

\* The foreign key: the parent must be there.
ParentExists(r) == request[r].to \in Rows \cup {NoNode}

StoreAdd(r) ==
  LET q == request[r]
  IN /\ q.op = "add" /\ q.step = "store"
     /\ IF ParentExists(r)
        THEN kind' = [kind EXCEPT ![q.node] = q.kind] /\ parent' = [parent EXCEPT ![q.node] = q.to]
        ELSE UNCHANGED <<kind, parent>>
     /\ torn' = (torn \/ (ParentExists(r) /\ q.to \notin Groups \cup {NoNode}))
     /\ Goto(r, "done")
     /\ UNCHANGED <<used, walker, treeOps, treeCrashes, doomed>>

-----------------------------------------------------------------------------
(* editMonitor *)

\* The form offers groups that are not the monitor itself.  It also leaves out the descendants
\* the browser knows of, which may be old: the server tests again.
BeginEdit(r, n, p) ==
  /\ n \in Rows /\ p \in (Groups \ {n}) \cup {NoNode}
  /\ EditsOverlap \/ \A o \in Requests : request[o].op # "edit"
  /\ \E k \in {"group", "plain"} :
       Begin(r, [Free EXCEPT !.op = "edit", !.step = "find", !.node = n, !.to = p, !.kind = k])
  /\ UNCHANGED <<parent, kind, used, walker, treeCrashes, doomed, torn>>

FindEdit(r) ==
  LET q == request[r]
  IN /\ q.op = "edit" /\ q.step = "find"
     /\ request' = [request EXCEPT ![r] =
          IF q.node \notin Rows THEN [q EXCEPT !.step = "done"]
          ELSE [q EXCEPT !.was = parent[q.node], !.wasKind = kind[q.node],
                         !.step = IF q.to = NoNode THEN "store" ELSE "search",
                         !.todo = IF q.to = NoNode THEN {} ELSE {q.node}]]
     /\ UNCHANGED <<parent, kind, used, walker, treeOps, treeCrashes, doomed, torn>>

\* mutant: children only
Search_OneLevel(r) ==
  LET q == request[r]
  IN /\ q.op = "edit" /\ q.step = "search" /\ q.todo # {}
     /\ \E n \in q.todo :
          request' = [request EXCEPT ![r].todo = @ \ {n}, ![r].seen = @ \cup Children(n)]
     /\ UNCHANGED <<parent, kind, used, walker, treeOps, treeCrashes, doomed, torn>>

\* getAllChildrenIDs() asks for the children of one monitor after another.
Search(r) ==
  LET q == request[r]
  IN /\ q.op = "edit" /\ q.step = "search" /\ q.todo # {}
     /\ \E n \in q.todo :
          request' = [request EXCEPT ![r].todo = (@ \ {n}) \cup Children(n), ![r].seen = @ \cup Children(n)]
     /\ UNCHANGED <<parent, kind, used, walker, treeOps, treeCrashes, doomed, torn>>

\* "Check if Parent is Descendant (would cause endless loop)".
TestParent(r) ==
  /\ request[r].op = "edit" /\ request[r].step = "search" /\ request[r].todo = {}
  /\ request' = [request EXCEPT ![r].step = IF request[r].to \in request[r].seen THEN "done" ELSE "store",
                                ![r].seen = {}]
  /\ UNCHANGED <<parent, kind, used, walker, treeOps, treeCrashes, doomed, torn>>

\* Only fields that differ from the bean as it was loaded are stored.
StoreEdit(r) ==
  LET q == request[r]
      n == q.node
      stored == n \in Rows /\ (q.to # q.was => ParentExists(r))
      leaves == q.wasKind = "group" /\ q.kind # "group"
  IN /\ q.op = "edit" /\ q.step = "store"
     /\ IF stored
        THEN /\ parent' = IF q.to # q.was THEN [parent EXCEPT ![n] = q.to] ELSE parent
             /\ kind' = IF q.kind # q.wasKind THEN [kind EXCEPT ![n] = q.kind] ELSE kind
        ELSE UNCHANGED <<parent, kind>>
     /\ Goto(r, IF (stored \/ n \notin Rows) /\ leaves THEN "unlink" ELSE "done")
     /\ doomed' = [o \in Requests |->
                     doomed[o] \ ((IF stored /\ q.to # q.was THEN {n} \cup Below(n) ELSE {})
                                  \cup (IF stored /\ leaves THEN Below(n) ELSE {}))]
     /\ torn' = (torn \/ (stored /\ q.to # q.was /\ q.to \notin Groups \cup {NoNode}))
     /\ UNCHANGED <<used, walker, treeOps, treeCrashes>>

Unlinked(n) == [c \in Nodes |-> IF parent[c] = n THEN NoNode ELSE parent[c]]

\* mutant: the members stay
Unlink_Skipped(r) ==
  /\ request[r].op = "edit" /\ request[r].step = "unlink"
  /\ Goto(r, "done")
  /\ UNCHANGED <<parent, kind, used, walker, treeOps, treeCrashes, doomed, torn>>

\* A group that became a plain monitor loses its members.
Unlink(r) ==
  LET n == request[r].node
  IN /\ request[r].op = "edit" /\ request[r].step = "unlink"
     /\ parent' = Unlinked(n)
     /\ doomed' = [o \in Requests |-> doomed[o] \ Below(n)]
     /\ Goto(r, "done")
     /\ UNCHANGED <<kind, used, walker, treeOps, treeCrashes, torn>>

-----------------------------------------------------------------------------
(* deleteMonitor *)

BeginDelete(r, n, all) ==
  /\ n \in Rows
  /\ Begin(r, [Free EXCEPT !.op = IF all THEN "deleteAll" ELSE "delete", !.step = "find", !.node = n])
  /\ UNCHANGED <<parent, kind, used, walker, treeCrashes, doomed, torn>>

Frame(n) == [node |-> n, todo |-> IF kind[n] = "group" THEN Children(n) ELSE {}]

\* Reads the monitor and, of a group, the children.
FindDelete(r) ==
  LET q == request[r]
      group == kind[q.node] = "group"
  IN /\ q.op \in {"delete", "deleteAll"} /\ q.step = "find"
     /\ request' = [request EXCEPT ![r] =
          IF group /\ q.op = "delete" THEN [q EXCEPT !.step = "unlink"]
          ELSE [q EXCEPT !.step = "remove", !.stack = <<Frame(q.node)>>]]
     /\ doomed' = IF group /\ q.op = "deleteAll" THEN [doomed EXCEPT ![r] = Below(q.node)] ELSE doomed
     /\ UNCHANGED <<parent, kind, used, walker, treeOps, treeCrashes, torn>>

UnlinkDelete(r) ==
  LET n == request[r].node
  IN /\ request[r].op = "delete" /\ request[r].step = "unlink"
     /\ parent' = Unlinked(n)
     /\ doomed' = [o \in Requests |-> doomed[o] \ Below(n)]
     /\ request' = [request EXCEPT ![r].step = "remove", ![r].stack = <<[node |-> n, todo |-> {}]>>]
     /\ UNCHANGED <<kind, used, walker, treeOps, treeCrashes, torn>>

\* mutant: the children of the group, but not theirs
Descend_Shallow(r) ==
  LET stack == request[r].stack
      top == stack[Len(stack)]
  IN /\ request[r].step = "remove" /\ stack # <<>> /\ top.todo # {}
     /\ \E c \in top.todo :
          request' = [request EXCEPT ![r].stack =
                        Append([stack EXCEPT ![Len(stack)].todo = @ \ {c}], [node |-> c, todo |-> {}])]
     /\ UNCHANGED <<parent, kind, used, walker, treeOps, treeCrashes, doomed, torn>>

\* deleteMonitorRecursively(): the next child, read with its own children.
Descend(r) ==
  LET stack == request[r].stack
      top == stack[Len(stack)]
  IN /\ request[r].step = "remove" /\ stack # <<>> /\ top.todo # {}
     /\ \E c \in top.todo :
          request' = [request EXCEPT ![r].stack =
                        Append([stack EXCEPT ![Len(stack)].todo = @ \ {c}], Frame(c))]
     /\ UNCHANGED <<parent, kind, used, walker, treeOps, treeCrashes, doomed, torn>>

\* Monitor.deleteMonitor(), after the children.  ON DELETE SET NULL.
Remove(r) ==
  LET stack == request[r].stack
      n == stack[Len(stack)].node
  IN /\ request[r].step = "remove" /\ stack # <<>> /\ stack[Len(stack)].todo = {}
     /\ kind' = [kind EXCEPT ![n] = "none"]
     /\ parent' = [Unlinked(n) EXCEPT ![n] = NoNode]
     /\ doomed' = [o \in Requests |-> IF o = r THEN doomed[o] ELSE doomed[o] \ Below(n)]
     /\ request' = [request EXCEPT ![r].stack = SubSeq(stack, 1, Len(stack) - 1),
                                   ![r].step = IF Len(stack) = 1 THEN "done" ELSE "remove"]
     /\ UNCHANGED <<used, walker, treeOps, treeCrashes, torn>>

-----------------------------------------------------------------------------
(* isParentActive(), getAllPath(): getParent() again and again *)

BeginWalk(w, n) ==
  /\ walker[w] = NoNode /\ n \in Rows
  /\ walker' = [walker EXCEPT ![w] = n]
  /\ UNCHANGED <<parent, kind, used, request, treeOps, treeCrashes, doomed, torn>>

Walk(w) ==
  /\ walker[w] # NoNode
  /\ walker' = [walker EXCEPT ![w] = parent[walker[w]]]
  /\ UNCHANGED <<parent, kind, used, request, treeOps, treeCrashes, doomed, torn>>

Crash ==
  /\ treeCrashes < MaxTreeCrashes /\ treeCrashes' = treeCrashes + 1
  /\ request' = [r \in Requests |-> Free]
  /\ walker' = [w \in Walkers |-> NoNode]
  /\ doomed' = [r \in Requests |-> {}]
  /\ torn' = (torn \/ \E r \in Requests : request[r].op = "edit" /\ request[r].step = "unlink")
  /\ UNCHANGED <<parent, kind, used, treeOps>>

Work(r) == \/ StoreAdd(r) \/ FindEdit(r) \/ Search(r) \/ TestParent(r) \/ StoreEdit(r) \/ Unlink(r)
           \/ FindDelete(r) \/ UnlinkDelete(r) \/ Descend(r) \/ Remove(r) \/ Done(r)

Next ==
  \/ \E r \in Requests, n \in Nodes :
       \/ \E p \in Nodes \cup {NoNode} : BeginAdd(r, n, p) \/ BeginEdit(r, n, p)
       \/ \E all \in BOOLEAN : BeginDelete(r, n, all)
  \/ \E r \in Requests : Work(r)
  \/ \E w \in Walkers : (\E n \in Nodes : BeginWalk(w, n)) \/ Walk(w)
  \/ Crash

Fairness ==
  /\ \A r \in Requests : WF_tvars(Work(r))
  /\ \A w \in Walkers : WF_tvars(Walk(w))

Spec == Init /\ [][Next]_tvars /\ Fairness

-----------------------------------------------------------------------------
(* Properties *)

\* No monitor is its own ancestor: no set of monitors has all its parents within itself.  Holds
\* as long as edits do not overlap, whatever is added or deleted meanwhile.
Acyclic == \A S \in (SUBSET Nodes) \ {{}} : \E n \in S : parent[n] \notin S

\* A parent is a group, also after a group was turned into another type, unless a crash came
\* between the two stores or a group was turned while a member was put into it.
ParentsAreGroups ==
  torn \/ \A n \in Rows : \/ parent[n] \in Groups \cup {NoNode}
                          \/ \E r \in Requests : request[r].step = "unlink" /\ request[r].node = parent[n]

\* A deletion with children leaves none of the members it found, at any depth, unless another
\* request took them out.
DeletionIsComplete ==
  \A r \in Requests : request[r].step = "done" => doomed[r] \cap Rows = {}

\* Every walk up the tree ends, and every request does.
WalksEnd == \A w \in Walkers : []<>(walker[w] = NoNode)
RequestsEnd == \A r \in Requests : []<>(request[r].step = "idle")

=============================================================================
