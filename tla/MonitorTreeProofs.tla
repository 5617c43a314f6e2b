--------------------------- MODULE MonitorTreeProofs ---------------------------
(* What holds of the tree of monitors for any monitors, requests that overlap, walks and    *)
(* crashes; in the second half, of the lists of notifications of monitors (List).           *)
EXTENDS MonitorTree, SequenceTheorems, TLAPS

-------------------------------------------------------------------------------
(* Types.                                                                      *)

LEMMA TypeInit == ASSUME TreeAssumption PROVE Init => TypeOK
<1> SUFFICES ASSUME Init PROVE TypeOK
  OBVIOUS
<1>1. Free \in Asked /\ Free.op = "none" /\ Free.step = "idle"
  BY EmptySeq DEF Free, Asked, Kinds
<1>2. /\ request \in [Requests -> Asked]
      /\ \A r \in Requests : request[r].op = "none" /\ request[r].step = "idle"
  BY <1>1 DEF Init
<1>3. /\ parent \in [Nodes -> Nodes \cup {NoNode}]
      /\ kind \in [Nodes -> Kinds]
      /\ \A n \in Nodes : kind[n] = "none" => parent[n] = NoNode
      /\ Rows \subseteq used /\ used \subseteq Nodes
  BY DEF Init, TreeAssumption, Kinds, Rows
<1>4. walker \in [Walkers -> Nodes \cup {NoNode}] /\ treeOps \in 0..MaxTreeOps /\ treeCrashes \in 0..MaxTreeCrashes
  BY DEF Init, TreeAssumption
<1>5. QED
  BY <1>2, <1>3, <1>4 DEF TypeOK

\* What a step of a request leaves alone of it, and the others.
Keeps(r) ==
  /\ \A o \in Requests : o # r => request'[o] = request[o]
  /\ request'[r].op = request[r].op /\ request'[r].node = request[r].node
  /\ request'[r].to = request[r].to /\ request'[r].kind = request[r].kind

LEMMA Begun ==
  ASSUME TreeAssumption, TypeOK, NEW r \in Requests, NEW x \in Asked, Begin(r, x)
  PROVE  /\ request' \in [Requests -> Asked] /\ request'[r] = x
         /\ \A o \in Requests : o # r => request'[o] = request[o]
         /\ treeOps' \in 0..MaxTreeOps /\ request[r].step = "idle"
BY DEF Begin, TypeOK, TreeAssumption

\* A step of a stack of deletions.
LEMMA StackSteps ==
  ASSUME TypeOK, NEW r \in Requests, request[r].stack # <<>>
  PROVE  LET stack == request[r].stack
             top == stack[Len(stack)]
         IN /\ top \in Frames /\ Len(stack) \in Nat \ {0}
            /\ SubSeq(stack, 1, Len(stack) - 1) \in Seq(Frames)
            /\ \A c \in Nodes : Append([stack EXCEPT ![Len(stack)].todo = @ \ {c}], Frame(c)) \in Seq(Frames)
<1> DEFINE stack == request[r].stack
           top == stack[Len(stack)]
<1>1. stack \in Seq(Frames) /\ stack # <<>>
  BY DEF TypeOK, Asked
<1> HIDE DEF stack
<1>2. Len(stack) \in Nat \ {0} /\ top \in Frames
  BY <1>1, EmptySeq, ElementOfSeq
<1>3. SubSeq(stack, 1, Len(stack) - 1) \in Seq(Frames)
  <2>1. \A i \in 1..(Len(stack) - 1) : stack[i] \in Frames
    BY <1>1, <1>2, ElementOfSeq
  <2>2. QED
    BY <1>2, <2>1, SubSeqProperties
<1>4. ASSUME NEW c \in Nodes
      PROVE  Append([stack EXCEPT ![Len(stack)].todo = @ \ {c}], Frame(c)) \in Seq(Frames)
  <2>1. Frame(c) \in Frames
    BY DEF Frame, Frames, Children, Rows
  <2>2. [top EXCEPT !.todo = @ \ {c}] \in Frames
    BY <1>2 DEF Frames
  <2>3. [stack EXCEPT ![Len(stack)] = [top EXCEPT !.todo = @ \ {c}]] \in Seq(Frames)
    BY <1>1, <1>2, <2>2, ExceptSeq
  <2>4. QED
    BY <2>1, <2>3
<1>5. QED
  BY <1>2, <1>3, <1>4 DEF stack

LEMMA RequestStep ==
  ASSUME TreeAssumption, TypeOK, NEW r \in Requests,
         \/ StoreAdd(r) \/ FindEdit(r) \/ Search(r) \/ TestParent(r) \/ StoreEdit(r) \/ Unlink(r)
         \/ FindDelete(r) \/ UnlinkDelete(r) \/ Descend(r) \/ Remove(r)
  PROVE  /\ request' \in [Requests -> Asked] /\ Keeps(r)
         /\ request[r].node \in used /\ request[r].step # "idle"
         /\ UNCHANGED <<used, walker, treeOps, treeCrashes>>
<1> DEFINE Goal == /\ request' \in [Requests -> Asked] /\ Keeps(r)
                   /\ request[r].node \in used /\ request[r].step # "idle"
                   /\ UNCHANGED <<used, walker, treeOps, treeCrashes>>
           q == request[r]
<1>0. q \in Asked /\ request \in [Requests -> Asked] /\ (q.step # "idle" => q.node \in used)
      /\ used \subseteq Nodes
  BY DEF TypeOK
<1>g. ASSUME NEW x \in Asked, request' = [request EXCEPT ![r] = x], x.op = q.op, x.node = q.node,
             x.to = q.to, x.kind = q.kind, q.step # "idle", UNCHANGED <<used, walker, treeOps, treeCrashes>>
      PROVE  Goal
  BY <1>0, <1>g DEF Keeps
<1> HIDE DEF Goal
<1>1. ASSUME StoreAdd(r) \/ Unlink(r) PROVE Goal
  <2> DEFINE x == [q EXCEPT !.step = "done"]
  <2>1. x \in Asked /\ x.op = q.op /\ x.node = q.node /\ x.to = q.to /\ x.kind = q.kind
    BY <1>0 DEF Asked
  <2>2. request' = [request EXCEPT ![r] = x] /\ q.step # "idle" /\ UNCHANGED <<used, walker, treeOps, treeCrashes>>
    BY <1>0, <1>1 DEF StoreAdd, Unlink, Goto
  <2>3. QED
    BY <1>g, <2>1, <2>2
<1>2. ASSUME FindEdit(r) PROVE Goal
  <2>1. PICK x : /\ request' = [request EXCEPT ![r] = x]
                 /\ \/ x = [q EXCEPT !.step = "done"]
                    \/ x = [q EXCEPT !.was = parent[q.node], !.wasKind = kind[q.node],
                                     !.step = IF q.to = NoNode THEN "store" ELSE "search",
                                     !.todo = IF q.to = NoNode THEN {} ELSE {q.node}]
                 /\ q.step # "idle" /\ UNCHANGED <<used, walker, treeOps, treeCrashes>>
    BY <1>2 DEF FindEdit
  <2>2. parent[q.node] \in Nodes \cup {NoNode} /\ kind[q.node] \in Kinds /\ q.node \in Nodes
    BY <1>0, <2>1 DEF TypeOK
  <2> DEFINE s == IF q.to = NoNode THEN "store" ELSE "search"
             t == IF q.to = NoNode THEN {} ELSE {q.node}
  <2>3. s \in {"store", "search"} /\ t \in SUBSET Nodes
    BY <2>2
  <2>4. \/ x = [q EXCEPT !.step = "done"]
        \/ x = [q EXCEPT !.was = parent[q.node], !.wasKind = kind[q.node], !.step = s, !.todo = t]
    BY <2>1
  <2> HIDE DEF s, t
  <2>5. x \in Asked /\ x.op = q.op /\ x.node = q.node /\ x.to = q.to /\ x.kind = q.kind
    BY <1>0, <2>2, <2>3, <2>4 DEF Asked
  <2>6. QED
    BY <1>g, <2>1, <2>5
<1>3. ASSUME Search(r) PROVE Goal
  <2>1. PICK n \in q.todo :
          request' = [request EXCEPT ![r].todo = (@ \ {n}) \cup Children(n), ![r].seen = @ \cup Children(n)]
    BY <1>3 DEF Search
  <2> DEFINE x == [q EXCEPT !.todo = (@ \ {n}) \cup Children(n), !.seen = @ \cup Children(n)]
  <2>2. Children(n) \subseteq Nodes
    BY DEF Children, Rows
  <2>3. x \in Asked /\ x.op = q.op /\ x.node = q.node /\ x.to = q.to /\ x.kind = q.kind
    BY <1>0, <2>2 DEF Asked
  <2>4. request' = [request EXCEPT ![r] = x] /\ q.step # "idle" /\ UNCHANGED <<used, walker, treeOps, treeCrashes>>
    BY <1>0, <1>3, <2>1 DEF Search
  <2>5. QED
    BY <1>g, <2>3, <2>4
<1>4. ASSUME TestParent(r) PROVE Goal
  <2> DEFINE s == IF q.to \in q.seen THEN "done" ELSE "store"
             x == [q EXCEPT !.step = s, !.seen = {}]
  <2>1. x \in Asked /\ x.op = q.op /\ x.node = q.node /\ x.to = q.to /\ x.kind = q.kind
    BY <1>0 DEF Asked
  <2>2. request' = [request EXCEPT ![r] = x] /\ q.step # "idle" /\ UNCHANGED <<used, walker, treeOps, treeCrashes>>
    BY <1>0, <1>4 DEF TestParent
  <2>3. QED
    BY <1>g, <2>1, <2>2
<1>5. ASSUME StoreEdit(r) PROVE Goal
  <2>1. PICK s \in {"unlink", "done"} : Goto(r, s)
    BY <1>5 DEF StoreEdit
  <2> DEFINE x == [q EXCEPT !.step = s]
  <2>2. x \in Asked /\ x.op = q.op /\ x.node = q.node /\ x.to = q.to /\ x.kind = q.kind
    BY <1>0 DEF Asked
  <2>3. request' = [request EXCEPT ![r] = x] /\ q.step # "idle" /\ UNCHANGED <<used, walker, treeOps, treeCrashes>>
    BY <1>0, <1>5, <2>1 DEF StoreEdit, Goto
  <2>4. QED
    BY <1>g, <2>2, <2>3
<1>6. ASSUME FindDelete(r) PROVE Goal
  <2>1. PICK x : /\ request' = [request EXCEPT ![r] = x]
                 /\ \/ x = [q EXCEPT !.step = "unlink"]
                    \/ x = [q EXCEPT !.step = "remove", !.stack = <<Frame(q.node)>>]
                 /\ q.step # "idle" /\ UNCHANGED <<used, walker, treeOps, treeCrashes>>
    BY <1>6 DEF FindDelete
  <2>2. Frame(q.node) \in Frames
    BY <1>0, <2>1 DEF Frame, Frames, Children, Rows
  <2>3. <<Frame(q.node)>> \in Seq(Frames)
    BY <2>2
  <2>4. x \in Asked /\ x.op = q.op /\ x.node = q.node /\ x.to = q.to /\ x.kind = q.kind
    BY <1>0, <2>1, <2>3 DEF Asked
  <2>5. QED
    BY <1>g, <2>1, <2>4
<1>7. ASSUME UnlinkDelete(r) PROVE Goal
  <2> DEFINE f == <<[node |-> q.node, todo |-> {}]>>
             x == [q EXCEPT !.step = "remove", !.stack = f]
  <2>1. q.step # "idle" /\ UNCHANGED <<used, walker, treeOps, treeCrashes>>
    BY <1>7 DEF UnlinkDelete
  <2>2. f \in Seq(Frames)
    BY <1>0, <2>1 DEF Frames
  <2>3. x \in Asked /\ x.op = q.op /\ x.node = q.node /\ x.to = q.to /\ x.kind = q.kind
    BY <1>0, <2>2 DEF Asked
  <2>4. request' = [request EXCEPT ![r] = x]
    BY <1>0, <1>7 DEF UnlinkDelete
  <2>5. QED
    BY <1>g, <2>1, <2>3, <2>4
<1>8. ASSUME Descend(r) PROVE Goal
  <2>1. PICK c \in q.stack[Len(q.stack)].todo :
          request' = [request EXCEPT ![r].stack =
                        Append([q.stack EXCEPT ![Len(q.stack)].todo = @ \ {c}], Frame(c))]
    BY <1>8 DEF Descend
  <2> DEFINE f == Append([q.stack EXCEPT ![Len(q.stack)].todo = @ \ {c}], Frame(c))
             x == [q EXCEPT !.stack = f]
  <2>2. q.stack # <<>> /\ q.step # "idle" /\ UNCHANGED <<used, walker, treeOps, treeCrashes>>
    BY <1>8 DEF Descend
  <2>3. f \in Seq(Frames)
    <3>1. c \in Nodes
      BY <2>2, StackSteps DEF Frames
    <3>2. QED
      BY <2>2, <3>1, StackSteps
  <2>4. request' = [request EXCEPT ![r] = x]
    BY <1>0, <2>1
  <2> HIDE DEF f
  <2>5. x \in Asked /\ x.op = q.op /\ x.node = q.node /\ x.to = q.to /\ x.kind = q.kind
    BY <1>0, <2>3 DEF Asked
  <2>6. QED
    BY <1>g, <2>2, <2>4, <2>5
<1>9. ASSUME Remove(r) PROVE Goal
  <2> DEFINE f == SubSeq(q.stack, 1, Len(q.stack) - 1)
             s == IF Len(q.stack) = 1 THEN "done" ELSE "remove"
             x == [q EXCEPT !.stack = f, !.step = s]
  <2>1. q.stack # <<>> /\ q.step # "idle" /\ UNCHANGED <<used, walker, treeOps, treeCrashes>>
    BY <1>9 DEF Remove
  <2>2. f \in Seq(Frames)
    BY <2>1, StackSteps
  <2>3. request' = [request EXCEPT ![r] = x]
    BY <1>0, <1>9 DEF Remove
  <2> HIDE DEF f
  <2>4. x \in Asked /\ x.op = q.op /\ x.node = q.node /\ x.to = q.to /\ x.kind = q.kind
    BY <1>0, <2>2 DEF Asked
  <2>5. QED
    BY <1>g, <2>1, <2>3, <2>4
<1>10. QED
  BY <1>1, <1>2, <1>3, <1>4, <1>5, <1>6, <1>7, <1>8, <1>9 DEF Goal

LEMMA BeginStep ==
  ASSUME TreeAssumption, TypeOK, NEW r \in Requests, NEW n \in Nodes,
         \/ \E p \in Nodes \cup {NoNode} : BeginAdd(r, n, p) \/ BeginEdit(r, n, p)
         \/ \E all \in BOOLEAN : BeginDelete(r, n, all)
  PROVE  TypeOK'
<1>0. /\ Free \in Asked /\ used \subseteq Nodes /\ Rows \subseteq used /\ Groups \subseteq Nodes
      /\ request \in [Requests -> Asked]
  BY EmptySeq DEF Free, Asked, Kinds, TypeOK, Groups
<1>1. ASSUME NEW x \in Asked, Begin(r, x), x.node \in used', used \subseteq used', used' \subseteq Nodes,
             x.op \in {"add", "edit"} => x.kind # "none",
             UNCHANGED <<parent, kind, walker, treeCrashes>>
      PROVE  TypeOK'
  <2>1. /\ request' \in [Requests -> Asked] /\ request'[r] = x
        /\ \A o \in Requests : o # r => request'[o] = request[o]
        /\ treeOps' \in 0..MaxTreeOps
    BY <1>1, Begun
  <2>2. \A o \in Requests : /\ request'[o].step # "idle" => request'[o].node \in used'
                            /\ request'[o].op \in {"add", "edit"} => request'[o].kind # "none"
    BY <1>1, <2>1 DEF TypeOK
  <2>3. QED
    BY <1>1, <2>1, <2>2 DEF TypeOK, Rows
<1>2. ASSUME NEW p \in Nodes \cup {NoNode}, BeginAdd(r, n, p) PROVE TypeOK'
  <2>1. PICK k \in {"group", "plain"} :
          Begin(r, [Free EXCEPT !.op = "add", !.step = "store", !.node = n, !.to = p, !.kind = k])
    BY <1>2 DEF BeginAdd
  <2> DEFINE x == [Free EXCEPT !.op = "add", !.step = "store", !.node = n, !.to = p, !.kind = k]
  <2>2. x \in Asked /\ x.node = n /\ x.kind = k
    BY <1>0 DEF Asked, Kinds
  <2> HIDE DEF x
  <2>3. Begin(r, x)
    BY <2>1 DEF x
  <2>4. used' = used \cup {n} /\ UNCHANGED <<parent, kind, walker, treeCrashes>>
    BY <1>2 DEF BeginAdd
  <2>5. QED
    BY <1>0, <1>1, <2>2, <2>3, <2>4
<1>3. ASSUME NEW p \in Nodes \cup {NoNode}, BeginEdit(r, n, p) PROVE TypeOK'
  <2>1. PICK k \in {"group", "plain"} :
          Begin(r, [Free EXCEPT !.op = "edit", !.step = "find", !.node = n, !.to = p, !.kind = k])
    BY <1>3 DEF BeginEdit
  <2> DEFINE x == [Free EXCEPT !.op = "edit", !.step = "find", !.node = n, !.to = p, !.kind = k]
  <2>2. x \in Asked /\ x.node = n /\ x.kind = k
    BY <1>0 DEF Asked, Kinds
  <2> HIDE DEF x
  <2>3. Begin(r, x)
    BY <2>1 DEF x
  <2>4. n \in Rows /\ UNCHANGED <<parent, kind, used, walker, treeCrashes>>
    BY <1>3 DEF BeginEdit
  <2>5. QED
    BY <1>0, <1>1, <2>2, <2>3, <2>4
<1>4. ASSUME NEW all \in BOOLEAN, BeginDelete(r, n, all) PROVE TypeOK'
  <2> DEFINE o == IF all THEN "deleteAll" ELSE "delete"
             x == [Free EXCEPT !.op = o, !.step = "find", !.node = n]
  <2>1. x \in Asked /\ x.node = n /\ x.op \notin {"add", "edit"}
    BY <1>0 DEF Asked, Kinds
  <2> HIDE DEF x
  <2>2. Begin(r, x) /\ n \in Rows /\ UNCHANGED <<parent, kind, used, walker, treeCrashes>>
    BY <1>4 DEF BeginDelete, x
  <2>3. QED
    BY <1>0, <1>1, <2>1, <2>2
<1>5. QED
  BY <1>2, <1>3, <1>4

LEMMA WorkStep ==
  ASSUME TreeAssumption, TypeOK, NEW r \in Requests, Work(r) PROVE TypeOK'
<1> DEFINE q == request[r]
<1>0. /\ q \in Asked /\ request \in [Requests -> Asked] /\ used \subseteq Nodes /\ Rows \subseteq used
      /\ parent \in [Nodes -> Nodes \cup {NoNode}] /\ kind \in [Nodes -> Kinds]
      /\ \A n \in Nodes : kind[n] = "none" => parent[n] = NoNode
      /\ q.op \in {"add", "edit"} => q.kind # "none"
      /\ q.to \in Nodes \cup {NoNode} /\ q.kind \in Kinds
  BY DEF TypeOK, Asked
<1>1. ASSUME ~Done(r),
             /\ parent' \in [Nodes -> Nodes \cup {NoNode}] /\ kind' \in [Nodes -> Kinds]
             /\ \A n \in Nodes : kind'[n] = "none" => parent'[n] = NoNode
             /\ \A n \in Nodes : kind'[n] # "none" => n \in used
      PROVE  TypeOK'
  <2>1. /\ request' \in [Requests -> Asked] /\ Keeps(r)
        /\ request[r].node \in used /\ request[r].step # "idle"
        /\ UNCHANGED <<used, walker, treeOps, treeCrashes>>
    BY <1>1, RequestStep DEF Work
  <2>2. \A o \in Requests : /\ request'[o].step # "idle" => request'[o].node \in used'
                            /\ request'[o].op \in {"add", "edit"} => request'[o].kind # "none"
    BY <2>1 DEF TypeOK, Keeps
  <2>3. Rows' \subseteq used'
    BY <1>1, <2>1 DEF Rows
  <2>4. QED
    BY <1>1, <2>1, <2>2, <2>3 DEF TypeOK
<1>2. ASSUME UNCHANGED <<parent, kind>>, ~Done(r) PROVE TypeOK'
  BY <1>0, <1>1, <1>2 DEF Rows
<1>3. CASE StoreAdd(r)
  <2>1. q.node \in used /\ ~Done(r)
    BY <1>3, RequestStep DEF StoreAdd, Done
  <2>2. \/ UNCHANGED <<parent, kind>>
        \/ kind' = [kind EXCEPT ![q.node] = q.kind] /\ parent' = [parent EXCEPT ![q.node] = q.to]
    BY <1>3 DEF StoreAdd
  <2>3. q.kind # "none"
    BY <1>0, <1>3 DEF StoreAdd
  <2>4. QED
    BY <1>0, <1>1, <1>2, <2>1, <2>2, <2>3 DEF Rows
<1>4. CASE StoreEdit(r)
  <2>1. q.node \in used /\ ~Done(r)
    BY <1>4, RequestStep DEF StoreEdit, Done
  <2>2. \/ UNCHANGED <<parent, kind>>
        \/ /\ q.node \in Rows
           /\ parent' = parent \/ parent' = [parent EXCEPT ![q.node] = q.to]
           /\ kind' = kind \/ kind' = [kind EXCEPT ![q.node] = q.kind]
    BY <1>4 DEF StoreEdit
  <2>3. q.kind # "none"
    BY <1>0, <1>4 DEF StoreEdit
  <2>4. QED
    BY <1>0, <1>1, <1>2, <2>1, <2>2, <2>3 DEF Rows
<1>5. CASE Unlink(r) \/ UnlinkDelete(r)
  <2>1. parent' = Unlinked(q.node) /\ UNCHANGED kind /\ ~Done(r)
    BY <1>5 DEF Unlink, UnlinkDelete, Done
  <2>2. QED
    BY <1>0, <1>1, <2>1 DEF Unlinked, Rows
<1>6. CASE Remove(r)
  <2>1. PICK n : kind' = [kind EXCEPT ![n] = "none"] /\ parent' = [Unlinked(n) EXCEPT ![n] = NoNode]
    BY <1>6 DEF Remove
  <2>2. ~Done(r)
    BY <1>6 DEF Remove, Done
  <2>3. QED
    BY <1>0, <1>1, <2>1, <2>2 DEF Unlinked, Rows, Kinds
<1>7. CASE FindEdit(r) \/ Search(r) \/ TestParent(r) \/ FindDelete(r) \/ Descend(r)
  <2>1. UNCHANGED <<parent, kind>> /\ ~Done(r)
    BY <1>7 DEF FindEdit, Search, TestParent, FindDelete, Descend, Done
  <2>2. QED
    BY <1>2, <2>1
<1>8. CASE Done(r)
  <2>1. Free \in Asked /\ Free.op = "none" /\ Free.step = "idle"
    BY EmptySeq DEF Free, Asked, Kinds
  <2>2. request' = [request EXCEPT ![r] = Free] /\ UNCHANGED <<parent, kind, used, walker, treeOps, treeCrashes>>
    BY <1>8 DEF Done
  <2>3. /\ request' \in [Requests -> Asked]
        /\ \A o \in Requests : /\ request'[o].step # "idle" => request'[o].node \in used
                               /\ request'[o].op \in {"add", "edit"} => request'[o].kind # "none"
    BY <1>0, <2>1, <2>2 DEF TypeOK
  <2>4. QED
    BY <2>2, <2>3 DEF TypeOK, Rows
<1>9. QED
  BY <1>3, <1>4, <1>5, <1>6, <1>7, <1>8 DEF Work

LEMMA TypeStep == ASSUME TreeAssumption PROVE TypeOK /\ [Next]_tvars => TypeOK'
<1> SUFFICES ASSUME TypeOK, [Next]_tvars PROVE TypeOK'
  OBVIOUS
<1>1. ASSUME NEW w \in Walkers, (\E n \in Nodes : BeginWalk(w, n)) \/ Walk(w) PROVE TypeOK'
  <2>1. walker' \in [Walkers -> Nodes \cup {NoNode}] /\ UNCHANGED <<parent, kind, used, request, treeOps, treeCrashes>>
    BY <1>1 DEF BeginWalk, Walk, TypeOK
  <2>2. QED
    BY <2>1 DEF TypeOK, Rows
<1>2. CASE Crash
  <2>1. Free \in Asked /\ Free.op = "none" /\ Free.step = "idle"
    BY EmptySeq DEF Free, Asked, Kinds
  <2>2. /\ request' = [r \in Requests |-> Free] /\ walker' = [w \in Walkers |-> NoNode]
        /\ UNCHANGED <<parent, kind, used, treeOps>> /\ treeCrashes < MaxTreeCrashes /\ treeCrashes' = treeCrashes + 1
    BY <1>2 DEF Crash
  <2>3. treeCrashes' \in 0..MaxTreeCrashes
    BY <2>2 DEF TypeOK, TreeAssumption
  <2>4. QED
    BY <2>1, <2>2, <2>3 DEF TypeOK, Rows
<1>3. CASE UNCHANGED tvars
  BY <1>3 DEF TypeOK, tvars, Rows
<1>4. QED
  BY <1>1, <1>2, <1>3, BeginStep, WorkStep DEF Next

\* The rows, the requests and the walks keep their types: a monitor that is gone has no parent,
\* and ids of requests are ids given out.
THEOREM TypeCorrect == ASSUME TreeAssumption PROVE Spec => []TypeOK
BY TypeInit, TypeStep, PTL DEF Spec

-------------------------------------------------------------------------------
(* Requests in order.                                                          *)

Adding(r)  == request[r].op = "add" /\ request[r].step = "store"
Editing(r) == request[r].op = "edit" /\ request[r].step \in {"find", "search", "store"}

\* Ids that were given out and are not promised to a row to come.
Settled == {n \in used : \A r \in Requests : Adding(r) => request[r].node # n}

\* Rows and the parents requests have in mind are settled, parents of rows are rows, and an id
\* is promised to one request.
Orderly ==
  /\ Rows \subseteq Settled
  /\ \A n \in Nodes : parent[n] \in Rows \cup {NoNode}
  /\ \A r \in Requests : Adding(r) =>
       /\ request[r].to \in Settled \cup {NoNode}
       /\ \A o \in Requests : Adding(o) /\ request[o].node = request[r].node => o = r
  /\ \A r \in Requests : Editing(r) =>
       /\ request[r].to \in (Settled \ {request[r].node}) \cup {NoNode}
       /\ request[r].step = "find" => request[r].seen = {}

\* What becomes of the requests in a step.
AddsMove ==
  \A o \in Requests : Adding(o)' =>
    \/ Adding(o) /\ request'[o] = request[o]
    \/ /\ request'[o].node \in used' \ used /\ request'[o].to \in Groups \cup {NoNode}
       /\ \A x \in Requests : x # o => request'[x] = request[x]

EditsMove ==
  \A o \in Requests : request'[o].op = "edit" =>
    \/ request'[o] = request[o]
    \/ /\ \E n \in Nodes, p \in Nodes \cup {NoNode} : BeginEdit(o, n, p)
       /\ request'[o].step = "find" /\ request'[o].node \in Rows /\ request'[o].seen = {}
       /\ request'[o].to \in (Groups \ {request'[o].node}) \cup {NoNode}
       /\ \A x \in Requests : x # o => request'[x] = request[x]
    \/ /\ request[o].op = "edit"
       /\ request'[o].to = request[o].to /\ request'[o].node = request[o].node
       /\ Editing(o)' => Editing(o) /\ (FindEdit(o) \/ Search(o) \/ TestParent(o))
                                  /\ request'[o].step # "find"

LEMMA DeletionStep ==
  ASSUME TypeOK, NEW r \in Requests, Descend(r) \/ Remove(r)
  PROVE  request'[r].step \in {"remove", "done"}
<1>0. request[r] \in Asked /\ request \in [Requests -> Asked]
  BY DEF TypeOK
<1>1. CASE Descend(r)
  <2>1. PICK f : request' = [request EXCEPT ![r].stack = f]
    BY <1>1 DEF Descend
  <2>2. request[r].step = "remove"
    BY <1>1 DEF Descend
  <2>3. QED
    BY <1>0, <2>1, <2>2 DEF Asked
<1>2. CASE Remove(r)
  <2> DEFINE stack == request[r].stack
             f == SubSeq(stack, 1, Len(stack) - 1)
             s == IF Len(stack) = 1 THEN "done" ELSE "remove"
  <2>1. request' = [request EXCEPT ![r].stack = f, ![r].step = s] /\ s \in {"remove", "done"}
    BY <1>2 DEF Remove
  <2> HIDE DEF f, s
  <2>2. QED
    BY <1>0, <2>1 DEF Asked
<1>3. QED
  BY <1>1, <1>2

LEMMA RequestsMove ==
  ASSUME TreeAssumption PROVE TypeOK /\ [Next]_tvars => AddsMove /\ EditsMove
<1> DEFINE Goal == AddsMove /\ EditsMove
<1> SUFFICES ASSUME TypeOK, [Next]_tvars PROVE Goal
  OBVIOUS
<1>0. Rows \subseteq used /\ request \in [Requests -> Asked] /\ Free \in Asked /\ Free.op = "none"
      /\ Groups \subseteq Rows
  BY EmptySeq DEF TypeOK, Free, Asked, Kinds, Groups, Rows
<1>1. ASSUME request' = request PROVE Goal
  BY <1>1 DEF AddsMove, EditsMove, Adding
<1>2. ASSUME NEW r \in Requests, NEW x \in Asked, x.op \notin {"add", "edit"},
             request' = [request EXCEPT ![r] = x]
      PROVE  Goal
  <2>1. /\ request'[r] = x
        /\ \A o \in Requests : o # r => request'[o] = request[o]
    BY <1>0, <1>2
  <2>2. QED
    BY <1>2, <2>1 DEF AddsMove, EditsMove, Adding
<1>3. ASSUME NEW r \in Requests, NEW n \in Nodes, NEW p \in Nodes \cup {NoNode}, BeginAdd(r, n, p)
      PROVE  Goal
  <2>1. PICK k \in {"group", "plain"} :
          Begin(r, [Free EXCEPT !.op = "add", !.step = "store", !.node = n, !.to = p, !.kind = k])
    BY <1>3 DEF BeginAdd
  <2> DEFINE x == [Free EXCEPT !.op = "add", !.step = "store", !.node = n, !.to = p, !.kind = k]
  <2>2. x \in Asked /\ x.node = n /\ x.to = p /\ x.op = "add"
    BY <1>0 DEF Asked, Kinds
  <2> HIDE DEF x
  <2>3. Begin(r, x)
    BY <2>1 DEF x
  <2>4. n \in used' \ used /\ p \in Groups \cup {NoNode}
    BY <1>3 DEF BeginAdd
  <2>5. request'[r] = x /\ \A o \in Requests : o # r => request'[o] = request[o]
    BY <2>2, <2>3, Begun
  <2>6. QED
    BY <2>2, <2>4, <2>5 DEF AddsMove, EditsMove, Adding
<1>4. ASSUME NEW r \in Requests, NEW n \in Nodes, NEW p \in Nodes \cup {NoNode}, BeginEdit(r, n, p)
      PROVE  Goal
  <2>1. PICK k \in {"group", "plain"} :
          Begin(r, [Free EXCEPT !.op = "edit", !.step = "find", !.node = n, !.to = p, !.kind = k])
    BY <1>4 DEF BeginEdit
  <2> DEFINE x == [Free EXCEPT !.op = "edit", !.step = "find", !.node = n, !.to = p, !.kind = k]
  <2>2. x \in Asked /\ x.node = n /\ x.to = p /\ x.op = "edit" /\ x.step = "find" /\ x.seen = Free.seen
    BY <1>0 DEF Asked, Kinds
  <2> HIDE DEF x
  <2>3. Begin(r, x)
    BY <2>1 DEF x
  <2>4. n \in Rows /\ p \in (Groups \ {n}) \cup {NoNode}
    BY <1>4 DEF BeginEdit
  <2>5. request'[r] = x /\ \A o \in Requests : o # r => request'[o] = request[o]
    BY <2>2, <2>3, Begun
  <2>6. Free.seen = {}
    BY DEF Free
  <2>7. QED
    BY <1>4, <2>2, <2>4, <2>5, <2>6 DEF AddsMove, EditsMove, Adding
<1>5. ASSUME NEW r \in Requests, NEW n \in Nodes, NEW all \in BOOLEAN, BeginDelete(r, n, all) PROVE Goal
  <2> DEFINE o == IF all THEN "deleteAll" ELSE "delete"
             x == [Free EXCEPT !.op = o, !.step = "find", !.node = n]
  <2>1. x \in Asked /\ x.op \notin {"add", "edit"}
    BY <1>0 DEF Asked, Kinds
  <2>2. request' = [request EXCEPT ![r] = x]
    BY <1>5 DEF BeginDelete, Begin
  <2> HIDE DEF x
  <2>3. QED
    BY <1>2, <2>1, <2>2
<1>6. ASSUME NEW r \in Requests,
             \/ StoreAdd(r) \/ FindEdit(r) \/ Search(r) \/ TestParent(r) \/ StoreEdit(r) \/ Unlink(r)
             \/ FindDelete(r) \/ UnlinkDelete(r) \/ Descend(r) \/ Remove(r)
      PROVE  Goal
  <2>1. Keeps(r)
    BY <1>6, RequestStep
  <2>2. ~Adding(r)'
    <3>1. CASE StoreAdd(r)
      BY <1>0, <3>1 DEF StoreAdd, Goto, Adding, Asked
    <3>2. CASE ~StoreAdd(r) /\ request[r].op # "add"
      BY <2>1, <3>2 DEF Keeps, Adding
    <3>3. CASE ~StoreAdd(r) /\ request[r].op = "add"
      <4>1. Descend(r) \/ Remove(r)
        BY <1>6, <3>3 DEF FindEdit, Search, TestParent, StoreEdit, Unlink, FindDelete, UnlinkDelete
      <4>2. request'[r].step \in {"remove", "done"}
        BY <4>1, DeletionStep
      <4>3. QED
        BY <4>2 DEF Adding
    <3>4. QED
      BY <3>1, <3>2, <3>3
  <2>3. Editing(r)' => Editing(r) /\ (FindEdit(r) \/ Search(r) \/ TestParent(r)) /\ request'[r].step # "find"
    <3>1. CASE FindEdit(r) \/ Search(r) \/ TestParent(r)
      <4>1. ASSUME FindEdit(r) PROVE request'[r].step # "find"
        <5>1. CASE request[r].node \notin Rows
          BY <1>0, <4>1, <5>1 DEF FindEdit, Asked
        <5>2. CASE request[r].node \in Rows /\ request[r].to = NoNode
          BY <1>0, <4>1, <5>2 DEF FindEdit, Asked
        <5>3. CASE request[r].node \in Rows /\ request[r].to # NoNode
          BY <1>0, <4>1, <5>3 DEF FindEdit, Asked
        <5>4. QED
          BY <5>1, <5>2, <5>3
      <4>2. ASSUME Search(r) PROVE request'[r].step # "find"
        <5>1. PICK n \in request[r].todo :
                request' = [request EXCEPT ![r].todo = (@ \ {n}) \cup Children(n),
                                           ![r].seen = @ \cup Children(n)]
          BY <4>2 DEF Search
        <5>2. QED
          BY <1>0, <4>2, <5>1 DEF Search, Asked
      <4>3. ASSUME TestParent(r) PROVE request'[r].step # "find"
        BY <1>0, <4>3 DEF TestParent, Asked
      <4>4. request'[r].step # "find"
        BY <3>1, <4>1, <4>2, <4>3
      <4>5. QED
        BY <3>1, <4>4 DEF FindEdit, Search, TestParent, Editing
    <3>2. CASE StoreEdit(r) \/ Unlink(r)
      <4>1. request'[r].step \in {"unlink", "done"}
        BY <1>0, <3>2 DEF StoreEdit, Unlink, Goto, Asked
      <4>2. QED
        BY <4>1 DEF Editing
    <3>3. CASE Descend(r) \/ Remove(r)
      <4>1. request'[r].step \in {"remove", "done"}
        BY <3>3, DeletionStep
      <4>2. QED
        BY <4>1 DEF Editing
    <3>4. CASE StoreAdd(r) \/ FindDelete(r) \/ UnlinkDelete(r)
      BY <2>1, <3>4 DEF StoreAdd, FindDelete, UnlinkDelete, Editing, Keeps
    <3>5. QED
      BY <1>6, <3>1, <3>2, <3>3, <3>4
  <2>4. QED
    BY <2>1, <2>2, <2>3 DEF AddsMove, EditsMove, Keeps, Adding
<1>7. ASSUME NEW r \in Requests, Done(r) PROVE Goal
  <2>1. request' = [request EXCEPT ![r] = Free] /\ Free.op \notin {"add", "edit"}
    BY <1>0, <1>7 DEF Done
  <2>2. QED
    BY <1>0, <1>2, <2>1
<1>8. CASE Crash
  <2>1. \A o \in Requests : request'[o].op = "none"
    BY <1>0, <1>8 DEF Crash
  <2>2. QED
    BY <2>1 DEF AddsMove, EditsMove, Adding
<1>9. ASSUME NEW w \in Walkers, (\E n \in Nodes : BeginWalk(w, n)) \/ Walk(w) PROVE Goal
  BY <1>1, <1>9 DEF BeginWalk, Walk
<1>10. CASE UNCHANGED tvars
  BY <1>1, <1>10 DEF tvars
<1> HIDE DEF Goal
<1>11. QED
  BY <1>3, <1>4, <1>5, <1>6, <1>7, <1>8, <1>9, <1>10 DEF Next, Work

LEMMA SettledGrows ==
  ASSUME TypeOK, TypeOK', AddsMove, used \subseteq used' PROVE Settled \subseteq Settled'
<1> SUFFICES ASSUME NEW n \in Settled, NEW r \in Requests, Adding(r)' PROVE request'[r].node # n
  BY DEF Settled
<1>1. n \in used /\ (Adding(r) => request[r].node # n)
  BY DEF Settled
<1>2. QED
  BY <1>1 DEF AddsMove

LEMMA UsedGrows == Next \/ UNCHANGED tvars => used \subseteq used'
BY DEF Next, tvars, BeginAdd, BeginEdit, BeginDelete, Work, StoreAdd, FindEdit, Search, TestParent,
       StoreEdit, Unlink, FindDelete, UnlinkDelete, Descend, Remove, Done, BeginWalk, Walk, Crash

\* What becomes of the tree in a step: links go, a row comes, or a row moves.
Prunes ==
  /\ Rows' \subseteq Rows
  /\ \A n \in Nodes : parent'[n] \in {parent[n], NoNode} /\ parent'[n] \in Rows' \cup {NoNode}

Grows(r) ==
  /\ StoreAdd(r) /\ Adding(r) /\ request[r].to \in Rows \cup {NoNode}
  /\ Rows' = Rows \cup {request[r].node}
  /\ parent' = [parent EXCEPT ![request[r].node] = request[r].to]

Moves(r) ==
  /\ StoreEdit(r) /\ request[r].to \in Rows \cup {NoNode} /\ request[r].node \in Rows
  /\ Rows' = Rows
  /\ parent' = [parent EXCEPT ![request[r].node] = request[r].to]

LEMMA TreeSteps ==
  ASSUME TreeAssumption
  PROVE  TypeOK /\ Orderly /\ [Next]_tvars => Prunes \/ \E r \in Requests : Grows(r) \/ Moves(r)
<1> DEFINE Goal == Prunes \/ \E r \in Requests : Grows(r) \/ Moves(r)
<1> SUFFICES ASSUME TypeOK, Orderly, [Next]_tvars PROVE Goal
  OBVIOUS
<1>0. /\ parent \in [Nodes -> Nodes \cup {NoNode}] /\ kind \in [Nodes -> Kinds]
      /\ used \subseteq Nodes /\ \A r \in Requests : request[r] \in Asked
      /\ \A n \in Nodes : parent[n] \in Rows \cup {NoNode}
  BY DEF TypeOK, Orderly
<1>1. ASSUME UNCHANGED <<parent, kind>> PROVE Goal
  BY <1>0, <1>1 DEF Prunes, Rows
<1>2. ASSUME NEW r \in Requests, StoreAdd(r) PROVE Goal
  <2>1. Adding(r) /\ request[r].node \in Nodes /\ request[r].kind # "none"
    BY <1>0, <1>2, RequestStep DEF StoreAdd, Adding, TypeOK
  <2>2. CASE ParentExists(r)
    <3>1. /\ kind' = [kind EXCEPT ![request[r].node] = request[r].kind]
          /\ parent' = [parent EXCEPT ![request[r].node] = request[r].to]
      BY <1>2, <2>2 DEF StoreAdd
    <3>2. Rows' = Rows \cup {request[r].node}
      BY <1>0, <2>1, <3>1 DEF Rows
    <3>3. QED
      BY <1>2, <2>1, <2>2, <3>1, <3>2 DEF Grows, ParentExists
  <2>3. CASE ~ParentExists(r)
    BY <1>1, <1>2, <2>3 DEF StoreAdd
  <2>4. QED
    BY <2>2, <2>3
<1>3. ASSUME NEW r \in Requests, StoreEdit(r) PROVE Goal
  <2> DEFINE q == request[r]
  <2>1. q.kind # "none"
    BY <1>3 DEF StoreEdit, TypeOK
  <2>2. \/ UNCHANGED <<parent, kind>>
        \/ /\ q.node \in Rows /\ (q.to # q.was => ParentExists(r))
           /\ parent' = IF q.to # q.was THEN [parent EXCEPT ![q.node] = q.to] ELSE parent
           /\ kind' = IF q.kind # q.wasKind THEN [kind EXCEPT ![q.node] = q.kind] ELSE kind
    BY <1>3 DEF StoreEdit
  <2>3. CASE UNCHANGED <<parent, kind>>
    BY <1>1, <2>3
  <2>4. CASE /\ q.node \in Rows /\ (q.to # q.was => ParentExists(r))
             /\ parent' = IF q.to # q.was THEN [parent EXCEPT ![q.node] = q.to] ELSE parent
             /\ kind' = IF q.kind # q.wasKind THEN [kind EXCEPT ![q.node] = q.kind] ELSE kind
    <3>1. Rows' = Rows
      BY <1>0, <2>1, <2>4 DEF Rows
    <3>2. CASE q.to # q.was
      BY <1>3, <2>4, <3>1, <3>2 DEF Moves, ParentExists
    <3>3. CASE q.to = q.was
      BY <1>0, <2>4, <3>1, <3>3 DEF Prunes
    <3>4. QED
      BY <3>2, <3>3
  <2>5. QED
    BY <2>2, <2>3, <2>4
<1>4. ASSUME NEW r \in Requests, Unlink(r) \/ UnlinkDelete(r) PROVE Goal
  <2>1. parent' = Unlinked(request[r].node) /\ kind' = kind
    BY <1>4 DEF Unlink, UnlinkDelete
  <2>2. QED
    BY <1>0, <2>1 DEF Unlinked, Prunes, Rows
<1>5. ASSUME NEW r \in Requests, Remove(r) PROVE Goal
  <2>1. PICK n : kind' = [kind EXCEPT ![n] = "none"] /\ parent' = [Unlinked(n) EXCEPT ![n] = NoNode]
    BY <1>5 DEF Remove
  <2>2. /\ Rows' = Rows \ {n}
        /\ \A c \in Nodes : parent'[c] = IF c = n \/ parent[c] = n THEN NoNode ELSE parent[c]
    BY <1>0, <2>1 DEF Rows, Unlinked
  <2>3. QED
    BY <1>0, <2>2 DEF Prunes
<1>6. ASSUME NEW r \in Requests, FindEdit(r) \/ Search(r) \/ TestParent(r) \/ FindDelete(r) \/ Descend(r)
                                 \/ Done(r)
      PROVE  Goal
  BY <1>1, <1>6 DEF FindEdit, Search, TestParent, FindDelete, Descend, Done
<1>7. ASSUME NEW r \in Requests, NEW n \in Nodes,
             \/ \E p \in Nodes \cup {NoNode} : BeginAdd(r, n, p) \/ BeginEdit(r, n, p)
             \/ \E all \in BOOLEAN : BeginDelete(r, n, all)
      PROVE  Goal
  BY <1>1, <1>7 DEF BeginAdd, BeginEdit, BeginDelete
<1>8. ASSUME NEW w \in Walkers, (\E n \in Nodes : BeginWalk(w, n)) \/ Walk(w) PROVE Goal
  BY <1>1, <1>8 DEF BeginWalk, Walk
<1>9. CASE Crash \/ UNCHANGED tvars
  BY <1>1, <1>9 DEF Crash, tvars
<1> HIDE DEF Goal
<1>10. QED
  BY <1>2, <1>3, <1>4, <1>5, <1>6, <1>7, <1>8, <1>9 DEF Next, Work

LEMMA OrderlyInit == ASSUME TreeAssumption PROVE Init => Orderly
<1> SUFFICES ASSUME Init PROVE Orderly
  OBVIOUS
<1>1. \A r \in Requests : ~Adding(r) /\ ~Editing(r)
  BY DEF Init, Free, Adding, Editing
<1>2. Rows \subseteq Settled
  BY <1>1 DEF Init, Rows, Settled
<1>3. \A n \in Nodes : parent[n] \in Rows \cup {NoNode}
  BY DEF Init, TreeAssumption, Rows
<1>4. QED
  BY <1>1, <1>2, <1>3 DEF Orderly

LEMMA OrderlyStep == ASSUME TreeAssumption PROVE TypeOK /\ Orderly /\ [Next]_tvars => Orderly'
<1> SUFFICES ASSUME TypeOK, Orderly, [Next]_tvars PROVE Orderly'
  OBVIOUS
<1>0. /\ TypeOK' /\ AddsMove /\ EditsMove /\ used \subseteq used' /\ Settled \subseteq Settled'
      /\ Groups \subseteq Settled /\ Settled \subseteq used
      /\ parent \in [Nodes -> Nodes \cup {NoNode}] /\ used \subseteq Nodes
  BY TypeStep, RequestsMove, UsedGrows, SettledGrows DEF Orderly, Groups, Rows, TypeOK, Settled
<1>1. Rows' \subseteq Settled' /\ \A n \in Nodes : parent'[n] \in Rows' \cup {NoNode}
  <2>1. CASE Prunes
    BY <1>0, <2>1 DEF Prunes, Orderly
  <2>2. ASSUME NEW r \in Requests, Grows(r)
        PROVE  Rows' \subseteq Settled' /\ \A n \in Nodes : parent'[n] \in Rows' \cup {NoNode}
    <3>1. request[r].node \in used /\ Keeps(r)
      BY <2>2, RequestStep DEF Grows
    <3>2. ~Adding(r)'
      BY <2>2 DEF Grows, StoreAdd, Goto, Adding, TypeOK, Asked
    <3>3. ASSUME NEW o \in Requests, Adding(o)' PROVE request'[o].node # request[r].node
      <4>1. o # r
        BY <3>2, <3>3
      <4>2. Adding(o) /\ request'[o] = request[o]
        BY <3>1, <3>3, <4>1 DEF Keeps, Adding
      <4>3. QED
        BY <2>2, <4>1, <4>2 DEF Orderly, Grows
    <3>4. request[r].node \in Settled'
      BY <1>0, <3>1, <3>3 DEF Settled
    <3>5. QED
      BY <1>0, <2>2, <3>4 DEF Grows, Orderly
  <2>3. ASSUME NEW r \in Requests, Moves(r)
        PROVE  Rows' \subseteq Settled' /\ \A n \in Nodes : parent'[n] \in Rows' \cup {NoNode}
    BY <1>0, <2>3 DEF Moves, Orderly
  <2>4. QED
    BY <2>1, <2>2, <2>3, TreeSteps
<1>2. ASSUME NEW r \in Requests, Adding(r)'
      PROVE  /\ request'[r].to \in Settled' \cup {NoNode}
             /\ \A o \in Requests : Adding(o)' /\ request'[o].node = request'[r].node => o = r
  <2>1. CASE Adding(r) /\ request'[r] = request[r]
    <3>1. request[r].node \in used
      BY <2>1 DEF Adding, TypeOK
    <3>2. ASSUME NEW o \in Requests, Adding(o)', request'[o].node = request'[r].node PROVE o = r
      <4>1. Adding(o) /\ request'[o] = request[o]
        BY <1>0, <2>1, <3>1, <3>2 DEF AddsMove
      <4>2. QED
        BY <2>1, <3>2, <4>1 DEF Orderly
    <3>3. QED
      BY <1>0, <2>1, <3>2 DEF Orderly
  <2>2. CASE /\ request'[r].node \in used' \ used /\ request'[r].to \in Groups \cup {NoNode}
             /\ \A x \in Requests : x # r => request'[x] = request[x]
    <3>1. ASSUME NEW o \in Requests, Adding(o)', request'[o].node = request'[r].node PROVE o = r
      <4>1. SUFFICES ASSUME o # r PROVE FALSE
        OBVIOUS
      <4>2. request'[o] = request[o] /\ Adding(o)
        BY <2>2, <3>1, <4>1 DEF Adding
      <4>3. request[o].node \in used
        BY <4>2 DEF Adding, TypeOK
      <4>4. QED
        BY <2>2, <3>1, <4>2, <4>3
    <3>2. QED
      BY <1>0, <2>2, <3>1
  <2>3. QED
    BY <1>0, <1>2, <2>1, <2>2 DEF AddsMove
<1>3. ASSUME NEW r \in Requests, Editing(r)'
      PROVE  /\ request'[r].to \in (Settled' \ {request'[r].node}) \cup {NoNode}
             /\ request'[r].step = "find" => request'[r].seen = {}
  <2>1. CASE request'[r] = request[r]
    BY <1>0, <1>3, <2>1 DEF Orderly, Editing
  <2>2. CASE request'[r].to \in (Groups \ {request'[r].node}) \cup {NoNode} /\ request'[r].seen = {}
    BY <1>0, <2>2
  <2>3. CASE /\ request'[r].to = request[r].to /\ request'[r].node = request[r].node /\ Editing(r)
             /\ request'[r].step # "find"
    BY <1>0, <2>3 DEF Orderly
  <2>4. QED
    BY <1>0, <1>3, <2>1, <2>2, <2>3 DEF EditsMove, Editing
<1>4. QED
  BY <1>1, <1>2, <1>3 DEF Orderly

-------------------------------------------------------------------------------
(* No cycles.                                                                  *)

OneEdit == \A r, o \in Requests : request[r].op = "edit" /\ request[o].op = "edit" => r = o

\* A set of monitors with n that parents do not lead out of, but to the top.
Chain(A, n) == n \in A /\ \A x \in A : parent[x] \in A \cup {NoNode}

\* Of the way up from the new parent of an edit, what is below the monitor was seen by the
\* search, as far as it has come; once the search is over the monitor is not on this way.
Searched(A, r) == \A x \in A :
  parent[x] \in ({request[r].node} \cup request[r].seen) \ request[r].todo => x \in request[r].seen

Apart == \A r \in Requests : request[r].op = "edit" /\ request[r].to # NoNode =>
  /\ request[r].step = "search" =>
       \E A \in SUBSET Settled : Chain(A, request[r].to) /\ Searched(A, r)
  /\ request[r].step = "store" =>
       \E A \in SUBSET Settled : Chain(A, request[r].to) /\ request[r].node \notin A

TreeInv == TypeOK /\ Orderly /\ OneEdit /\ Apart /\ Acyclic

LEMMA TreeInit == ASSUME TreeAssumption PROVE Init => TreeInv
<1> SUFFICES ASSUME Init PROVE TreeInv
  OBVIOUS
<1>1. \A r \in Requests : request[r].op = "none"
  BY DEF Init, Free
<1>2. Acyclic
  BY DEF Init, Acyclic, TreeAssumption
<1>3. QED
  BY <1>1, <1>2, TypeInit, OrderlyInit DEF TreeInv, OneEdit, Apart

LEMMA OneEditStep ==
  ASSUME TreeAssumption, EditsOverlap = FALSE
  PROVE  TypeOK /\ OneEdit /\ [Next]_tvars => OneEdit'
<1> SUFFICES ASSUME TypeOK, OneEdit, [Next]_tvars,
                    NEW r \in Requests, NEW o \in Requests,
                    request'[r].op = "edit", request'[o].op = "edit", r # o
             PROVE  FALSE
  BY DEF OneEdit
<1>0. EditsMove
  BY RequestsMove
<1>1. ASSUME NEW x \in Requests, NEW n \in Nodes, NEW p \in Nodes \cup {NoNode}, BeginEdit(x, n, p)
      PROVE  \A y \in Requests : request[y].op # "edit"
  BY <1>1 DEF BeginEdit
<1>2. request[r].op = "edit" \/ request[o].op = "edit"
  BY <1>0 DEF EditsMove
<1>3. \A x \in Requests : request'[x].op = "edit" => request[x].op = "edit"
  BY <1>0, <1>1, <1>2 DEF EditsMove
<1>4. QED
  BY <1>3 DEF OneEdit

\* What another request does leaves the way up as it is, or cuts it.
LEMMA OthersKeepTheWay ==
  ASSUME TreeAssumption, TypeOK, Orderly, OneEdit, [Next]_tvars,
         NEW r \in Requests, Editing(r), request'[r] = request[r]
  PROVE  \A x \in Settled : parent'[x] \in {parent[x], NoNode}
<1>0. Settled \subseteq Nodes /\ parent \in [Nodes -> Nodes \cup {NoNode}]
  BY DEF Settled, TypeOK
<1>1. CASE Prunes
  BY <1>0, <1>1 DEF Prunes
<1>2. ASSUME NEW o \in Requests, Grows(o) PROVE \A x \in Settled : parent'[x] \in {parent[x], NoNode}
  <2>1. request[o].node \notin Settled
    BY <1>2 DEF Grows, Settled
  <2>2. QED
    BY <1>0, <1>2, <2>1 DEF Grows
<1>3. ASSUME NEW o \in Requests, Moves(o) PROVE FALSE
  <2>1. r = o
    BY <1>3 DEF Moves, StoreEdit, OneEdit, Editing
  <2>2. request'[o].step \in {"unlink", "done"}
    BY <1>3 DEF Moves, StoreEdit, Goto, TypeOK, Asked
  <2>3. QED
    BY <2>1, <2>2 DEF Editing
<1>4. QED
  BY <1>1, <1>2, <1>3, TreeSteps

LEMMA ApartStep ==
  ASSUME TreeAssumption PROVE TypeOK /\ Orderly /\ OneEdit /\ Apart /\ [Next]_tvars => Apart'
<1> SUFFICES ASSUME TypeOK, Orderly, OneEdit, Apart, [Next]_tvars,
                    NEW r \in Requests, request'[r].op = "edit", request'[r].to # NoNode
             PROVE  /\ request'[r].step = "search" =>
                         \E A \in SUBSET Settled' : Chain(A, request[r].to)' /\ Searched(A, r)'
                    /\ request'[r].step = "store" =>
                         \E A \in SUBSET Settled' : Chain(A, request[r].to)' /\ request'[r].node \notin A
  BY DEF Apart
<1> DEFINE q == request[r]
           Goal == /\ request'[r].step = "search" =>
                        \E A \in SUBSET Settled' : Chain(A, request[r].to)' /\ Searched(A, r)'
                   /\ request'[r].step = "store" =>
                        \E A \in SUBSET Settled' : Chain(A, request[r].to)' /\ request'[r].node \notin A
<1>0. /\ EditsMove /\ Settled \subseteq Settled' /\ q \in Asked /\ request \in [Requests -> Asked]
      /\ Rows \subseteq Settled /\ Settled \subseteq Nodes /\ NoNode \notin Nodes
      /\ parent \in [Nodes -> Nodes \cup {NoNode}]
  BY TypeStep, RequestsMove, UsedGrows, SettledGrows DEF Orderly, TypeOK, Settled, TreeAssumption
<1>1. CASE request'[r] = q
  <2>1. Editing(r) \/ request'[r].step \notin {"search", "store"}
    BY <1>1 DEF Editing
  <2>2. ASSUME Editing(r) PROVE \A x \in Settled : parent'[x] \in {parent[x], NoNode}
    BY <1>1, <2>2, OthersKeepTheWay
  <2>3. ASSUME Editing(r), NEW A \in SUBSET Settled, Chain(A, q.to)
        PROVE  A \in SUBSET Settled' /\ Chain(A, request[r].to)' /\ (Searched(A, r) => Searched(A, r)')
    <3>1. \A x \in A : parent'[x] \in {parent[x], NoNode}
      BY <2>2, <2>3
    <3>2. Chain(A, request[r].to)'
      BY <1>1, <2>3, <3>1 DEF Chain
    <3>3. q.node \in Nodes \cup {NoNode} /\ q.seen \subseteq Nodes
      BY <1>0 DEF Asked
    <3>4. q.node # NoNode
      BY <1>0, <2>3 DEF Editing, TypeOK
    <3>5. Searched(A, r) => Searched(A, r)'
      BY <1>0, <1>1, <3>1, <3>3, <3>4 DEF Searched
    <3>6. QED
      BY <1>0, <3>2, <3>5
  <2>4. QED
    BY <1>1, <2>1, <2>3 DEF Apart, Editing
<1>2. CASE FindEdit(r)
  <2>a. PICK A : A = Rows \cup {q.to}
    OBVIOUS
  <2>1. q.to \in Settled \ {q.node} /\ q.op = "edit" /\ UNCHANGED parent /\ request'[r].to = q.to
        /\ request'[r].node = q.node /\ q.node \in Nodes /\ q.seen = {}
    <3>1. Keeps(r) /\ q.node \in Nodes
      BY <1>2, RequestStep DEF TypeOK
    <3>2. Editing(r) /\ q.step = "find" /\ UNCHANGED parent /\ q.to # NoNode
      BY <1>2, <3>1 DEF FindEdit, Editing, Keeps
    <3>3. QED
      BY <1>0, <3>1, <3>2 DEF Orderly, Editing, Keeps, Asked
  <2>2. request'[r].step # "store"
    <3>1. q.to # NoNode
      BY <1>0, <2>1
    <3>2. QED
      BY <1>0, <1>2, <3>1 DEF FindEdit, Asked
  <2>3. A \in SUBSET Settled' /\ Chain(A, request[r].to)'
    BY <1>0, <2>1, <2>a DEF Chain, Orderly
  <2>4. ASSUME request'[r].step = "search" PROVE Searched(A, r)'
    <3>1. q.to # NoNode /\ q.node \in Rows
      BY <1>0, <1>2, <2>1, <2>4 DEF FindEdit, Asked
    <3>2. request'[r].todo = {q.node} /\ request'[r].seen = q.seen
      BY <1>0, <1>2, <3>1 DEF FindEdit, Asked
    <3>3. QED
      BY <2>1, <3>2 DEF Searched
  <2>5. QED
    BY <2>2, <2>3, <2>4
<1>3. CASE Search(r)
  <2>1. PICK n \in q.todo :
          request' = [request EXCEPT ![r].todo = (@ \ {n}) \cup Children(n), ![r].seen = @ \cup Children(n)]
    BY <1>3 DEF Search
  <2>2. /\ q.op = "edit" /\ q.step = "search" /\ UNCHANGED parent /\ n \in Nodes
        /\ request'[r].to = q.to /\ request'[r].node = q.node /\ request'[r].step = "search"
        /\ request'[r].todo = (q.todo \ {n}) \cup Children(n)
        /\ request'[r].seen = q.seen \cup Children(n)
    BY <1>0, <1>3, <2>1 DEF Search, Asked
  <2>3. PICK A \in SUBSET Settled : Chain(A, q.to) /\ Searched(A, r)
    BY <2>2 DEF Apart
  <2>4. A \in SUBSET Settled' /\ Chain(A, request[r].to)'
    BY <1>0, <2>2, <2>3 DEF Chain
  <2>5. Searched(A, r)'
    <3>1. SUFFICES ASSUME NEW x \in A,
                          parent[x] \in ({q.node} \cup q.seen \cup Children(n))
                                        \ ((q.todo \ {n}) \cup Children(n))
                   PROVE  x \in q.seen \cup Children(n)
      BY <2>2 DEF Searched
    <3>2. CASE parent[x] = n
      <4>1. x \in Rows
        BY <1>0, <2>2, <3>2 DEF TypeOK, Rows
      <4>2. QED
        BY <3>2, <4>1 DEF Children
    <3>3. CASE parent[x] # n
      BY <2>3, <3>1, <3>3 DEF Searched
    <3>4. QED
      BY <3>2, <3>3
  <2>6. QED
    BY <2>2, <2>4, <2>5
<1>4. CASE TestParent(r)
  <2>1. /\ q.op = "edit" /\ q.step = "search" /\ q.todo = {} /\ UNCHANGED parent
        /\ request'[r].to = q.to /\ request'[r].node = q.node /\ request'[r].step # "search"
        /\ request'[r].step = "store" => q.to \notin q.seen
    BY <1>0, <1>4 DEF TestParent, Asked
  <2>2. SUFFICES ASSUME q.to \notin q.seen
                 PROVE  \E A \in SUBSET Settled' : Chain(A, request[r].to)' /\ request'[r].node \notin A
    BY <2>1
  <2>3. PICK A \in SUBSET Settled : Chain(A, q.to) /\ Searched(A, r)
    BY <2>1 DEF Apart
  <2>4. q.to # q.node
    BY <1>0, <2>1 DEF Orderly, Editing
  <2>b. PICK B : B = A \ ({q.node} \cup q.seen)
    OBVIOUS
  <2>5. B \in SUBSET Settled' /\ q.to \in B /\ request'[r].node \notin B
    BY <1>0, <2>1, <2>2, <2>3, <2>4, <2>b DEF Chain
  <2>6. \A x \in B : parent[x] \in B \cup {NoNode}
    BY <2>1, <2>3, <2>b DEF Chain, Searched
  <2>7. Chain(B, request[r].to)'
    BY <2>1, <2>5, <2>6 DEF Chain
  <2>8. QED
    BY <2>5, <2>7
<1>5. CASE request'[r].step \notin {"search", "store"}
  BY <1>5
<1>6. QED
  BY <1>0, <1>1, <1>2, <1>3, <1>4, <1>5 DEF EditsMove, Editing

LEMMA AcyclicStep ==
  ASSUME TreeAssumption PROVE TypeOK /\ Orderly /\ Apart /\ Acyclic /\ [Next]_tvars => Acyclic'
<1> SUFFICES ASSUME TypeOK, Orderly, Apart, Acyclic, [Next]_tvars,
                    NEW S \in (SUBSET Nodes) \ {{}}, \A n \in S : parent'[n] \in S
             PROVE  FALSE
  BY DEF Acyclic
<1>0. /\ parent \in [Nodes -> Nodes \cup {NoNode}] /\ S \subseteq Nodes /\ NoNode \notin S
      /\ Settled \subseteq Nodes
  BY DEF TypeOK, TreeAssumption, Settled
\* A set without a way out was there before.
<1>1. ASSUME NEW T \in SUBSET Nodes, T # {} PROVE \E n \in T : parent[n] \notin T
  BY <1>1 DEF Acyclic
<1>2. CASE Prunes
  BY <1>0, <1>1, <1>2 DEF Prunes
\* Nobody has the new row for a parent.
<1>3. ASSUME NEW r \in Requests, Grows(r) PROVE FALSE
  <2> DEFINE m == request[r].node
             T == S \ {m}
  <2>1. m \notin Settled /\ m \notin Rows /\ m \in Nodes
    BY <1>3 DEF Grows, Settled, Orderly, Adding, TypeOK
  <2>2. request[r].to # m
    BY <1>3, <2>1 DEF Grows, TreeAssumption
  <2>3. \A n \in T : parent[n] \in T
    BY <1>0, <1>3, <2>1 DEF Grows, Orderly, TreeAssumption
  <2>4. T = {}
    BY <1>1, <2>3
  <2>5. parent'[m] = request[r].to
    BY <1>0, <1>3, <2>1 DEF Grows
  <2>6. QED
    BY <2>2, <2>4, <2>5
\* Without the monitor that moves, the set holds the way up from its new parent.
<1>4. ASSUME NEW r \in Requests, Moves(r) PROVE FALSE
  <2> DEFINE m == request[r].node
             to == request[r].to
  <2>1. /\ request[r].op = "edit" /\ request[r].step = "store" /\ m \in Nodes
        /\ parent' = [parent EXCEPT ![m] = to]
    BY <1>4 DEF Moves, StoreEdit, Rows
  <2>2. m \in S
    BY <1>0, <1>1, <2>1
  <2>3. to \in S
    BY <1>0, <2>1, <2>2
  <2>4. PICK A \in SUBSET Settled : Chain(A, to) /\ m \notin A
    BY <1>0, <2>1, <2>3 DEF Apart
  <2>5. to \in S \cap A /\ \A n \in S \cap A : parent[n] \in S \cap A
    BY <1>0, <2>1, <2>3, <2>4 DEF Chain
  <2>6. QED
    BY <1>0, <1>1, <2>5
<1>5. QED
  BY <1>2, <1>3, <1>4, TreeSteps

\* No monitor is its own ancestor, so that the walks up and down the tree end: for any tree to
\* begin with, monitors added and deleted meanwhile and crashes anywhere, as long as edits do
\* not overlap.
THEOREM AcyclicHolds ==
  ASSUME TreeAssumption, EditsOverlap = FALSE PROVE Spec => []Acyclic
<1>1. TreeInv /\ [Next]_tvars => TreeInv'
  BY TypeStep, OrderlyStep, OneEditStep, ApartStep, AcyclicStep DEF TreeInv
<1>2. TreeInv => Acyclic
  BY DEF TreeInv
<1>3. QED
  BY <1>1, <1>2, TreeInit, PTL DEF Spec

-------------------------------------------------------------------------------
(* Parents are groups.                                                         *)

Unlinking(r) == request[r].op = "edit" /\ request[r].step = "unlink"

\* What may be a parent: a group, or what an edit is about to unlink from its members.
Fit(p) == p \in Groups \cup {NoNode} \/ \E r \in Requests : Unlinking(r) /\ request[r].node = p

\* An edit knows what the monitor was, and so whether it stops being a group.
EditKinds == \A r \in Requests :
  request[r].op = "edit" /\ request[r].step \in {"search", "store"} => request[r].wasKind # "none"

GroupsInv ==
  /\ TypeOK /\ Orderly /\ EditKinds
  /\ torn \/ \A n \in Rows : Fit(parent[n])

LEMMA GroupsInit == ASSUME TreeAssumption PROVE Init => GroupsInv
<1> SUFFICES ASSUME Init PROVE GroupsInv
  OBVIOUS
<1>1. \A n \in Rows : Fit(parent[n])
  BY DEF Init, TreeAssumption, Fit, Groups, Rows
<1>2. EditKinds
  BY DEF Init, Free, EditKinds
<1>3. QED
  BY <1>1, <1>2, TypeInit, OrderlyInit DEF GroupsInv

LEMMA EditKindsStep ==
  ASSUME TreeAssumption PROVE TypeOK /\ EditKinds /\ [Next]_tvars => EditKinds'
<1> SUFFICES ASSUME TypeOK, EditKinds, [Next]_tvars, NEW r \in Requests,
                    request'[r].op = "edit", request'[r].step \in {"search", "store"}
             PROVE  request'[r].wasKind # "none"
  BY DEF EditKinds
<1>0. EditsMove /\ request[r] \in Asked /\ request \in [Requests -> Asked]
  BY RequestsMove DEF TypeOK
<1>1. CASE FindEdit(r)
  <2>1. CASE request[r].node \notin Rows
    BY <1>0, <1>1, <2>1 DEF FindEdit, Asked
  <2>2. CASE request[r].node \in Rows
    <3>1. request'[r].wasKind = kind[request[r].node]
      BY <1>0, <1>1, <2>2 DEF FindEdit, Asked
    <3>2. QED
      BY <2>2, <3>1 DEF Rows
  <2>3. QED
    BY <2>1, <2>2
<1>2. CASE Search(r)
  <2>1. PICK n \in request[r].todo :
          request' = [request EXCEPT ![r].todo = (@ \ {n}) \cup Children(n), ![r].seen = @ \cup Children(n)]
    BY <1>2 DEF Search
  <2>2. request'[r].wasKind = request[r].wasKind
    BY <1>0, <2>1 DEF Asked
  <2>3. QED
    BY <1>2, <2>2 DEF Search, EditKinds
<1>3. CASE TestParent(r)
  <2>1. request'[r].wasKind = request[r].wasKind
    BY <1>0, <1>3 DEF TestParent, Asked
  <2>2. QED
    BY <1>3, <2>1 DEF TestParent, EditKinds
<1>4. CASE request'[r] = request[r]
  BY <1>4 DEF EditKinds
<1>5. QED
  BY <1>0, <1>1, <1>2, <1>3, <1>4 DEF EditsMove, Editing

\* An edit that is about to unlink stays so until it does, or a crash comes.
LEMMA UnlinkingStays ==
  ASSUME TypeOK, NEW r \in Requests, NEW x, request' = [request EXCEPT ![r] = x], ~Unlinking(r)
  PROVE  \A p : p \in Groups' \/ p \notin Groups => (Fit(p) => Fit(p)')
<1> SUFFICES ASSUME NEW p, p \in Groups' \/ p \notin Groups, Fit(p) PROVE Fit(p)'
  OBVIOUS
<1>1. \A o \in Requests : o # r => request'[o] = request[o]
  BY DEF TypeOK
<1>2. QED
  BY <1>1 DEF Fit, Unlinking

LEMMA GroupsStep ==
  ASSUME TreeAssumption PROVE GroupsInv /\ [Next]_tvars => (torn' \/ \A n \in Rows' : Fit(parent[n])')
<1> SUFFICES ASSUME TypeOK, Orderly, EditKinds, torn \/ \A n \in Rows : Fit(parent[n]), [Next]_tvars, ~torn',
                    NEW n \in Rows'
             PROVE  Fit(parent[n])'
  BY DEF GroupsInv
<1>0. /\ request \in [Requests -> Asked] /\ \A r \in Requests : request[r] \in Asked
      /\ parent \in [Nodes -> Nodes \cup {NoNode}] /\ kind \in [Nodes -> Kinds] /\ n \in Nodes
  BY DEF TypeOK, Rows
<1>n. Fit(NoNode)'
  BY DEF Fit
\* Neither the tree nor who unlinks changes.
<1>1. ASSUME UNCHANGED <<parent, kind, torn>>, NEW r \in Requests, NEW x, request' = [request EXCEPT ![r] = x],
             ~Unlinking(r)
      PROVE  Fit(parent[n])'
  <2>1. n \in Rows /\ Fit(parent[n]) /\ Groups' = Groups /\ parent'[n] = parent[n]
    BY <1>1 DEF Rows, Groups
  <2>2. QED
    BY <1>1, <2>1, UnlinkingStays
<1>2. ASSUME UNCHANGED <<parent, kind, torn, request>> PROVE Fit(parent[n])'
  BY <1>2 DEF Fit, Rows, Groups, Unlinking
<1>3. ASSUME NEW r \in Requests, NEW m \in Nodes,
             \/ \E p \in Nodes \cup {NoNode} : BeginAdd(r, m, p) \/ BeginEdit(r, m, p)
             \/ \E all \in BOOLEAN : BeginDelete(r, m, all)
      PROVE  Fit(parent[n])'
  <2>1. UNCHANGED <<parent, kind, torn>> /\ ~Unlinking(r) /\ \E x : request' = [request EXCEPT ![r] = x]
    BY <1>3 DEF BeginAdd, BeginEdit, BeginDelete, Begin, Unlinking
  <2>2. QED
    BY <1>1, <2>1
<1>4. ASSUME NEW r \in Requests, FindEdit(r) \/ Search(r) \/ TestParent(r) \/ FindDelete(r) \/ Descend(r)
                                 \/ Done(r)
      PROVE  Fit(parent[n])'
  <2>1. UNCHANGED <<parent, kind, torn>> /\ ~Unlinking(r)
    BY <1>4 DEF FindEdit, Search, TestParent, FindDelete, Descend, Done, Unlinking
  <2>2. \E x : request' = [request EXCEPT ![r] = x]
    BY <1>0, <1>4 DEF FindEdit, Search, TestParent, FindDelete, Descend, Done
  <2>3. QED
    BY <1>1, <2>1, <2>2
<1>5. ASSUME NEW r \in Requests, StoreAdd(r) PROVE Fit(parent[n])'
  <2> DEFINE q == request[r]
  <2>1. ~torn /\ q.node \notin Rows /\ ~Unlinking(r) /\ \E x : request' = [request EXCEPT ![r] = x]
    BY <1>0, <1>5 DEF StoreAdd, Goto, Unlinking, Orderly, Settled, Adding
  <2>2. CASE ParentExists(r)
    <3>1. /\ kind' = [kind EXCEPT ![q.node] = q.kind]
          /\ parent' = [parent EXCEPT ![q.node] = q.to]
          /\ q.to \in Groups \cup {NoNode}
      BY <1>5, <2>2 DEF StoreAdd
    <3>2. Groups \subseteq Groups'
      BY <1>0, <2>1, <3>1 DEF Groups, Rows
    <3>3. CASE n = q.node
      BY <1>0, <3>1, <3>2, <3>3 DEF Fit
    <3>4. CASE n # q.node
      <4>1. n \in Rows /\ parent'[n] = parent[n]
        BY <1>0, <3>1, <3>4 DEF Rows
      <4>2. QED
        BY <2>1, <3>2, <4>1, UnlinkingStays
    <3>5. QED
      BY <3>3, <3>4
  <2>3. CASE ~ParentExists(r)
    <3>1. UNCHANGED <<parent, kind>>
      BY <1>5, <2>3 DEF StoreAdd
    <3>2. n \in Rows /\ Groups' = Groups /\ parent'[n] = parent[n]
      BY <3>1 DEF Rows, Groups
    <3>3. QED
      BY <2>1, <3>2, UnlinkingStays
  <2>4. QED
    BY <2>2, <2>3
<1>6. ASSUME NEW r \in Requests, StoreEdit(r) PROVE Fit(parent[n])'
  <2> DEFINE q == request[r]
             stored == q.node \in Rows /\ (q.to # q.was => ParentExists(r))
             leaves == q.wasKind = "group" /\ q.kind # "group"
  <2>1. /\ ~torn /\ ~Unlinking(r) /\ q.op = "edit" /\ q.step = "store" /\ q.wasKind # "none"
        /\ q.node \in Nodes /\ q.kind # "none"
    BY <1>0, <1>6, RequestStep DEF StoreEdit, Unlinking, EditKinds, TypeOK
  <2>2. PICK s : /\ request' = [request EXCEPT ![r].step = s]
                 /\ s = IF (stored \/ q.node \notin Rows) /\ leaves THEN "unlink" ELSE "done"
    BY <1>6 DEF StoreEdit, Goto
  <2>3. \E x : request' = [request EXCEPT ![r] = x]
    BY <1>0, <2>2
  <2>4. CASE ~stored
    <3>1. UNCHANGED <<parent, kind>>
      BY <1>6, <2>4 DEF StoreEdit
    <3>2. n \in Rows /\ Groups' = Groups /\ parent'[n] = parent[n]
      BY <3>1 DEF Rows, Groups
    <3>3. QED
      BY <2>1, <2>3, <3>2, UnlinkingStays
  <2>5. CASE stored
    <3>1. /\ parent' = IF q.to # q.was THEN [parent EXCEPT ![q.node] = q.to] ELSE parent
          /\ kind' = IF q.kind # q.wasKind THEN [kind EXCEPT ![q.node] = q.kind] ELSE kind
          /\ q.to # q.was => q.to \in Groups \cup {NoNode}
      BY <1>6, <2>5 DEF StoreEdit
    <3>m. PICK m : m = q.node
      OBVIOUS
    <3>2. \A p \in Groups : p \in Groups' \/ (p = m /\ leaves)
      BY <1>0, <2>1, <3>1, <3>m DEF Groups, Kinds, Asked
    <3>3. leaves => Fit(m)'
      <4>1. leaves => request'[r].op = "edit" /\ request'[r].step = "unlink" /\ request'[r].node = m
        BY <1>0, <2>1, <2>2, <2>5, <3>m DEF Asked
      <4>2. QED
        BY <4>1 DEF Fit, Unlinking
    <3>4. \A p : Fit(p) => Fit(p)'
      BY <2>1, <2>3, <3>2, <3>3, UnlinkingStays
    <3>5. parent'[n] \in Groups \cup {NoNode} \/ (n \in Rows /\ parent'[n] = parent[n])
      BY <1>0, <2>5, <3>1 DEF Rows
    <3>6. Fit(parent'[n])
      BY <2>1, <3>5 DEF Fit
    <3>7. QED
      <4>1. PICK p : p = parent'[n]
        OBVIOUS
      <4>2. Fit(p)'
        BY <3>4, <3>6, <4>1
      <4>3. QED
        BY <4>1, <4>2 DEF Fit
  <2>6. QED
    BY <2>4, <2>5
<1>7. ASSUME NEW r \in Requests, Unlink(r) \/ UnlinkDelete(r) PROVE Fit(parent[n])'
  <2>1. parent' = Unlinked(request[r].node) /\ kind' = kind /\ torn' = torn
    BY <1>7 DEF Unlink, UnlinkDelete
  <2>2. \A o \in Requests : o # r => request'[o] = request[o]
    BY <1>7, RequestStep DEF Keeps
  <2>3. CASE parent[n] = request[r].node
    BY <1>0, <1>n, <2>1, <2>3 DEF Unlinked, Fit
  <2>4. CASE parent[n] # request[r].node
    <3>1. parent'[n] = parent[n] /\ n \in Rows /\ Groups' = Groups
      BY <1>0, <2>1, <2>4 DEF Unlinked, Rows, Groups
    <3>2. QED
      BY <2>1, <2>2, <2>4, <3>1 DEF Fit, Unlinking
  <2>5. QED
    BY <2>3, <2>4
<1>8. ASSUME NEW r \in Requests, Remove(r) PROVE Fit(parent[n])'
  <2>1. PICK m : kind' = [kind EXCEPT ![m] = "none"] /\ parent' = [Unlinked(m) EXCEPT ![m] = NoNode]
    BY <1>8 DEF Remove
  <2>2. torn' = torn /\ ~Unlinking(r) /\ \A o \in Requests : o # r => request'[o] = request[o]
    BY <1>8, RequestStep DEF Remove, Unlinking, Keeps
  <2>3. n \in Rows /\ (parent'[n] = NoNode \/ (parent'[n] = parent[n] /\ parent[n] # m))
        /\ \A p \in Groups : p = m \/ p \in Groups'
    BY <1>0, <2>1 DEF Rows, Unlinked, Groups
  <2>4. QED
    BY <2>2, <2>3 DEF Fit, Unlinking
<1>9. CASE Crash
  <2>1. ~torn /\ (\A r \in Requests : ~Unlinking(r)) /\ UNCHANGED <<parent, kind>>
    BY <1>9 DEF Crash, Unlinking
  <2>2. QED
    BY <2>1 DEF Fit, Rows, Groups
<1>10. ASSUME NEW w \in Walkers, (\E m \in Nodes : BeginWalk(w, m)) \/ Walk(w) PROVE Fit(parent[n])'
  BY <1>2, <1>10 DEF BeginWalk, Walk
<1>11. CASE UNCHANGED tvars
  BY <1>2, <1>11 DEF tvars
<1>12. QED
  BY <1>3, <1>4, <1>5, <1>6, <1>7, <1>8, <1>9, <1>10, <1>11 DEF Next, Work

\* A parent is a group, or an edit that turned it into another type is about to unlink its
\* members, however requests overlap: unless a crash came between the two stores or a group was
\* turned while a member was put into it.
THEOREM ParentsAreGroupsHolds == ASSUME TreeAssumption PROVE Spec => []ParentsAreGroups
<1>1. GroupsInv /\ [Next]_tvars => GroupsInv'
  BY TypeStep, OrderlyStep, EditKindsStep, GroupsStep DEF GroupsInv
<1>2. GroupsInv => ParentsAreGroups
  BY DEF GroupsInv, ParentsAreGroups, Fit, Unlinking
<1>3. QED
  BY <1>1, <1>2, GroupsInit, PTL DEF Spec

-------------------------------------------------------------------------------
(* The second half: lists of notifications.                                    *)

CONSTANTS
  Mons,          \* monitors
  Notes,         \* notifications, existing or yet to be added
  Events,        \* socket events that may be in progress at the same time
  SameMonitor,   \* TRUE: requests for the same monitor may overlap
  MaxListOps,    \* bound: requests made
  MaxListCrashes

VARIABLES
  notes,    \* the notification table
  spent,    \* ids of notifications given so far
  links,    \* monitor_notification: the rows <<monitor, notification>>, once or twice each
  event,    \* what a handler is at
  listOps, listCrashes,
  wanted,   \* history variable: the list last asked for
  cut       \* history variable: pairs a crash or a deletion kept from being inserted

List == INSTANCE NotificationLists

\* What a request of a list may be at.
EventStates ==
  [op : {"none", "save", "add", "apply", "delete"},
   step : {"idle", "clear", "insert", "store", "read", "look", "link", "done"},
   mons : SUBSET Mons, list : SUBSET Notes, todo : SUBSET List!Pairs]

\* What a request is at: only while it inserts or links has it something left to do, of its own
\* monitors and list.
Sound(x) ==
  /\ x.step \notin {"insert", "look", "link"} => x.todo = {}
  /\ x.step = "idle" => x.mons = {}
  /\ x.step = "store" => x.mons = Mons
  /\ x.step = "link" => x.todo # {}
  /\ x.todo \subseteq x.mons \X x.list

\* Requests are sound, and a notification they store has been given its id.
RequestsInv ==
  /\ List!TypeOK
  /\ \A e \in Events : Sound(event[e])
  /\ \A e \in Events : event[e].step = "store" => event[e].list \subseteq spent

\* A pair is its monitor and its notification.
LEMMA PairIs == \A p \in List!Pairs : p[1] \in Mons /\ p[2] \in Notes /\ p = <<p[1], p[2]>>
BY DEF List!Pairs

\* A request that is over is sound.
LEMMA RestIs == List!Rest \in EventStates /\ Sound(List!Rest) /\ List!Rest.step = "idle" /\ List!Rest.mons = {} /\ List!Rest.todo = {}
BY DEF List!Rest, EventStates, Sound

\* A step of one request leaves the others, and all of them sound.
LEMMA OneEvent ==
  ASSUME RequestsInv, NEW e \in Events, NEW x \in EventStates, Sound(x),
         event' = [event EXCEPT ![e] = x], spent \subseteq spent', x.step = "store" => x.list \subseteq spent'
  PROVE  /\ event' \in [Events -> EventStates] /\ event'[e] = x
         /\ \A f \in Events : f # e => event'[f] = event[f]
         /\ \A f \in Events : Sound(event'[f])
         /\ \A f \in Events : event'[f].step = "store" => event'[f].list \subseteq spent'
<1>1. event \in [Events -> EventStates]
  BY DEF RequestsInv, List!TypeOK, EventStates
<1>2. QED
  BY <1>1 DEF RequestsInv

\* The invariant from the types of what a step writes.
LEMMA RequestsAgain ==
  ASSUME event' \in [Events -> EventStates], \A f \in Events : Sound(event'[f]),
         \A f \in Events : event'[f].step = "store" => event'[f].list \subseteq spent',
         notes' \subseteq spent', spent' \subseteq Notes, links' \in [List!Pairs -> 0..2],
         \A p \in List!Pairs : links'[p] > 0 => p[2] \in notes',
         wanted' \in [Mons -> SUBSET Notes], cut' \subseteq List!Pairs,
         listOps' \in 0..MaxListOps, listCrashes' \in 0..MaxListCrashes
  PROVE  RequestsInv'
BY DEF RequestsInv, List!TypeOK, EventStates, Sound

\* What is chosen is of the set.
LEMMA FirstTodo == ASSUME NEW S, S # {} PROVE (CHOOSE q \in S : TRUE) \in S
OBVIOUS

\* A request that begins had nothing to do, and its monitors are its own.
LEMMA ListBegun ==
  ASSUME List!ListAssumption, RequestsInv, NEW e \in Events, NEW x \in EventStates, List!Begin(e, x)
  PROVE  /\ event' = [event EXCEPT ![e] = x] /\ listOps' \in 0..MaxListOps
         /\ event[e].todo = {} /\ event[e].mons = {}
         /\ SameMonitor = FALSE => \A f \in Events : x.mons \cap event[f].mons = {}
<1>1. listOps' \in 0..MaxListOps
  <2>1. listOps \in Nat /\ MaxListOps \in Nat /\ listOps < MaxListOps /\ listOps' = listOps + 1
    BY DEF List!Begin, RequestsInv, List!TypeOK, List!ListAssumption
  <2>2. QED
    BY <2>1
<1>2. event[e].todo = {} /\ event[e].mons = {}
  BY DEF List!Begin, RequestsInv, Sound
<1>3. QED
  BY <1>1, <1>2 DEF List!Begin, List!Busy

\* The records the three requests begin with.
LEMMA BeginSaves ==
  ASSUME RequestsInv, NEW m \in Mons, NEW list \in SUBSET Notes
  PROVE  LET x == [op |-> "save", step |-> "clear", mons |-> {m}, list |-> list, todo |-> {}]
         IN x \in EventStates /\ Sound(x) /\ x.step # "store" /\ x.todo = {} /\ x.mons = {m}
BY DEF EventStates, Sound

LEMMA BeginApplies ==
  ASSUME RequestsInv, NEW n \in Notes
  PROVE  LET x == [op |-> IF n \in notes THEN "apply" ELSE "add", step |-> "store", mons |-> Mons, list |-> {n},
                   todo |-> {}]
         IN x \in EventStates /\ Sound(x) /\ x.list = {n} /\ x.todo = {} /\ x.mons = Mons
BY DEF EventStates, Sound

LEMMA BeginDeletes ==
  ASSUME RequestsInv, NEW n \in Notes
  PROVE  LET x == [op |-> "delete", step |-> "read", mons |-> {}, list |-> {n}, todo |-> {}]
         IN x \in EventStates /\ Sound(x) /\ x.step # "store" /\ x.todo = {} /\ x.mons = {}
BY DEF EventStates, Sound

\* The requests' invariant holds at first ...
LEMMA ListTypeInit == ASSUME List!ListAssumption PROVE List!Init => RequestsInv
<1> SUFFICES ASSUME List!Init PROVE RequestsInv
  OBVIOUS
<1>1. event \in [Events -> EventStates] /\ \A e \in Events : event[e] = List!Rest
  BY RestIs DEF List!Init
<1>2. links \in [List!Pairs -> 0..2] /\ \A p \in List!Pairs : links[p] = 0
  BY DEF List!Init
<1>3. wanted \in [Mons -> SUBSET Notes] /\ cut \subseteq List!Pairs /\ listOps \in 0..MaxListOps
      /\ listCrashes \in 0..MaxListCrashes /\ notes \subseteq spent /\ spent \subseteq Notes
  BY DEF List!Init, List!ListAssumption
<1>4. QED
  BY <1>1, <1>2, <1>3, RestIs DEF RequestsInv, List!TypeOK, EventStates

\* ... and every step keeps it.
LEMMA ListTypeStep == ASSUME List!ListAssumption PROVE RequestsInv /\ [List!Next]_(List!lvars) => RequestsInv'
<1> SUFFICES ASSUME RequestsInv, [List!Next]_(List!lvars) PROVE RequestsInv'
  OBVIOUS
<1> DEFINE Events4 == /\ event' \in [Events -> EventStates] /\ \A f \in Events : Sound(event'[f])
                      /\ \A f \in Events : event'[f].step = "store" => event'[f].list \subseteq spent'
           Tables4 == /\ notes' \subseteq spent' /\ spent' \subseteq Notes /\ links' \in [List!Pairs -> 0..2]
                      /\ \A p \in List!Pairs : links'[p] > 0 => p[2] \in notes'
                      /\ wanted' \in [Mons -> SUBSET Notes] /\ cut' \subseteq List!Pairs
                      /\ listOps' \in 0..MaxListOps /\ listCrashes' \in 0..MaxListCrashes
<1>0. /\ event \in [Events -> EventStates] /\ \A e \in Events : Sound(event[e])
      /\ \A e \in Events : event[e].step = "store" => event[e].list \subseteq spent
      /\ notes \subseteq spent /\ spent \subseteq Notes /\ links \in [List!Pairs -> 0..2]
      /\ \A p \in List!Pairs : links[p] > 0 => p[2] \in notes
      /\ wanted \in [Mons -> SUBSET Notes] /\ cut \subseteq List!Pairs
      /\ listOps \in 0..MaxListOps /\ listCrashes \in 0..MaxListCrashes
      /\ MaxListCrashes \in Nat
  BY DEF RequestsInv, List!TypeOK, EventStates, List!ListAssumption
<1>a. ASSUME Events4, Tables4 PROVE RequestsInv'
  BY <1>a, RequestsAgain
<1>b. ASSUME NEW e \in Events, NEW x \in EventStates, Sound(x), event' = [event EXCEPT ![e] = x],
             spent \subseteq spent', x.step = "store" => x.list \subseteq spent'
      PROVE  Events4
  BY <1>b, OneEvent
<1>1. ASSUME NEW e \in Events, NEW m \in Mons, NEW list \in SUBSET Notes, List!BeginSave(e, m, list) PROVE RequestsInv'
  <2>1. Events4
    BY <1>1, <1>b, ListBegun, BeginSaves DEF List!BeginSave
  <2>2. Tables4
    BY <1>0, <1>1, ListBegun, BeginSaves DEF List!BeginSave
  <2>3. QED
    BY <1>a, <2>1, <2>2
<1>2. ASSUME NEW e \in Events, NEW n \in Notes, List!BeginApply(e, n) PROVE RequestsInv'
  <2>1. spent \subseteq spent' /\ n \in spent' /\ spent' \subseteq Notes
    BY <1>0, <1>2 DEF List!BeginApply
  <2>2. Events4
    BY <1>2, <1>b, <2>1, ListBegun, BeginApplies DEF List!BeginApply
  <2>3. Tables4
    BY <1>0, <1>2, <2>1, ListBegun, BeginApplies DEF List!BeginApply
  <2>4. QED
    BY <1>a, <2>2, <2>3
<1>3. ASSUME NEW e \in Events, NEW n \in Notes, List!BeginDelete(e, n) PROVE RequestsInv'
  <2>1. Events4
    BY <1>3, <1>b, ListBegun, BeginDeletes DEF List!BeginDelete
  <2>2. Tables4
    BY <1>0, <1>3, ListBegun, BeginDeletes DEF List!BeginDelete
  <2>3. QED
    BY <1>a, <2>1, <2>2
<1>4. ASSUME NEW e \in Events, List!Clear(e) PROVE RequestsInv'
  <2> DEFINE x == [event[e] EXCEPT !.step = "insert", !.todo = event[e].mons \X event[e].list]
  <2>0. event[e] \in EventStates /\ event[e].mons \X event[e].list \subseteq List!Pairs
    BY <1>0 DEF EventStates, List!Pairs
  <2>1. x \in EventStates /\ Sound(x) /\ x.step # "store"
    BY <2>0 DEF EventStates, Sound
  <2>2. event' = [event EXCEPT ![e] = x]
    BY <1>0, <1>4 DEF List!Clear
  <2> HIDE DEF x
  <2>3. Events4
    BY <1>4, <1>b, <2>1, <2>2 DEF List!Clear
  <2>4. Tables4
    <3>1. links' \in [List!Pairs -> 0..2] /\ \A p \in List!Pairs : links'[p] > 0 => p[2] \in notes'
      BY <1>0, <1>4 DEF List!Clear
    <3>2. wanted' \in [Mons -> SUBSET Notes]
      BY <1>0, <1>4 DEF List!Clear, EventStates
    <3>3. QED
      BY <1>0, <1>4, <3>1, <3>2 DEF List!Clear
  <2>5. QED
    BY <1>a, <2>3, <2>4
<1>c. ASSUME NEW e \in Events, NEW S \in SUBSET event[e].todo, NEW s \in {"insert", "look", "done"}, s = "done" => S = {}
      PROVE  LET x == [event[e] EXCEPT !.step = s, !.todo = S]
             IN x \in EventStates /\ Sound(x) /\ x.step # "store"
  <2>1. event[e] \in EventStates /\ Sound(event[e]) /\ S \subseteq List!Pairs
    BY <1>0 DEF EventStates
  <2>2. S \subseteq event[e].mons \X event[e].list
    BY <2>1 DEF Sound
  <2>3. QED
    BY <1>c, <2>1, <2>2 DEF EventStates, Sound
<1>5. ASSUME NEW e \in Events, List!Insert(e) PROVE RequestsInv'
  <2>0. event[e].step = "insert" /\ event[e] \in EventStates
    BY <1>0, <1>5 DEF List!Insert
  <2>1. CASE event[e].todo = {} /\ event' = [event EXCEPT ![e].step = "done"] /\ UNCHANGED <<links, cut>>
    <3> DEFINE x == [event[e] EXCEPT !.step = "done", !.todo = {}]
    <3>1. event' = [event EXCEPT ![e] = x]
      BY <1>0, <2>0, <2>1 DEF EventStates
    <3>2. x \in EventStates /\ Sound(x) /\ x.step # "store"
      BY <1>c
    <3> HIDE DEF x
    <3>3. Events4
      BY <1>5, <1>b, <3>1, <3>2 DEF List!Insert
    <3>4. QED
      BY <1>0, <1>5, <1>a, <2>1, <3>3 DEF List!Insert
  <2>2. CASE \E p \in event[e].todo :
             IF p[2] \in notes
             THEN /\ links[p] < 2 /\ links' = [links EXCEPT ![p] = @ + 1]
                  /\ event' = [event EXCEPT ![e].todo = @ \ {p}]
                  /\ UNCHANGED cut
             ELSE /\ event' = [event EXCEPT ![e].step = "done", ![e].todo = {}]
                  /\ cut' = cut \cup event[e].todo
                  /\ UNCHANGED links
    <3>1. PICK p \in event[e].todo :
             IF p[2] \in notes
             THEN /\ links[p] < 2 /\ links' = [links EXCEPT ![p] = @ + 1]
                  /\ event' = [event EXCEPT ![e].todo = @ \ {p}]
                  /\ UNCHANGED cut
             ELSE /\ event' = [event EXCEPT ![e].step = "done", ![e].todo = {}]
                  /\ cut' = cut \cup event[e].todo
                  /\ UNCHANGED links
      BY <2>2
    <3>2. event[e].todo \subseteq List!Pairs
      BY <2>0 DEF EventStates
    <3>3. CASE p[2] \in notes
      <4> DEFINE x == [event[e] EXCEPT !.step = "insert", !.todo = event[e].todo \ {p}]
      <4>1. event' = [event EXCEPT ![e] = x]
        BY <1>0, <2>0, <3>1, <3>3 DEF EventStates
      <4>2. x \in EventStates /\ Sound(x) /\ x.step # "store"
        BY <1>c
      <4> HIDE DEF x
      <4>3. Events4
        BY <1>5, <1>b, <4>1, <4>2 DEF List!Insert
      <4>4. links' \in [List!Pairs -> 0..2] /\ \A q \in List!Pairs : links'[q] > 0 => q[2] \in notes
        BY <1>0, <3>1, <3>2, <3>3
      <4>5. QED
        BY <1>0, <1>5, <1>a, <3>1, <3>3, <4>3, <4>4 DEF List!Insert
    <3>4. CASE p[2] \notin notes
      <4> DEFINE x == [event[e] EXCEPT !.step = "done", !.todo = {}]
      <4>1. event' = [event EXCEPT ![e] = x]
        BY <1>0, <2>0, <3>1, <3>4 DEF EventStates
      <4>2. x \in EventStates /\ Sound(x) /\ x.step # "store"
        BY <1>c
      <4> HIDE DEF x
      <4>3. Events4
        BY <1>5, <1>b, <4>1, <4>2 DEF List!Insert
      <4>4. QED
        BY <1>0, <1>5, <1>a, <3>1, <3>2, <3>4, <4>3 DEF List!Insert
    <3>5. QED
      BY <3>3, <3>4
  <2>3. QED
    BY <1>5, <2>1, <2>2 DEF List!Insert
<1>6. ASSUME NEW e \in Events, NEW n \in Notes, List!StoreNote(e, n) PROVE RequestsInv'
  <2>0. event[e].step = "store" /\ event[e] \in EventStates /\ n \in event[e].list /\ n \in spent
    BY <1>0, <1>6 DEF List!StoreNote
  <2>1. CASE event[e].op = "add" \/ n \in notes
    <3> DEFINE x == [event[e] EXCEPT !.step = "look", !.todo = Mons \X {n}]
    <3>1. event' = [event EXCEPT ![e] = x]
      BY <1>0, <1>6, <2>0, <2>1 DEF List!StoreNote, EventStates
    <3>0. Mons \X {n} \subseteq List!Pairs /\ event[e].mons = Mons /\ Mons \X {n} \subseteq Mons \X event[e].list
      BY <1>0, <2>0 DEF List!Pairs, Sound
    <3>2. x \in EventStates /\ Sound(x) /\ x.step # "store"
      BY <2>0, <3>0 DEF EventStates, Sound
    <3> HIDE DEF x
    <3>3. Events4
      BY <1>6, <1>b, <3>1, <3>2 DEF List!StoreNote
    <3>4. Tables4
      BY <1>0, <1>6, <2>0, <2>1 DEF List!StoreNote
    <3>5. QED
      BY <1>a, <3>3, <3>4
  <2>2. CASE ~(event[e].op = "add" \/ n \in notes)
    <3>1. event' = [event EXCEPT ![e] = List!Rest]
      BY <1>6, <2>2 DEF List!StoreNote
    <3>2. Events4
      BY <1>6, <1>b, <3>1, RestIs DEF List!StoreNote
    <3>3. QED
      BY <1>0, <1>6, <1>a, <2>2, <3>2 DEF List!StoreNote
  <2>3. QED
    BY <2>1, <2>2
<1>7. ASSUME NEW e \in Events, List!Look(e) PROVE RequestsInv'
  <2>0. event[e].step = "look" /\ event[e] \in EventStates /\ Sound(event[e])
    BY <1>0, <1>7 DEF List!Look
  <2>1. ASSUME NEW x \in EventStates, Sound(x), x.step # "store", event' = [event EXCEPT ![e] = x]
        PROVE  RequestsInv'
    <3>1. Events4
      BY <1>7, <1>b, <2>1 DEF List!Look
    <3>2. QED
      BY <1>0, <1>7, <1>a, <3>1 DEF List!Look
  <2> DEFINE p == CHOOSE q \in event[e].todo : TRUE
  <2>2. event' = [event EXCEPT ![e] =
          IF event[e].todo = {} THEN [@ EXCEPT !.step = "done"]
          ELSE IF links[p] > 0 THEN [@ EXCEPT !.todo = event[e].todo \ {p}] ELSE [@ EXCEPT !.step = "link"]]
    BY <1>7 DEF List!Look
  <2> HIDE DEF p
  <2>3. event' = [event EXCEPT ![e] =
                    IF event[e].todo = {} THEN [event[e] EXCEPT !.step = "done"]
                    ELSE IF links[p] > 0 THEN [event[e] EXCEPT !.todo = event[e].todo \ {p}]
                    ELSE [event[e] EXCEPT !.step = "link"]]
    BY <1>0, <2>2
  <2>4. CASE event[e].todo = {}
    BY <2>0, <2>1, <2>3, <2>4 DEF EventStates, Sound
  <2>5. CASE event[e].todo # {} /\ links[p] > 0
    BY <2>0, <2>1, <2>3, <2>5 DEF EventStates, Sound
  <2>6. CASE event[e].todo # {} /\ ~(links[p] > 0)
    BY <2>0, <2>1, <2>3, <2>6 DEF EventStates, Sound
  <2>7. QED
    BY <2>4, <2>5, <2>6
<1>8. ASSUME NEW e \in Events, List!Link(e) PROVE RequestsInv'
  <2> DEFINE p == CHOOSE q \in event[e].todo : TRUE
  <2>0. event[e].step = "link" /\ event[e] \in EventStates /\ event[e].todo # {} /\ event[e].todo \subseteq List!Pairs
    BY <1>0, <1>8 DEF List!Link, Sound, EventStates
  <2>1. p \in event[e].todo
    BY <2>0, FirstTodo
  <2>2. IF p[2] \in notes
        THEN /\ links[p] < 2 /\ links' = [links EXCEPT ![p] = @ + 1]
             /\ event' = [event EXCEPT ![e].step = "look", ![e].todo = @ \ {p}]
             /\ UNCHANGED cut
        ELSE /\ event' = [event EXCEPT ![e].step = "done", ![e].todo = {}]
             /\ cut' = cut \cup event[e].todo
             /\ UNCHANGED links
    BY <1>8 DEF List!Link
  <2> HIDE DEF p
  <2>3. CASE p[2] \in notes
    <3> DEFINE x == [event[e] EXCEPT !.step = "look", !.todo = event[e].todo \ {p}]
    <3>1. event' = [event EXCEPT ![e] = x]
      BY <1>0, <2>2, <2>3
    <3>2. x \in EventStates /\ Sound(x) /\ x.step # "store"
      BY <1>c
    <3> HIDE DEF x
    <3>3. Events4
      BY <1>8, <1>b, <3>1, <3>2 DEF List!Link
    <3>4. links' \in [List!Pairs -> 0..2] /\ \A q \in List!Pairs : links'[q] > 0 => q[2] \in notes
      BY <1>0, <2>0, <2>1, <2>2, <2>3
    <3>5. QED
      BY <1>0, <1>8, <1>a, <2>2, <2>3, <3>3, <3>4 DEF List!Link
  <2>4. CASE p[2] \notin notes
    <3> DEFINE x == [event[e] EXCEPT !.step = "done", !.todo = {}]
    <3>1. event' = [event EXCEPT ![e] = x]
      BY <1>0, <2>2, <2>4
    <3>2. x \in EventStates /\ Sound(x) /\ x.step # "store"
      BY <1>c
    <3> HIDE DEF x
    <3>3. Events4
      BY <1>8, <1>b, <3>1, <3>2 DEF List!Link
    <3>4. QED
      BY <1>0, <1>8, <1>a, <2>0, <2>2, <2>4, <3>3 DEF List!Link
  <2>5. QED
    BY <2>3, <2>4
<1>9. ASSUME NEW e \in Events, List!Trash(e) PROVE RequestsInv'
  <2> DEFINE x == [event[e] EXCEPT !.step = "done", !.todo = {}]
  <2>0. event[e].step = "read" /\ event[e].todo = {}
    BY <1>0, <1>9 DEF List!Trash, Sound
  <2>1. event' = [event EXCEPT ![e] = x]
    BY <1>0, <1>9, <2>0 DEF List!Trash, EventStates
  <2>2. x \in EventStates /\ Sound(x) /\ x.step # "store"
    BY <1>c
  <2> HIDE DEF x
  <2>3. Events4
    BY <1>9, <1>b, <2>1, <2>2 DEF List!Trash
  <2>4. links' \in [List!Pairs -> 0..2] /\ \A q \in List!Pairs : links'[q] > 0 => q[2] \in notes'
    BY <1>0, <1>9 DEF List!Trash
  <2>5. QED
    BY <1>0, <1>9, <1>a, <2>3, <2>4 DEF List!Trash
<1>10. ASSUME NEW e \in Events, List!Done(e) PROVE RequestsInv'
  <2>1. Events4
    BY <1>10, <1>b, RestIs DEF List!Done
  <2>2. QED
    BY <1>0, <1>10, <1>a, <2>1 DEF List!Done
<1>11. ASSUME List!Crash PROVE RequestsInv'
  <2>1. Events4
    BY <1>11, RestIs DEF List!Crash
  <2>2. cut' \subseteq List!Pairs
    BY <1>0, <1>11 DEF List!Crash, EventStates
  <2>3. QED
    BY <1>0, <1>11, <1>a, <2>1, <2>2 DEF List!Crash
<1>12. ASSUME UNCHANGED List!lvars PROVE RequestsInv'
  BY <1>12 DEF List!lvars, RequestsInv, List!TypeOK, Sound
<1>13. QED
  BY <1>1, <1>2, <1>3, <1>4, <1>5, <1>6, <1>7, <1>8, <1>9, <1>10, <1>11, <1>12 DEF List!Next, List!Work

-------------------------------------------------------------------------------
(* Lists of notifications: what was asked for.                                 *)

\* Requests work on different monitors.
OwnMonitors == \A e, f \in Events : e # f => event[e].mons \cap event[f].mons = {}

\* What a request is about to insert is not there.
NotThereYet ==
  \A e \in Events :
    /\ event[e].step = "insert" => \A p \in event[e].todo : links[p] = 0
    /\ event[e].step = "link" => links[CHOOSE q \in event[e].todo : TRUE] = 0

\* What requests have left to do was asked for last.
Owed == \A e \in Events : \A p \in event[e].todo : p[2] \in wanted[p[1]]

\* Nothing is in the table that was not asked for ...
NotMore == \A p \in List!Pairs : links[p] > 0 => p[2] \in wanted[p[1]]

\* ... and what was is there, or a request is about to insert it, or something was cut off.
NotLess ==
  \A p \in List!Pairs : p[2] \in wanted[p[1]] \cap notes =>
    links[p] > 0 \/ p \in cut \/ \E e \in Events : p \in event[e].todo

Lists == OwnMonitors /\ NotThereYet /\ Owed /\ NotMore /\ NotLess /\ List!NoDoubleLink
ListInv == RequestsInv /\ Lists

\* What a request has left to do is of its monitors and its list.
LEMMA TodoIsMine ==
  ASSUME RequestsInv, NEW e \in Events, NEW p \in event[e].todo
  PROVE  p \in List!Pairs /\ p[1] \in event[e].mons /\ p[2] \in event[e].list
BY DEF RequestsInv, List!TypeOK, Sound, List!Pairs

\* A request begins, ends, or has less to do because it is done.
LEMMA LessToDo ==
  ASSUME ListInv, NEW e \in Events, \A f \in Events : f # e => event'[f] = event[f],
         UNCHANGED <<notes, links, wanted>>, cut \subseteq cut',
         event'[e].todo \subseteq event[e].todo,
         \A p \in event[e].todo : p \in event'[e].todo \/ links[p] > 0 \/ p \in cut',
         \A f \in Events : f # e => event'[e].mons \cap event[f].mons = {},
         event'[e].step = "insert" => event[e].step = "insert",
         event'[e].step = "link" => links[CHOOSE q \in event'[e].todo : TRUE] = 0
  PROVE  Lists'
<1>1. OwnMonitors'
  BY DEF ListInv, Lists, OwnMonitors
<1>2. NotThereYet'
  BY DEF ListInv, Lists, NotThereYet
<1>3. Owed'
  BY DEF ListInv, Lists, Owed
<1>4. NotMore' /\ List!NoDoubleLink'
  BY DEF ListInv, Lists, NotMore, List!NoDoubleLink
<1>5. NotLess'
  BY DEF ListInv, Lists, NotLess
<1>6. QED
  BY <1>1, <1>2, <1>3, <1>4, <1>5 DEF Lists

\* One row is inserted.
LEMMA OneLinked ==
  ASSUME ListInv, NEW e \in Events, \A f \in Events : f # e => event'[f] = event[f],
         UNCHANGED <<notes, wanted, cut>>, NEW p \in event[e].todo, links[p] = 0,
         links' = [links EXCEPT ![p] = @ + 1],
         event'[e].todo = event[e].todo \ {p}, event'[e].mons = event[e].mons,
         (event'[e].step = event[e].step /\ event[e].step = "insert") \/ event'[e].step = "look"
  PROVE  Lists'
<1>0. p \in List!Pairs /\ p[1] \in event[e].mons /\ links \in [List!Pairs -> 0..2]
  BY TodoIsMine DEF ListInv, RequestsInv, List!TypeOK
<1>1. links'[p] = 1 /\ \A q \in List!Pairs : q # p => links'[q] = links[q]
  BY <1>0
<1>2. \A f \in Events : f # e => p \notin event[f].todo
  BY <1>0, TodoIsMine DEF ListInv, Lists, OwnMonitors
<1>3. \A f \in Events : event[f].todo \subseteq List!Pairs
  BY TodoIsMine DEF ListInv
<1>4. OwnMonitors'
  BY DEF ListInv, Lists, OwnMonitors
<1>5. NotThereYet'
  <2>1. SUFFICES ASSUME NEW f \in Events PROVE
          /\ event'[f].step = "insert" => \A q \in event'[f].todo : links'[q] = 0
          /\ event'[f].step = "link" => links'[CHOOSE q \in event'[f].todo : TRUE] = 0
    BY DEF NotThereYet
  <2>2. CASE f = e
    BY <1>1, <1>3, <2>2 DEF ListInv, Lists, NotThereYet
  <2>3. CASE f # e
    <3>1. event'[f] = event[f]
      BY <2>3
    <3>2. event[f].step = "link" => (CHOOSE q \in event[f].todo : TRUE) \in event[f].todo
      BY FirstTodo DEF ListInv, RequestsInv, Sound
    <3>3. QED
      BY <1>1, <1>2, <1>3, <2>3, <3>1, <3>2 DEF ListInv, Lists, NotThereYet
  <2>4. QED
    BY <2>2, <2>3
<1>6. Owed'
  BY DEF ListInv, Lists, Owed
<1>7. NotMore'
  BY <1>1 DEF ListInv, Lists, NotMore, Owed
<1>8. NotLess'
  BY <1>1 DEF ListInv, Lists, NotLess
<1>9. List!NoDoubleLink'
  BY <1>1 DEF ListInv, Lists, List!NoDoubleLink
<1>10. QED
  BY <1>4, <1>5, <1>6, <1>7, <1>8, <1>9 DEF Lists

\* The invariant of the lists holds at first ...
LEMMA ListInvInit == ASSUME List!ListAssumption PROVE List!Init => ListInv
<1> SUFFICES ASSUME List!Init PROVE ListInv
  OBVIOUS
<1>1. \A e \in Events : event[e] = List!Rest
  BY DEF List!Init
<1>2. \A p \in List!Pairs : links[p] = 0 /\ wanted[p[1]] = {}
  BY PairIs DEF List!Init
<1>3. QED
  BY <1>1, <1>2, RestIs, ListTypeInit DEF ListInv, Lists, OwnMonitors, NotThereYet, Owed, NotMore, NotLess, List!NoDoubleLink

\* ... and every step keeps it, if no two requests are for the same monitor.
LEMMA ListInvStep ==
  ASSUME List!ListAssumption, SameMonitor = FALSE PROVE ListInv /\ [List!Next]_(List!lvars) => ListInv'
<1> SUFFICES ASSUME ListInv, [List!Next]_(List!lvars) PROVE Lists'
  BY ListTypeStep DEF ListInv
<1>0. /\ RequestsInv /\ event \in [Events -> EventStates] /\ links \in [List!Pairs -> 0..2]
      /\ wanted \in [Mons -> SUBSET Notes]
      /\ \A e \in Events : Sound(event[e])
      /\ OwnMonitors /\ NotThereYet /\ Owed /\ NotMore /\ NotLess /\ List!NoDoubleLink
  BY DEF ListInv, Lists, RequestsInv, List!TypeOK, EventStates
<1>a. ASSUME NEW e \in Events, NEW x \in EventStates, x.todo = {}, x.step \notin {"insert", "link"},
             List!Begin(e, x), UNCHANGED <<notes, links, wanted, cut>>
      PROVE  Lists'
  <2>1. event' = [event EXCEPT ![e] = x] /\ event[e].todo = {}
        /\ \A f \in Events : x.mons \cap event[f].mons = {}
    BY <1>0, <1>a, ListBegun
  <2>2. event'[e] = x /\ \A f \in Events : f # e => event'[f] = event[f]
    BY <1>0, <2>1
  <2>3. QED
    BY <1>a, <2>1, <2>2, LessToDo
<1>1. ASSUME NEW e \in Events, NEW m \in Mons, NEW list \in SUBSET Notes, List!BeginSave(e, m, list) PROVE Lists'
  <2> DEFINE x == [op |-> "save", step |-> "clear", mons |-> {m}, list |-> list, todo |-> {}]
  <2>1. x \in EventStates /\ x.todo = {} /\ x.step \notin {"insert", "link"}
    BY <1>0, BeginSaves
  <2>2. List!Begin(e, x) /\ UNCHANGED <<notes, links, wanted, cut>>
    BY <1>1 DEF List!BeginSave
  <2> HIDE DEF x
  <2>3. QED
    BY <1>a, <2>1, <2>2
<1>2. ASSUME NEW e \in Events, NEW n \in Notes, List!BeginApply(e, n) PROVE Lists'
  <2> DEFINE x == [op |-> IF n \in notes THEN "apply" ELSE "add", step |-> "store", mons |-> Mons, list |-> {n},
                   todo |-> {}]
  <2>1. x \in EventStates /\ x.todo = {} /\ x.step \notin {"insert", "link"}
    BY <1>0, BeginApplies
  <2>2. List!Begin(e, x) /\ UNCHANGED <<notes, links, wanted, cut>>
    BY <1>2 DEF List!BeginApply
  <2> HIDE DEF x
  <2>3. QED
    BY <1>a, <2>1, <2>2
<1>3. ASSUME NEW e \in Events, NEW n \in Notes, List!BeginDelete(e, n) PROVE Lists'
  <2> DEFINE x == [op |-> "delete", step |-> "read", mons |-> {}, list |-> {n}, todo |-> {}]
  <2>1. x \in EventStates /\ x.todo = {} /\ x.step \notin {"insert", "link"}
    BY <1>0, BeginDeletes
  <2>2. List!Begin(e, x) /\ UNCHANGED <<notes, links, wanted, cut>>
    BY <1>3 DEF List!BeginDelete
  <2> HIDE DEF x
  <2>3. QED
    BY <1>a, <2>1, <2>2
<1>4. ASSUME NEW e \in Events, List!Clear(e) PROVE Lists'
  <2>1. /\ event'[e].step = "insert" /\ event'[e].todo = event[e].mons \X event[e].list
        /\ event'[e].mons = event[e].mons
        /\ \A f \in Events : f # e => event'[f] = event[f]
    BY <1>0, <1>4 DEF List!Clear, EventStates
  <2>2. event[e].mons \subseteq Mons /\ event[e].list \subseteq Notes /\ event[e].todo = {}
    BY <1>0, <1>4 DEF List!Clear, EventStates, Sound
  <2>3. /\ \A p \in List!Pairs : p[1] \in event[e].mons => links'[p] = 0 /\ wanted'[p[1]] = event[e].list
        /\ \A p \in List!Pairs : p[1] \notin event[e].mons =>
             links'[p] = links[p] /\ wanted'[p[1]] = wanted[p[1]] /\ (p \in cut => p \in cut')
        /\ notes' = notes
    BY <1>0, <1>4, PairIs DEF List!Clear
  <2>4. \A p \in event'[e].todo : p \in List!Pairs /\ p[1] \in event[e].mons /\ p[2] \in event[e].list
    BY <2>1, <2>2 DEF List!Pairs
  <2>5. \A p \in List!Pairs : p[1] \in event[e].mons /\ p[2] \in event[e].list => p \in event'[e].todo
    BY <2>1, PairIs
  <2>6. \A f \in Events : f # e => \A p \in event[f].todo : p \in List!Pairs /\ p[1] \notin event[e].mons
    BY <1>0, TodoIsMine DEF OwnMonitors
  <2>7. OwnMonitors'
    BY <1>0, <2>1 DEF OwnMonitors
  <2>8. NotThereYet'
    <3>1. SUFFICES ASSUME NEW f \in Events PROVE
            /\ event'[f].step = "insert" => \A q \in event'[f].todo : links'[q] = 0
            /\ event'[f].step = "link" => links'[CHOOSE q \in event'[f].todo : TRUE] = 0
      BY DEF NotThereYet
    <3>2. CASE f = e
      BY <2>1, <2>3, <2>4, <3>2
    <3>3. CASE f # e
      <4>1. event'[f] = event[f]
        BY <2>1, <3>3
      <4>2. event[f].step = "link" => (CHOOSE q \in event[f].todo : TRUE) \in event[f].todo
        BY <1>0, FirstTodo DEF Sound
      <4>3. QED
        BY <1>0, <2>3, <2>6, <3>3, <4>1, <4>2 DEF NotThereYet
    <3>4. QED
      BY <3>2, <3>3
  <2>9. Owed'
    <3>1. ASSUME NEW f \in Events, NEW p \in event'[f].todo PROVE p[2] \in wanted'[p[1]]
      <4>1. CASE f = e
        BY <2>3, <2>4, <3>1, <4>1
      <4>2. CASE f # e
        BY <1>0, <2>1, <2>3, <2>6, <3>1, <4>2 DEF Owed
      <4>3. QED
        BY <4>1, <4>2
    <3>2. QED
      BY <3>1 DEF Owed
  <2>10. NotMore'
    BY <1>0, <2>3 DEF NotMore
  <2>11. NotLess'
    <3>1. SUFFICES ASSUME NEW p \in List!Pairs, p[2] \in wanted'[p[1]], p[2] \in notes
                   PROVE  links'[p] > 0 \/ p \in cut' \/ \E f \in Events : p \in event'[f].todo
      BY <2>3 DEF NotLess
    <3>2. CASE p[1] \in event[e].mons
      BY <2>3, <2>5, <3>1, <3>2
    <3>3. CASE p[1] \notin event[e].mons
      <4>1. links[p] > 0 \/ p \in cut \/ \E f \in Events : p \in event[f].todo
        BY <1>0, <2>3, <3>1, <3>3 DEF NotLess
      <4>2. QED
        BY <2>1, <2>2, <2>3, <3>3, <4>1
    <3>4. QED
      BY <3>2, <3>3
  <2>12. List!NoDoubleLink'
    BY <1>0, <2>3 DEF List!NoDoubleLink
  <2>13. QED
    BY <2>7, <2>8, <2>9, <2>10, <2>11, <2>12 DEF Lists
<1>b. ASSUME NEW e \in Events, event'[e].todo = {}, event'[e].step \notin {"insert", "link"},
             event'[e].mons \subseteq event[e].mons, \A f \in Events : f # e => event'[f] = event[f],
             UNCHANGED <<notes, links, wanted>>, cut' = cut \cup event[e].todo
      PROVE  Lists'
  BY <1>0, <1>b, LessToDo DEF OwnMonitors
<1>5. ASSUME NEW e \in Events, List!Insert(e) PROVE Lists'
  <2>1. CASE event[e].todo = {} /\ event' = [event EXCEPT ![e].step = "done"] /\ UNCHANGED <<links, cut>>
    <3>1. /\ event'[e].todo = {} /\ event'[e].step \notin {"insert", "link"} /\ event'[e].mons = event[e].mons
          /\ \A f \in Events : f # e => event'[f] = event[f]
      BY <1>0, <2>1 DEF EventStates
    <3>2. QED
      BY <1>5, <1>b, <2>1, <3>1 DEF List!Insert
  <2>2. ASSUME NEW p \in event[e].todo, p[2] \in notes, links' = [links EXCEPT ![p] = @ + 1],
               event' = [event EXCEPT ![e].todo = @ \ {p}], UNCHANGED cut
        PROVE  Lists'
    <3>1. /\ event'[e].todo = event[e].todo \ {p} /\ event'[e].step = event[e].step
          /\ event'[e].mons = event[e].mons /\ \A f \in Events : f # e => event'[f] = event[f]
      BY <1>0, <2>2 DEF EventStates
    <3>2. links[p] = 0 /\ event[e].step = "insert" /\ UNCHANGED <<notes, wanted>>
      BY <1>0, <1>5 DEF List!Insert, NotThereYet
    <3>3. QED
      BY <2>2, <3>1, <3>2, OneLinked
  <2>3. ASSUME event' = [event EXCEPT ![e].step = "done", ![e].todo = {}], cut' = cut \cup event[e].todo,
               UNCHANGED links
        PROVE  Lists'
    <3>1. /\ event'[e].todo = {} /\ event'[e].step \notin {"insert", "link"} /\ event'[e].mons = event[e].mons
          /\ \A f \in Events : f # e => event'[f] = event[f]
      BY <1>0, <2>3 DEF EventStates
    <3>2. QED
      BY <1>5, <1>b, <2>3, <3>1 DEF List!Insert
  <2>4. QED
    BY <1>5, <2>1, <2>2, <2>3 DEF List!Insert
<1>6. ASSUME NEW e \in Events, NEW n \in Notes, List!StoreNote(e, n) PROVE Lists'
  <2>0. event[e].step = "store" /\ event[e].mons = Mons /\ event[e].todo = {} /\ n \in event[e].list
    BY <1>0, <1>6 DEF List!StoreNote, Sound
  <2>1. CASE event[e].op = "add" \/ n \in notes
    <3>1. /\ event'[e].step = "look" /\ event'[e].todo = Mons \X {n} /\ event'[e].mons = event[e].mons
          /\ \A f \in Events : f # e => event'[f] = event[f]
      BY <1>0, <1>6, <2>1 DEF List!StoreNote, EventStates
    <3>2. /\ links' = links /\ cut' = cut /\ notes' = notes \cup {n}
          /\ \A p \in List!Pairs : wanted'[p[1]] = wanted[p[1]] \cup {n}
      BY <1>6, <2>1, PairIs DEF List!StoreNote
    <3>3. \A p \in event'[e].todo : p[1] \in Mons /\ p[2] = n /\ p \in List!Pairs
      BY <3>1 DEF List!Pairs
    <3>4. \A p \in List!Pairs : p[2] = n => p \in event'[e].todo
      BY <3>1, PairIs
    <3>5. \A f \in Events : event[f].todo \subseteq List!Pairs
      BY <1>0, TodoIsMine
    <3>6. OwnMonitors' /\ NotThereYet' /\ NotMore' /\ List!NoDoubleLink'
      BY <1>0, <3>1, <3>2 DEF OwnMonitors, NotThereYet, NotMore, List!NoDoubleLink
    <3>7. Owed'
      <4>1. ASSUME NEW f \in Events, NEW p \in event'[f].todo PROVE p[2] \in wanted'[p[1]]
        <5>1. CASE f = e
          BY <3>2, <3>3, <4>1, <5>1
        <5>2. CASE f # e
          BY <1>0, <3>1, <3>2, <3>5, <4>1, <5>2 DEF Owed
        <5>3. QED
          BY <5>1, <5>2
      <4>2. QED
        BY <4>1 DEF Owed
    <3>8. NotLess'
      <4>1. SUFFICES ASSUME NEW p \in List!Pairs, p[2] \in wanted'[p[1]], p[2] \in notes', p[2] # n
                     PROVE  links[p] > 0 \/ p \in cut \/ \E f \in Events : p \in event'[f].todo
        BY <3>2, <3>4 DEF NotLess
      <4>2. links[p] > 0 \/ p \in cut \/ \E f \in Events : p \in event[f].todo
        BY <1>0, <3>2, <4>1 DEF NotLess
      <4>3. QED
        BY <2>0, <3>1, <4>2
    <3>9. QED
      BY <3>6, <3>7, <3>8 DEF Lists
  <2>2. CASE ~(event[e].op = "add" \/ n \in notes)
    <3>1. event'[e] = List!Rest /\ \A f \in Events : f # e => event'[f] = event[f]
      BY <1>0, <1>6, <2>2 DEF List!StoreNote
    <3>2. UNCHANGED <<notes, links, wanted, cut>>
      BY <1>6, <2>2 DEF List!StoreNote
    <3>3. QED
      BY <1>b, <2>0, <3>1, <3>2, RestIs
  <2>3. QED
    BY <2>1, <2>2
<1>7. ASSUME NEW e \in Events, List!Look(e) PROVE Lists'
  <2> DEFINE p == CHOOSE q \in event[e].todo : TRUE
  <2>p. event' = [event EXCEPT ![e] =
          IF event[e].todo = {} THEN [@ EXCEPT !.step = "done"]
          ELSE IF links[p] > 0 THEN [@ EXCEPT !.todo = event[e].todo \ {p}] ELSE [@ EXCEPT !.step = "link"]]
    BY <1>7 DEF List!Look
  <2>q. event[e].todo # {} => p \in event[e].todo /\ p \in List!Pairs
    BY <1>0, FirstTodo, TodoIsMine
  <2> HIDE DEF p
  <2>0. event[e].step = "look" /\ UNCHANGED <<notes, links, wanted, cut>>
    BY <1>7 DEF List!Look
  <2>1. CASE event[e].todo = {}
    <3>1. /\ event'[e].todo = {} /\ event'[e].step = "done" /\ event'[e].mons = event[e].mons
          /\ \A f \in Events : f # e => event'[f] = event[f]
      BY <1>0, <1>7, <2>1 DEF List!Look, EventStates
    <3>2. QED
      BY <1>b, <2>0, <2>1, <3>1
  <2>2. CASE event[e].todo # {} /\ links[p] > 0
    <3>0. event' = [event EXCEPT ![e] = [event[e] EXCEPT !.todo = event[e].todo \ {p}]]
      BY <1>0, <2>2, <2>p
    <3>1. /\ event'[e].todo = event[e].todo \ {p} /\ event'[e].step = "look" /\ event'[e].mons = event[e].mons
          /\ \A f \in Events : f # e => event'[f] = event[f]
      BY <1>0, <2>0, <3>0 DEF EventStates
    <3>2. QED
      BY <1>0, <2>0, <2>2, <3>1, LessToDo DEF OwnMonitors
  <2>3. CASE event[e].todo # {} /\ ~(links[p] > 0)
    <3>0. event' = [event EXCEPT ![e] = [event[e] EXCEPT !.step = "link"]]
      BY <1>0, <2>3, <2>p
    <3>1. /\ event'[e].todo = event[e].todo /\ event'[e].step = "link" /\ event'[e].mons = event[e].mons
          /\ \A f \in Events : f # e => event'[f] = event[f]
      BY <1>0, <3>0 DEF EventStates
    <3>2. p \in List!Pairs
      BY <2>3, <2>q
    <3>3. links[p] = 0
      BY <1>0, <2>3, <3>2
    <3>4. QED
      BY <1>0, <2>0, <2>q, <3>1, <3>3, LessToDo DEF OwnMonitors, p
  <2>4. QED
    BY <2>1, <2>2, <2>3
<1>8. ASSUME NEW e \in Events, List!Link(e) PROVE Lists'
  <2> DEFINE p == CHOOSE q \in event[e].todo : TRUE
  <2>0. event[e].step = "link" /\ event[e].todo # {} /\ UNCHANGED <<notes, wanted>>
    BY <1>0, <1>8 DEF List!Link, Sound
  <2>1. p \in event[e].todo /\ links[p] = 0
    BY <1>0, <2>0, FirstTodo DEF NotThereYet
  <2>2. IF p[2] \in notes
        THEN /\ links[p] < 2 /\ links' = [links EXCEPT ![p] = @ + 1]
             /\ event' = [event EXCEPT ![e].step = "look", ![e].todo = @ \ {p}]
             /\ UNCHANGED cut
        ELSE /\ event' = [event EXCEPT ![e].step = "done", ![e].todo = {}]
             /\ cut' = cut \cup event[e].todo
             /\ UNCHANGED links
    BY <1>8 DEF List!Link
  <2> HIDE DEF p
  <2>3. CASE p[2] \in notes
    <3>1. /\ event'[e].todo = event[e].todo \ {p} /\ event'[e].step = "look" /\ event'[e].mons = event[e].mons
          /\ \A f \in Events : f # e => event'[f] = event[f]
      BY <1>0, <2>2, <2>3 DEF EventStates
    <3>2. QED
      BY <2>0, <2>1, <2>2, <2>3, <3>1, OneLinked
  <2>4. CASE p[2] \notin notes
    <3>1. /\ event'[e].todo = {} /\ event'[e].step = "done" /\ event'[e].mons = event[e].mons
          /\ \A f \in Events : f # e => event'[f] = event[f]
      BY <1>0, <2>2, <2>4 DEF EventStates
    <3>2. QED
      BY <1>b, <2>0, <2>2, <2>4, <3>1
  <2>5. QED
    BY <2>3, <2>4
<1>9. ASSUME NEW e \in Events, List!Trash(e) PROVE Lists'
  <2>1. /\ event'[e].todo = {} /\ event'[e].step = "done" /\ event'[e].mons = event[e].mons
        /\ \A f \in Events : f # e => event'[f] = event[f]
    BY <1>0, <1>9 DEF List!Trash, EventStates, Sound
  <2>2. /\ notes' = notes \ event[e].list /\ wanted' = wanted /\ cut' = cut /\ event[e].todo = {}
        /\ \A p \in List!Pairs : links'[p] = IF p[2] \in event[e].list THEN 0 ELSE links[p]
    BY <1>0, <1>9 DEF List!Trash, Sound
  <2>3. \A f \in Events : event[f].todo \subseteq List!Pairs
    BY <1>0, TodoIsMine
  <2>4. OwnMonitors' /\ Owed'
    BY <1>0, <2>1, <2>2 DEF OwnMonitors, Owed
  <2>5. NotThereYet'
    <3>1. SUFFICES ASSUME NEW f \in Events, f # e PROVE
            /\ event[f].step = "insert" => \A q \in event[f].todo : links'[q] = 0
            /\ event[f].step = "link" => links'[CHOOSE q \in event[f].todo : TRUE] = 0
      BY <2>1 DEF NotThereYet
    <3>2. event[f].step = "link" => (CHOOSE q \in event[f].todo : TRUE) \in event[f].todo
      BY <1>0, FirstTodo DEF Sound
    <3>3. QED
      BY <1>0, <2>2, <2>3, <3>2 DEF NotThereYet
  <2>6. NotMore' /\ List!NoDoubleLink'
    BY <1>0, <2>2 DEF NotMore, List!NoDoubleLink
  <2>7. NotLess'
    <3>1. SUFFICES ASSUME NEW p \in List!Pairs, p[2] \in wanted[p[1]], p[2] \in notes, p[2] \notin event[e].list
                   PROVE  links'[p] > 0 \/ p \in cut \/ \E f \in Events : p \in event'[f].todo
      BY <2>2 DEF NotLess
    <3>2. links[p] > 0 \/ p \in cut \/ \E f \in Events : p \in event[f].todo
      BY <1>0, <3>1 DEF NotLess
    <3>3. QED
      BY <2>1, <2>2, <3>1, <3>2
  <2>8. QED
    BY <2>4, <2>5, <2>6, <2>7 DEF Lists
<1>10. ASSUME NEW e \in Events, List!Done(e) PROVE Lists'
  <2>1. event'[e] = List!Rest /\ event[e].todo = {} /\ \A f \in Events : f # e => event'[f] = event[f]
    BY <1>0, <1>10 DEF List!Done, Sound
  <2>2. UNCHANGED <<notes, links, wanted, cut>>
    BY <1>10 DEF List!Done
  <2>3. QED
    BY <1>b, <2>1, <2>2, RestIs
<1>11. ASSUME List!Crash PROVE Lists'
  <2>1. /\ \A f \in Events : event'[f] = List!Rest /\ event[f].todo \subseteq cut'
        /\ UNCHANGED <<notes, links, wanted>> /\ cut \subseteq cut'
    BY <1>11 DEF List!Crash
  <2>2. QED
    BY <1>0, <2>1, RestIs DEF Lists, OwnMonitors, NotThereYet, Owed, NotMore, NotLess, List!NoDoubleLink
<1>12. ASSUME UNCHANGED List!lvars PROVE Lists'
  BY <1>0, <1>12 DEF List!lvars, Lists, OwnMonitors, NotThereYet, Owed, NotMore, NotLess, List!NoDoubleLink
<1>13. QED
  BY <1>1, <1>2, <1>3, <1>4, <1>5, <1>6, <1>7, <1>8, <1>9, <1>10, <1>11, <1>12 DEF List!Next, List!Work

\* The lists of notifications have their types, and no row of monitor_notification is of a
\* notification that is not in its table (the foreign key), whatever overlaps and crashes.
THEOREM ListTypes == ASSUME List!ListAssumption PROVE List!Spec => []List!TypeOK
<1>1. RequestsInv => List!TypeOK
  BY DEF RequestsInv
<1>2. QED
  BY <1>1, ListTypeInit, ListTypeStep, PTL DEF List!Spec

\* A monitor has no notification twice, which would alert its destination twice: the look and
\* the insertion of applyNotificationEveryMonitor() are two queries, and the deletion and the
\* insertions of updateMonitorNotification() several, but nobody else works on the monitor.
THEOREM NoDoubleLinkHolds == ASSUME List!ListAssumption, SameMonitor = FALSE PROVE List!Spec => []List!NoDoubleLink
<1>1. ListInv => List!NoDoubleLink
  BY DEF ListInv, Lists
<1>2. QED
  BY <1>1, ListInvInit, ListInvStep, PTL DEF List!Spec

\* A monitor nobody works on alerts what was asked for last, of what is in the table, but for
\* what a deletion or a crash cut off.
THEOREM ListAsWantedHolds == ASSUME List!ListAssumption, SameMonitor = FALSE PROVE List!Spec => []List!ListAsWanted
<1>1. ASSUME ListInv PROVE List!ListAsWanted
  <2>1. SUFFICES ASSUME NEW m \in Mons, ~List!Busy(m), NEW n \in Notes
                 PROVE  /\ links[<<m, n>>] > 0 => n \in wanted[m] \cap notes
                        /\ n \in wanted[m] \cap notes => links[<<m, n>>] > 0 \/ <<m, n>> \in cut
    BY <1>1 DEF List!ListAsWanted, ListInv, RequestsInv, List!TypeOK
  <2>0. <<m, n>> \in List!Pairs
    BY DEF List!Pairs
  <2>2. PICK p \in List!Pairs : p = <<m, n>> /\ p[1] = m /\ p[2] = n
    BY <2>0
  <2>3. \A e \in Events : p \notin event[e].todo
    BY <1>1, <2>1, <2>2, TodoIsMine DEF List!Busy, ListInv
  <2>4. links[p] > 0 => n \in wanted[m] \cap notes
    BY <1>1, <2>2 DEF ListInv, Lists, NotMore, RequestsInv, List!TypeOK
  <2>5. n \in wanted[m] \cap notes => links[p] > 0 \/ p \in cut
    BY <1>1, <2>2, <2>3 DEF ListInv, Lists, NotLess
  <2>6. QED
    BY <2>2, <2>4, <2>5
<1>2. QED
  BY <1>1, ListInvInit, ListInvStep, PTL DEF List!Spec
===============================================================================
