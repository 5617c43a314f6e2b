--------------------------- MODULE ClientMonitorList ---------------------------
(***************************************************************************)
(* The list of monitors a browser shows: src/mixins/socket.js keeps a copy   *)
(* of what server/uptime-kuma-server.js sends, a whole list after every      *)
(* login and single monitors after requests.  Dragging a monitor onto a      *)
(* group (src/components/MonitorListItem.vue) sends the copy back as an edit.*)
(*                                                                           *)
(* A message is prepared by queries and sent when they are answered; what    *)
(* happens in between is not in it.  Messages arrive in order as long as the *)
(* socket lives, and are lost with it.  Any query may fail: the handler then *)
(* ends there, and what it has stored stays.                                 *)
(***************************************************************************)
EXTENDS Naturals, Sequences, FiniteSets, Functions, SequencesExt

CONSTANTS
  Mons,         \* monitors, there or yet to be added
  Requests,     \* socket events that may be in progress at a time
  InitParent,   \* the tree at first
  NoMon,
  LoggedIn,     \* the browser has been sent its list at first
  MaxRequests,  \* bound: requests made
  MaxDrops      \* bound: lost connections

\* What an instance has to satisfy.
MirrorAssumption ==
  /\ NoMon \notin Mons /\ InitParent \in [Mons -> Mons \cup {NoMon}]
  /\ LoggedIn \in BOOLEAN /\ MaxRequests \in Nat /\ MaxDrops \in Nat

VARIABLES
  rows,     \* the table monitor
  mirror,   \* monitorList of the browser
  online,   \* the browser's socket is connected and in the user's room
  wire,     \* messages on the way to it
  login,    \* afterLogin() of its sockets, the lost ones included
  req,      \* what the handlers of requests have still to do
  requests, drops,
  untold,   \* history variable: monitors no handler sent, nor is about to send, since they changed
  late      \* history variable: monitors last sent, or brought back, as they had been before a change

mvars == <<rows, mirror, online, wire, login, req, requests, drops, untold, late>>

Sockets == 1..(MaxDrops + 1)
Gone    == [there |-> FALSE]
NoList  == [m \in Mons |-> Gone]
\* Of the fields of a monitor and of its list of notifications only a version is kept; version 0
\* of the list is the empty one.
Row(p)  == [there |-> TRUE, parent |-> p, on |-> TRUE, conf |-> 0, list |-> 0]

\* What a parent chain says, on a table without cycles (MonitorTree!Acyclic).
Members(t, m) == {x \in Mons : t[x].there /\ t[x].parent = m}
Under(t, m)   == LET under[x \in Mons] == Members(t, x) \cup UNION {under[y] : y \in Members(t, x)} IN under[m]
Running(t, m) == LET on[x \in Mons] == t[x].on /\ (t[x].parent # NoMon => on[t[x].parent]) IN on[m]

\* getMonitorJSONList() of one monitor: its row, and what the rows of others make of it.
Json(t, m) ==
  IF t[m].there THEN [there |-> TRUE, parent |-> t[m].parent, conf |-> t[m].conf, list |-> t[m].list,
                      active |-> Running(t, m), childrenIDs |-> Under(t, m)]
  ELSE Gone

Task(do, m) == [do |-> do, mon |-> m, json |-> Gone]

\* The monitors a handler will send as they are by then.
Sent(todo) == {task.mon : task \in {x \in Range(todo) : x.do = "tell"}}

\* What asks the database; the rest of what a handler does cannot fail.
Queries == {"unlink", "clear", "fill", "apply", "wipe", "remove", "read"}

TypeOK ==
  /\ \A m \in Mons : rows[m] = Gone \/ (rows[m].there /\ rows[m].parent \in Mons \cup {NoMon} /\ rows[m].on \in BOOLEAN)
  /\ online \in BOOLEAN /\ (~online => wire = <<>>)
  /\ \A s \in Sockets : login[s].step \in {"none", "read", "send", "done"}
  /\ \A q \in Requests : \A i \in DOMAIN req[q] :
       req[q][i].do \in Queries \cup {"gone", "refuse", "tell"} /\ req[q][i].mon \in Mons
  /\ requests \in 0..MaxRequests /\ drops \in 0..MaxDrops
  /\ untold \subseteq Mons /\ late \subseteq Mons

Init ==
  /\ rows = [m \in Mons |-> Row(InitParent[m])]
  /\ mirror = IF LoggedIn THEN [m \in Mons |-> Json(rows, m)] ELSE NoList
  /\ online = LoggedIn /\ wire = <<>>
  /\ login = [s \in Sockets |-> [step |-> IF LoggedIn /\ s = 1 THEN "done" ELSE "none", list |-> NoList]]
  /\ req = [q \in Requests |-> <<>>]
  /\ requests = 0 /\ drops = 0
  /\ untold = {} /\ late = {}

-----------------------------------------------------------------------------
(* The connection *)

Current == CHOOSE s \in Sockets : s = drops + 1

\* The socket is accepted, its session found, and it joins the room of its user.  The browser
\* keeps the list it has.
Connect ==
  /\ ~online /\ login[Current].step = "none"
  /\ online' = TRUE
  /\ login' = [login EXCEPT ![Current].step = "read"]
  /\ UNCHANGED <<rows, mirror, wire, req, requests, drops, untold, late>>

\* The connection is lost with what was on the way; handlers go on.
Disconnect ==
  /\ online /\ drops < MaxDrops
  /\ online' = FALSE /\ wire' = <<>> /\ drops' = drops + 1
  /\ UNCHANGED <<rows, mirror, login, req, requests, untold, late>>

\* io.to(userID).emit()
Send(message) == wire' = IF online THEN Append(wire, message) ELSE wire

ReadList(s) ==
  /\ login[s].step = "read"
  /\ login' = [login EXCEPT ![s] = [step |-> "send", list |-> [m \in Mons |-> Json(rows, m)]]]
  /\ UNCHANGED <<rows, mirror, online, wire, req, requests, drops, untold, late>>

\* sendMonitorList(): to the whole room, by the login of a lost socket as well.
SendList(s) ==
  /\ login[s].step = "send"
  /\ login' = [login EXCEPT ![s] = [step |-> "done", list |-> NoList]]
  /\ Send([event |-> "monitorList", list |-> login[s].list])
  /\ IF online
     THEN /\ untold' = {}
          /\ late' = {m \in Mons : login[s].list[m] # Json(rows, m)}
     ELSE UNCHANGED <<untold, late>>
  /\ UNCHANGED <<rows, mirror, online, req, requests, drops>>

-----------------------------------------------------------------------------
(* The requests: their rows change at once, their messages follow. *)

\* The rows become t, and of them only the monitors in told will be sent.
Change(t, told) ==
  /\ rows' = t
  /\ untold' = (untold \cup {m \in Mons : Json(t, m) # Json(rows, m)}) \ told

\* The rows become t; the handler goes on with todo, which tells of the monitors in told.  One
\* idle place is as good as another.
Start(q, t, told, todo) ==
  /\ req[q] = <<>> /\ q = CHOOSE x \in Requests : req[x] = <<>>
  /\ requests < MaxRequests /\ requests' = requests + 1
  /\ Change(t, told)
  /\ req' = [req EXCEPT ![q] = todo]
  /\ UNCHANGED <<online, wire, login, drops, late>>

SendUpdate(m) == <<Task("read", m), Task("tell", m)>>

\* updateMonitorNotification(): the links are deleted, then inserted.
Fill(do, m, list) == [Task(do, m) EXCEPT !.json = [list |-> list]]
Relist(m, list)   == <<Fill("clear", m, 0), Fill("fill", m, list)>>

Add(q, m, p) ==
  /\ ~rows[m].there /\ (p # NoMon => p # m /\ rows[p].there)
  /\ Start(q, [rows EXCEPT ![m] = Row(p)], {m}, Relist(m, requests + 1) \o SendUpdate(m))
  /\ UNCHANGED mirror

\* The test of editMonitor (server/server.js).
MayBeParent(m, p) == p # NoMon => rows[p].there /\ p # m /\ p \notin Under(rows, m)

\* mutant: the edited monitor is not sent
Edit_Silent(q, m, p, ungroup) ==
  /\ rows[m].there /\ MayBeParent(m, p) /\ (ungroup => Members(rows, m) # {})
  /\ Start(q, [rows EXCEPT ![m].parent = p, ![m].conf = requests + 1], {m},
           (IF ungroup THEN <<Task("unlink", m)>> ELSE <<>>) \o Relist(m, requests + 1))
  /\ UNCHANGED mirror

\* The form of a monitor, which has just been loaded: the row is stored, then the list of
\* notifications.  A group that becomes something else lets its members go.
Edit(q, m, p, ungroup) ==
  /\ rows[m].there /\ MayBeParent(m, p) /\ (ungroup => Members(rows, m) # {})
  /\ Start(q, [rows EXCEPT ![m].parent = p, ![m].conf = requests + 1], {m},
           (IF ungroup THEN <<Task("unlink", m)>> ELSE <<>>) \o Relist(m, requests + 1) \o SendUpdate(m))
  /\ UNCHANGED mirror

\* pauseMonitor, resumeMonitor
Switch(q, m) ==
  /\ rows[m].there
  /\ Start(q, [rows EXCEPT ![m].on = ~@], {m}, SendUpdate(m))
  /\ UNCHANGED mirror

\* addNotification with applyExisting, and deleteNotification, whose links go with it: the lists
\* of some monitors change, and none of them is sent.
Apply(q, ms) ==
  /\ ms # {} /\ \A m \in ms : rows[m].there
  /\ Start(q, rows, {}, [i \in DOMAIN SetToSeq(ms) |-> Fill("apply", SetToSeq(ms)[i], requests + 1)])
  /\ UNCHANGED mirror

\* deleteMonitor: a group's members go with it, or stay without a parent.
Delete(q, m, deleteChildren) ==
  LET each(x) == IF deleteChildren THEN <<Task("wipe", x), Task("gone", x)>> ELSE SendUpdate(x)
      members == SetToSeq(Members(rows, m))
      about   == FlattenSeq([i \in DOMAIN members |-> each(members[i])])
  IN /\ rows[m].there
     /\ IF deleteChildren
        THEN Start(q, rows, {}, about \o <<Task("remove", m), Task("gone", m)>>)
        ELSE Start(q, [x \in Mons |-> IF x \in Members(rows, m) THEN [rows[x] EXCEPT !.parent = NoMon] ELSE rows[x]],
                   Members(rows, m), about \o <<Task("remove", m), Task("gone", m)>>)
     /\ UNCHANGED mirror

Settled ==
  /\ online /\ wire = <<>>
  /\ \A s \in Sockets : login[s].step \notin {"read", "send"}
  /\ login[Current].step = "done"
  /\ \A q \in Requests : req[q] = <<>>

\* onDrop(): the copy of the list with another parent is shown at once and sent as an edit.  The
\* server may refuse it, or fail before or after it has stored the row; the answer then brings
\* back the parent the copy had.
Drag(q, m, p) ==
  LET refuse == [Task("refuse", m) EXCEPT !.json = [parent |-> mirror[m].parent]] IN
  /\ online /\ mirror[m].there /\ mirror[p].there /\ m # p
  /\ \/ /\ rows[m].there /\ MayBeParent(m, p)
        /\ Start(q, [rows EXCEPT ![m].parent = p, ![m].conf = mirror[m].conf], {m},
                 Relist(m, mirror[m].list) \o SendUpdate(m) \o <<refuse>>)
     \/ Start(q, rows, {}, <<refuse>>)
  /\ mirror' = [mirror EXCEPT ![m].parent = p]

\* A message about m with json in it is sent.
Told(m, json) ==
  IF online THEN /\ untold' = untold \ {m}
                 /\ late' = IF json = Json(rows, m) THEN late \ {m} ELSE late \cup {m}
  ELSE UNCHANGED <<untold, late>>

\* The monitors in out are deleted, and who had one as a parent has none.
Without(out) ==
  [x \in Mons |-> IF x \in out THEN Gone
                  ELSE IF rows[x].there /\ rows[x].parent \in out THEN [rows[x] EXCEPT !.parent = NoMon]
                  ELSE rows[x]]

\* The answer is sent last, and only if something failed.
Answer(todo)     == SelectSeq(todo, LAMBDA task : task.do = "refuse")
Unanswered(todo) == SelectSeq(todo, LAMBDA task : task.do # "refuse")

\* A query fails: the handler goes on with its answer.  Of a group that was to be deleted with
\* all below it, those deleted so far stay deleted, the deepest first.
Fail(q) ==
  LET task == Head(req[q]) IN
  /\ req[q] # <<>> /\ task.do \in Queries
  /\ \E out \in IF task.do = "wipe" THEN SUBSET Under(rows, task.mon) ELSE {{}} :
       /\ \A x \in out : Under(rows, x) \subseteq out
       /\ rows' = Without(out)
       /\ untold' = untold \cup Sent(req[q]) \cup {x \in Mons : Json(rows', x) # Json(rows, x)}
  /\ req' = [req EXCEPT ![q] = Answer(@)]
  /\ UNCHANGED <<mirror, online, wire, login, requests, drops, late>>

\* The next thing a handler does.
Work(q) ==
  LET task == Head(req[q])
      m    == task.mon
      rest == Tail(req[q])
  IN /\ req[q] # <<>>
     /\ CASE task.do \in {"wipe", "remove"} ->  \* deleteMonitorRecursively(), deleteMonitor()
               /\ Change(Without({m} \cup (IF task.do = "wipe" THEN Under(rows, m) ELSE {})), {m})
               /\ req' = [req EXCEPT ![q] = rest]
               /\ UNCHANGED <<wire, late>>
          [] task.do \in {"clear", "fill", "apply"} ->  \* no link to a monitor that is gone
               /\ rows[m].there \/ task.json.list = 0
               /\ IF rows[m].there
                  THEN Change([rows EXCEPT ![m].list = task.json.list], IF task.do = "apply" THEN {} ELSE {m})
                  ELSE UNCHANGED <<rows, untold>>
               /\ req' = [req EXCEPT ![q] = rest]
               /\ UNCHANGED <<wire, late>>
          [] task.do = "unlink" ->              \* unlinkAllChildren()
               /\ Change([x \in Mons |-> IF rows[x].there /\ rows[x].parent = m
                                         THEN [rows[x] EXCEPT !.parent = NoMon] ELSE rows[x]], {})
               /\ req' = [req EXCEPT ![q] = rest]
               /\ UNCHANGED <<wire, late>>
          [] task.do = "gone" ->                \* sendDeleteMonitorFromList()
               /\ Send([event |-> "deleteMonitorFromList", mon |-> m])
               /\ Told(m, Gone)
               /\ req' = [req EXCEPT ![q] = rest]
               /\ UNCHANGED rows
          [] task.do = "refuse" ->              \* the answer to a drag
               /\ Send([event |-> "refused", mon |-> m, parent |-> task.json.parent])
               /\ late' = IF online /\ rows[m].there /\ rows[m].parent # task.json.parent THEN late \cup {m} ELSE late
               /\ req' = [req EXCEPT ![q] = rest]
               /\ UNCHANGED <<rows, untold>>
          [] task.do = "read" ->                \* sendUpdateMonitorIntoList(): the queries ...
               /\ req' = [req EXCEPT ![q] = <<[Head(rest) EXCEPT !.json = Json(rows, m)]>> \o Tail(rest)]
               /\ UNCHANGED <<rows, wire, untold, late>>
          [] task.do = "tell" ->                \* ... and the message, if there is such a monitor
               /\ IF task.json = Gone THEN UNCHANGED <<wire, untold, late>>
                  ELSE Send([event |-> "updateMonitorIntoList", mon |-> m, json |-> task.json]) /\ Told(m, task.json)
               /\ req' = [req EXCEPT ![q] = Unanswered(rest)]
               /\ UNCHANGED rows
     /\ UNCHANGED <<mirror, online, login, requests, drops>>

-----------------------------------------------------------------------------
(* The browser *)

\* mutant: a list adds to the one there is
Deliver_Merges ==
  /\ wire # <<>> /\ wire' = Tail(wire)
  /\ LET msg == Head(wire) IN
     mirror' = CASE msg.event = "monitorList"           -> [m \in Mons |-> IF msg.list[m].there THEN msg.list[m] ELSE mirror[m]]
                 [] msg.event = "updateMonitorIntoList" -> [mirror EXCEPT ![msg.mon] = msg.json]
                 [] msg.event = "deleteMonitorFromList" -> [mirror EXCEPT ![msg.mon] = Gone]
                 [] msg.event = "refused"               -> IF mirror[msg.mon].there THEN [mirror EXCEPT ![msg.mon].parent = msg.parent] ELSE mirror
  /\ UNCHANGED <<rows, online, login, req, requests, drops, untold, late>>

Deliver ==
  /\ wire # <<>> /\ wire' = Tail(wire)
  /\ LET msg == Head(wire) IN
     mirror' = CASE msg.event = "monitorList"           -> msg.list
                 [] msg.event = "updateMonitorIntoList" -> [mirror EXCEPT ![msg.mon] = msg.json]
                 [] msg.event = "deleteMonitorFromList" -> [mirror EXCEPT ![msg.mon] = Gone]
                 [] msg.event = "refused"               -> IF mirror[msg.mon].there THEN [mirror EXCEPT ![msg.mon].parent = msg.parent] ELSE mirror
  /\ UNCHANGED <<rows, online, login, req, requests, drops, untold, late>>

Next ==
  \/ Connect \/ Disconnect \/ Deliver
  \/ \E s \in Sockets : ReadList(s) \/ SendList(s)
  \/ \E q \in Requests :
       \/ Work(q) \/ Fail(q)
       \/ \E ms \in SUBSET Mons : Apply(q, ms)
       \/ \E m \in Mons :
            \/ Switch(q, m)
            \/ \E deep \in BOOLEAN : Delete(q, m, deep)
            \/ \E p \in Mons : Drag(q, m, p)
            \/ \E p \in Mons \cup {NoMon} : Add(q, m, p) \/ \E ungroup \in BOOLEAN : Edit(q, m, p, ungroup)

Spec == Init /\ [][Next]_mvars

-----------------------------------------------------------------------------
(* Properties *)

\* When nothing is under way, a connected browser shows every monitor as it is, so that a drag,
\* which sends what is shown back as an edit, takes nothing back.  Two kinds of monitors are
\* excepted.  The one was not sent since it changed: it changed with another monitor, or with a
\* notification that was applied to it or deleted, or the handler that changed it failed before
\* it could send it.  The other was sent, or brought back by the answer to a drag, as it had been
\* before a change.
MirrorFollows ==
  Settled => \A m \in Mons \ (untold \cup late) : mirror[m] = Json(rows, m)

=============================================================================
