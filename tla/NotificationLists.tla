--------------------------- MODULE NotificationLists ---------------------------
(***************************************************************************)
(* Which notifications a monitor alerts: the table monitor_notification, as *)
(* add and editMonitor (updateMonitorNotification, server/server.js),        *)
(* addNotification with "apply on all existing monitors", deleteNotification *)
(* (server/notification.js) write it and every alert reads it.               *)
(*                                                                           *)
(* No constraint keeps a pair from being inserted twice, and no transaction  *)
(* holds the queries of a request together.                                  *)
(***************************************************************************)
EXTENDS Naturals, Sequences, FiniteSets

CONSTANTS
  Mons,          \* monitors
  Notes,         \* notifications, existing or yet to be added
  Events,        \* socket events that may be in progress at the same time
  SameMonitor,   \* TRUE: requests for the same monitor may overlap
  MaxListOps,    \* bound: requests made
  MaxListCrashes

\* What an instance has to satisfy.
ListAssumption ==
  SameMonitor \in BOOLEAN /\ MaxListOps \in Nat /\ MaxListCrashes \in Nat

VARIABLES
  notes,    \* the notification table
  spent,    \* ids of notifications given so far
  links,    \* monitor_notification: the rows <<monitor, notification>>, once or twice each
  event,    \* what a handler is at
  listOps, listCrashes,
  wanted,   \* history variable: the list last asked for
  cut       \* history variable: pairs a crash or a deletion kept from being inserted

lvars == <<notes, spent, links, event, listOps, listCrashes, wanted, cut>>

Pairs == Mons \X Notes
Rest  == [op |-> "none", step |-> "idle", mons |-> {}, list |-> {}, todo |-> {}]

TypeOK ==
  /\ notes \subseteq spent /\ spent \subseteq Notes
  /\ links \in [Pairs -> 0..2]
  /\ \A p \in Pairs : links[p] > 0 => p[2] \in notes
  /\ event \in [Events -> [op : {"none", "save", "add", "apply", "delete"},
                          step : {"idle", "clear", "insert", "store", "read", "look", "link", "done"},
                          mons : SUBSET Mons, list : SUBSET Notes, todo : SUBSET Pairs]]
  /\ wanted \in [Mons -> SUBSET Notes] /\ cut \subseteq Pairs
  /\ listOps \in 0..MaxListOps /\ listCrashes \in 0..MaxListCrashes

Init ==
  /\ \E first \in Notes : notes = {first} /\ spent = {first}
  /\ links = [p \in Pairs |-> 0]
  /\ event = [e \in Events |-> Rest]
  /\ listOps = 0 /\ listCrashes = 0
  /\ wanted = [m \in Mons |-> {}] /\ cut = {}

Busy(m) == \E e \in Events : m \in event[e].mons

Begin(e, record) ==
  /\ event[e].step = "idle" /\ listOps < MaxListOps
  /\ SameMonitor \/ \A m \in record.mons : ~Busy(m)
  /\ listOps' = listOps + 1
  /\ event' = [event EXCEPT ![e] = record]

Done(e) ==
  /\ event[e].step = "done"
  /\ event' = [event EXCEPT ![e] = Rest]
  /\ UNCHANGED <<notes, spent, links, listOps, listCrashes, wanted, cut>>

-----------------------------------------------------------------------------
(* updateMonitorNotification() *)

BeginSave(e, m, list) ==
  /\ list \subseteq notes
  /\ Begin(e, [op |-> "save", step |-> "clear", mons |-> {m}, list |-> list, todo |-> {}])
  /\ UNCHANGED <<notes, spent, links, listCrashes, wanted, cut>>

\* mutant: what the monitor had stays
Clear_Keeps(e) ==
  /\ event[e].step = "clear"
  /\ event' = [event EXCEPT ![e].step = "insert", ![e].todo = event[e].mons \X event[e].list]
  /\ wanted' = [m \in Mons |-> IF m \in event[e].mons THEN event[e].list ELSE wanted[m]]
  /\ cut' = {p \in cut : p[1] \notin event[e].mons}
  /\ UNCHANGED <<notes, spent, links, listOps, listCrashes>>

\* The rows of the monitor are deleted.
Clear(e) ==
  /\ event[e].step = "clear"
  /\ links' = [p \in Pairs |-> IF p[1] \in event[e].mons THEN 0 ELSE links[p]]
  /\ event' = [event EXCEPT ![e].step = "insert", ![e].todo = event[e].mons \X event[e].list]
  /\ wanted' = [m \in Mons |-> IF m \in event[e].mons THEN event[e].list ELSE wanted[m]]
  /\ cut' = {p \in cut : p[1] \notin event[e].mons}
  /\ UNCHANGED <<notes, spent, listOps, listCrashes>>

\* One row after another.  A notification deleted meanwhile fails the foreign key, which ends
\* the request: the rest of the list is not inserted.
Insert(e) ==
  LET todo == event[e].todo
  IN /\ event[e].step = "insert"
     /\ \/ /\ todo = {}
           /\ event' = [event EXCEPT ![e].step = "done"]
           /\ UNCHANGED <<links, cut>>
        \/ \E p \in todo :
             IF p[2] \in notes
             THEN /\ links[p] < 2 /\ links' = [links EXCEPT ![p] = @ + 1]
                  /\ event' = [event EXCEPT ![e].todo = @ \ {p}]
                  /\ UNCHANGED cut
             ELSE /\ event' = [event EXCEPT ![e].step = "done", ![e].todo = {}]
                  /\ cut' = cut \cup todo
                  /\ UNCHANGED links
     /\ UNCHANGED <<notes, spent, listOps, listCrashes, wanted>>

-----------------------------------------------------------------------------
(* Notification.save() with applyExisting, Notification.delete() *)

BeginApply(e, n) ==
  /\ n \notin spent \/ n \in notes
  /\ Begin(e, [op |-> IF n \in notes THEN "apply" ELSE "add", step |-> "store", mons |-> Mons, list |-> {n}, todo |-> {}])
  /\ spent' = spent \cup {n}
  /\ UNCHANGED <<notes, links, listCrashes, wanted, cut>>

\* A new row, or the update of one that must be found.
StoreNote(e, n) ==
  /\ event[e].step = "store" /\ n \in event[e].list
  /\ IF event[e].op = "add" \/ n \in notes
     THEN /\ notes' = notes \cup {n}
          /\ event' = [event EXCEPT ![e].step = "look", ![e].todo = Mons \X {n}]
          /\ wanted' = [m \in Mons |-> wanted[m] \cup {n}]
     ELSE event' = [event EXCEPT ![e] = Rest] /\ UNCHANGED <<notes, wanted>>
  /\ UNCHANGED <<spent, links, listOps, listCrashes, cut>>

\* mutant: one monitor that has it ends the search
Look_OneForAll(e) ==
  LET todo == event[e].todo
  IN /\ event[e].step = "look"
     /\ event' = [event EXCEPT ![e] =
          IF todo = {} \/ \E p \in todo : links[p] > 0 THEN [@ EXCEPT !.step = "done", !.todo = {}]
          ELSE [@ EXCEPT !.step = "link"]]
     /\ UNCHANGED <<notes, spent, links, listOps, listCrashes, wanted, cut>>

\* applyNotificationEveryMonitor(): look whether the monitor has it ...
Look(e) ==
  LET todo == event[e].todo
  IN /\ event[e].step = "look"
     /\ event' = [event EXCEPT ![e] =
          IF todo = {} THEN [@ EXCEPT !.step = "done"]
          ELSE LET p == CHOOSE q \in todo : TRUE
               IN IF links[p] > 0 THEN [@ EXCEPT !.todo = todo \ {p}] ELSE [@ EXCEPT !.step = "link"]]
     /\ UNCHANGED <<notes, spent, links, listOps, listCrashes, wanted, cut>>

\* ... and insert it if not.
Link(e) ==
  LET p == CHOOSE q \in event[e].todo : TRUE
  IN /\ event[e].step = "link"
     /\ IF p[2] \in notes
        THEN /\ links[p] < 2 /\ links' = [links EXCEPT ![p] = @ + 1]
             /\ event' = [event EXCEPT ![e].step = "look", ![e].todo = @ \ {p}]
             /\ UNCHANGED cut
        ELSE /\ event' = [event EXCEPT ![e].step = "done", ![e].todo = {}]
             /\ cut' = cut \cup event[e].todo
             /\ UNCHANGED links
     /\ UNCHANGED <<notes, spent, listOps, listCrashes, wanted>>

BeginDelete(e, n) ==
  /\ n \in notes
  /\ Begin(e, [op |-> "delete", step |-> "read", mons |-> {}, list |-> {n}, todo |-> {}])
  /\ UNCHANGED <<notes, spent, links, listCrashes, wanted, cut>>

\* mutant: no foreign key
Trash_LeavesLinks(e) ==
  /\ event[e].step = "read"
  /\ notes' = notes \ event[e].list
  /\ event' = [event EXCEPT ![e].step = "done"]
  /\ UNCHANGED <<spent, links, listOps, listCrashes, wanted, cut>>

\* R.trash(): the rows of the notification go with it.
Trash(e) ==
  /\ event[e].step = "read"
  /\ notes' = notes \ event[e].list
  /\ links' = [p \in Pairs |-> IF p[2] \in event[e].list THEN 0 ELSE links[p]]
  /\ event' = [event EXCEPT ![e].step = "done"]
  /\ UNCHANGED <<spent, listOps, listCrashes, wanted, cut>>

Crash ==
  /\ listCrashes < MaxListCrashes /\ listCrashes' = listCrashes + 1
  /\ cut' = cut \cup UNION {event[e].todo : e \in Events}
  /\ event' = [e \in Events |-> Rest]
  /\ UNCHANGED <<notes, spent, links, listOps, wanted>>

Work(e) == \/ Clear(e) \/ Insert(e) \/ (\E n \in Notes : StoreNote(e, n)) \/ Look(e) \/ Link(e)
           \/ Trash(e) \/ Done(e)

Next ==
  \/ \E e \in Events :
       \/ \E m \in Mons, list \in SUBSET Notes : BeginSave(e, m, list)
       \/ \E n \in Notes : BeginApply(e, n) \/ BeginDelete(e, n)
       \/ Work(e)
  \/ Crash

Spec == Init /\ [][Next]_lvars

-----------------------------------------------------------------------------
(* Properties *)

\* No pair is stored twice, which would alert the destination twice, if requests for the same
\* monitor do not overlap.
NoDoubleLink == \A p \in Pairs : links[p] <= 1

\* A monitor nobody is working on alerts what was asked for last, by its form or by "apply on
\* all existing monitors", but for what was deleted, and what a deletion or a crash cut off.
ListAsWanted ==
  \A m \in Mons : ~Busy(m) =>
    LET has  == {n \in Notes : links[<<m, n>>] > 0}
        lost == {n \in Notes : <<m, n>> \in cut}
    IN /\ has \subseteq wanted[m] \cap notes
       /\ wanted[m] \cap notes \subseteq has \cup lost

=============================================================================
