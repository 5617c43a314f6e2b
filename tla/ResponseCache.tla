----------------------------- MODULE ResponseCache -----------------------------
(***************************************************************************)
(* The cache in front of the public routes (server/modules/apicache) and the *)
(* code that empties it when what the routes show has changed.                *)
(*                                                                           *)
(* Emptying is all or nothing: `clear()` without a key.  A change is visible   *)
(* at once if it is stored first and the cache emptied then.  Heartbeats do     *)
(* the two in the other order, incidents and new status pages empty nothing,   *)
(* and a save that fails half way does not get to it.  What remains is that     *)
(* no answer is kept longer than its duration.                                 *)
(***************************************************************************)
EXTENDS Naturals, FiniteSets

CONSTANTS
  Urls,        \* keys of the cache: a route with its parameters
  Visitors,    \* requests that may be in progress at once
  Changers,    \* heartbeats and socket events that may be in progress at once
  Duration,    \* how long an answer is kept, in ticks
  MaxVersions, \* bound: changes stored
  NoEntry

\* What an instance has to satisfy.
CacheAssumption == Duration \in Nat \ {0} /\ MaxVersions \in Nat

VARIABLES
  stored,   \* version of the data
  made,     \* history: of a version, what kind of change made it
  entry,    \* memCache.cache: of a URL, the version answered and the time left
  strays,   \* timers whose entry was replaced or removed: where they are kept, time left
  visit,    \* of a request: its step, its URL, the version it read
  change,   \* of a handler: its step, the version it found
  served    \* history: of a URL, the version last sent, and whether it was late

cvars == <<stored, made, entry, strays, visit, change, served>>

\* What is changed: a beat of a monitor; something whose handler empties the cache at its end;
\* something whose handler does not.
Kinds == {"beat", "clearing", "silent"}
Versions == 0..MaxVersions
NoVisit  == [step |-> "idle", url |-> NoEntry, version |-> 0, late |-> FALSE]
NoChange == [step |-> "idle", from |-> 0]

TypeOK ==
  /\ stored \in Versions
  /\ made \in [1..stored -> Kinds \cup {"failed"}]
  /\ entry \in [Urls -> {NoEntry} \cup [version : 0..stored, left : 0..Duration, late : BOOLEAN]]
  /\ strays \in [Urls -> SUBSET ({"memory", "index"} \X (0..Duration))]
  /\ visit \in [Visitors -> [step : {"idle", "read", "end"}, url : Urls \cup {NoEntry},
                             version : 0..stored, late : BOOLEAN]]
  /\ \A v \in Visitors : visit[v].step # "idle" => visit[v].url \in Urls
  /\ change \in [Changers -> [step : {"idle", "store", "clear"}, from : 0..stored]]
  /\ served \in [Urls -> [version : 0..stored, late : BOOLEAN]]

Init ==
  /\ stored = 0 /\ made = <<>>
  /\ entry = [u \in Urls |-> NoEntry]
  /\ strays = [u \in Urls |-> {}]
  /\ visit = [v \in Visitors |-> NoVisit]
  /\ change = [w \in Changers |-> NoChange]
  /\ served = [u \in Urls |-> [version |-> 0, late |-> FALSE]]

-----------------------------------------------------------------------------
(* A request *)

\* mutant: a hit renews the entry
Kept_Renewed(e) == [e EXCEPT !.left = Duration]

\* What a hit leaves of the entry.
Kept(e) == e

Hit(v, u) ==
  /\ visit[v].step = "idle" /\ entry[u] # NoEntry
  /\ entry' = [entry EXCEPT ![u] = Kept(@)]
  /\ served' = [served EXCEPT ![u] = [version |-> entry[u].version, late |-> entry[u].late]]
  /\ UNCHANGED <<stored, made, strays, visit, change>>

\* makeResponseCacheable(): the handler runs; nothing keeps a second request from doing the same.
Miss(v, u) ==
  /\ visit[v].step = "idle" /\ entry[u] = NoEntry
  /\ visit' = [visit EXCEPT ![v] = [NoVisit EXCEPT !.step = "read", !.url = u]]
  /\ UNCHANGED <<stored, made, entry, strays, change, served>>

\* The queries of the route.
Read(v) ==
  /\ visit[v].step = "read"
  /\ visit' = [visit EXCEPT ![v].step = "end", ![v].version = stored]
  /\ UNCHANGED <<stored, made, entry, strays, change, served>>

\* The timers of an entry that is overwritten go on.
Orphans(u) == IF entry[u] = NoEntry THEN {} ELSE {"memory", "index"} \X {entry[u].left}

\* mutant: an answer does not replace one that came meanwhile
End_FirstStays(v) ==
  LET u == visit[v].url
  IN /\ visit[v].step = "end"
     /\ entry' = [entry EXCEPT ![u] =
          IF @ # NoEntry THEN @
          ELSE [version |-> visit[v].version, left |-> Duration, late |-> visit[v].late]]
     /\ served' = [served EXCEPT ![u] = [version |-> visit[v].version, late |-> visit[v].late]]
     /\ visit' = [visit EXCEPT ![v] = NoVisit]
     /\ UNCHANGED <<stored, made, strays, change>>

\* res.end(): every answer is kept, errors as well, over one that came meanwhile.
End(v) ==
  LET u == visit[v].url
  IN /\ visit[v].step = "end"
     /\ entry' = [entry EXCEPT ![u] =
          [version |-> visit[v].version, left |-> Duration, late |-> visit[v].late]]
     /\ strays' = [strays EXCEPT ![u] = @ \cup Orphans(u)]
     /\ served' = [served EXCEPT ![u] = [version |-> visit[v].version, late |-> visit[v].late]]
     /\ visit' = [visit EXCEPT ![v] = NoVisit]
     /\ UNCHANGED <<stored, made, change>>

-----------------------------------------------------------------------------
(* Timers *)

\* mutant: the timer is set for one tick more
Due_OneTickMore == {u \in Urls : entry[u] # NoEntry /\ entry[u].left < 0}

Due == {u \in Urls : entry[u] # NoEntry /\ entry[u].left = 0}

Expire(u) ==
  /\ u \in Due
  /\ entry' = [entry EXCEPT ![u] = NoEntry]
  /\ UNCHANGED <<stored, made, strays, visit, change, served>>

\* A timer of an entry that is gone removes the entry there is.  memCache's stops that entry's
\* own timer in memCache, apicache's the newer one of its own.
StrayFires(u) ==
  \E s \in strays[u] :
    /\ s[2] = 0
    /\ entry' = [entry EXCEPT ![u] = NoEntry]
    /\ strays' = [strays EXCEPT ![u] =
         (@ \ {s}) \cup IF s[1] = "memory" /\ entry[u] # NoEntry /\ entry[u].left > 0
                        THEN {<<"index", entry[u].left>>} ELSE {}]
    /\ UNCHANGED <<stored, made, visit, change, served>>

Elapse ==
  /\ Due = {} /\ \A u \in Urls : \A s \in strays[u] : s[2] > 0
  /\ \E u \in Urls : entry[u] # NoEntry \/ strays[u] # {}
  /\ entry' = [u \in Urls |-> IF entry[u] = NoEntry THEN NoEntry ELSE [entry[u] EXCEPT !.left = @ - 1]]
  /\ strays' = [u \in Urls |-> {<<s[1], s[2] - 1>> : s \in strays[u]}]
  /\ UNCHANGED <<stored, made, visit, change, served>>

-----------------------------------------------------------------------------
(* Changes *)

\* memCache.clear() and resetIndex(): the timers in `timers` go on.
ClearAll ==
  /\ entry' = [u \in Urls |-> NoEntry]
  /\ strays' = [u \in Urls |-> strays[u] \cup
                  IF entry[u] = NoEntry THEN {} ELSE {<<"index", entry[u].left>>}]

\* A read that a store overtakes is outdated.
StoreVersion(kind) ==
  /\ stored < MaxVersions
  /\ stored' = stored + 1
  /\ made' = [n \in 1..(stored + 1) |-> IF n = stored + 1 THEN kind ELSE made[n]]
  /\ visit' = [v \in Visitors |-> IF visit[v].step = "end" THEN [visit[v] EXCEPT !.late = TRUE]
                                  ELSE visit[v]]

\* Monitor.beat(): an important beat empties the cache, alerts, and is stored later.
BeginBeat(w) ==
  /\ change[w].step = "idle" /\ stored < MaxVersions
  /\ ClearAll
  /\ change' = [change EXCEPT ![w] = [step |-> "store", from |-> stored]]
  /\ UNCHANGED <<stored, made, visit, served>>

StoreBeat(w) ==
  /\ change[w].step = "store"
  /\ StoreVersion("beat")
  /\ change' = [change EXCEPT ![w] = NoChange]
  /\ UNCHANGED <<entry, strays, served>>

\* mutant: the handlers empty the cache first
StoreChange_ClearsFirst(w) ==
  /\ \/ /\ change[w].step = "idle" /\ ClearAll
        /\ change' = [change EXCEPT ![w] = [step |-> "clear", from |-> stored]]
        /\ UNCHANGED <<stored, made, visit>>
     \/ /\ change[w].step = "clear" /\ StoreVersion("clearing")
        /\ change' = [change EXCEPT ![w] = NoChange]
        /\ UNCHANGED <<entry, strays>>
  /\ UNCHANGED served

\* saveStatusPage, deleteStatusPage, deleteMonitor, the API key handlers, deleting, pausing and
\* resuming a maintenance, its links to monitors and status pages, and the start of a single
\* maintenance (maintenance.js:237): one store after the other, then the cache.
StoreChange(w) ==
  /\ change[w].step \in {"idle", "clear"}
  /\ StoreVersion("clearing")
  /\ change' = [change EXCEPT ![w] = [step |-> "clear", from |-> IF @.step = "idle" THEN stored ELSE @.from]]
  /\ UNCHANGED <<entry, strays, served>>

ClearChange(w) ==
  /\ change[w].step = "clear"
  /\ ClearAll
  /\ change' = [change EXCEPT ![w] = NoChange]
  /\ UNCHANGED <<stored, made, visit, served>>

\* A later store fails: the handler answers with the error and leaves the cache as it is.
ChangeFails(w) ==
  /\ change[w].step = "clear"
  /\ made' = [n \in 1..stored |-> IF made[n] = "clearing" /\ n > change[w].from THEN "failed" ELSE made[n]]
  /\ change' = [change EXCEPT ![w] = NoChange]
  /\ UNCHANGED <<stored, entry, strays, visit, served>>

\* postIncident, unpinIncident, editIncident, deleteIncident, resolveIncident, addStatusPage,
\* addMaintenance, editMaintenance, and the starts and ends of recurring maintenances.
SilentChange ==
  /\ StoreVersion("silent")
  /\ UNCHANGED <<entry, strays, change, served>>

Next ==
  \/ \E v \in Visitors : (\E u \in Urls : Hit(v, u) \/ Miss(v, u)) \/ Read(v) \/ End(v)
  \/ \E u \in Urls : Expire(u) \/ StrayFires(u)
  \/ Elapse
  \/ \E w \in Changers : BeginBeat(w) \/ StoreBeat(w) \/ StoreChange(w) \/ ClearChange(w) \/ ChangeFails(w)
  \/ SilentChange

\* Time passes and timers fire.
Tick == Elapse \/ \E u \in Urls : Expire(u) \/ StrayFires(u)
Fairness == WF_cvars(Tick)

Spec == Init /\ [][Next]_cvars /\ Fairness

-----------------------------------------------------------------------------
(* Properties *)

Stale(u) == entry[u] # NoEntry /\ entry[u].version < stored

\* An answer in the cache that the data has outrun was read before a store that overtook it, or
\* everything it lacks was stored without emptying the cache: by a beat that had emptied it
\* before, by a handler that never does, by one that failed, or by one that is about to.
StaleAnswerHasAReason ==
  \A u \in Urls : Stale(u) =>
    \/ entry[u].late
    \/ \A n \in (entry[u].version + 1)..stored :
         \/ made[n] # "clearing"
         \/ \E w \in Changers : change[w].step = "clear" /\ n > change[w].from

\* No visitor is sent an older version of a page than the one sent before, but for an answer
\* that a store overtook on its way.
AnswersGoForward ==
  [][\A u \in Urls : served'[u].version < served[u].version => served'[u].late]_cvars

\* An outdated answer does not stay, however often it is asked for.
StaleAnswerEnds == \A u \in Urls : Stale(u) ~> ~Stale(u)

===============================================================================
