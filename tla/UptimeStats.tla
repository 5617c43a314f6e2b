------------------------------ MODULE UptimeStats ------------------------------
(***************************************************************************)
(* The uptime statistics of one monitor (server/uptime-calculator.js): an    *)
(* UptimeCalculator in memory, shared by everyone who asks for it, and the    *)
(* tables stat_minutely, stat_hourly and stat_daily it is loaded from and     *)
(* written to.  A bucket is reduced to the number of heartbeats it counts.    *)
(*                                                                           *)
(* Recorders store heartbeats (beat() of an instance, a push request) and     *)
(* update the statistics first; readers (badges, charts, sendStats) only      *)
(* read.  What JavaScript does between two awaits is one step; a query and     *)
(* the code that runs with its answer are one step too.                        *)
(***************************************************************************)
EXTENDS Integers, SequencesExt

CONSTANTS
  Recorders, Readers,
  Calcs,        \* UptimeCalculator objects that may come to exist
  Limit,        \* [Grains -> Nat]: buckets a list holds: 1440, 720, 365
  HourLen,      \* minutes in an hour
  DayLen,       \* minutes in a day
  Hasty,        \* TRUE: a calculator may be asked for while it is being loaded
  Clearing,     \* TRUE: statistics may be cleared
  MaxClock, MaxBeats, MaxCrashes,   \* bounds
  None

Grains == {"minute", "hour", "day"}

\* What an instance has to satisfy.
StatsAssumption ==
  /\ Limit \in [Grains -> Nat \ {0}]
  /\ HourLen \in Nat \ {0} /\ DayLen \in Nat \ {0}
  /\ Hasty \in BOOLEAN /\ Clearing \in BOOLEAN
  /\ MaxClock \in Nat /\ MaxBeats \in Nat /\ MaxCrashes \in Nat
  /\ Recorders \cap Readers = {}
  /\ None \notin Calcs /\ None \notin Nat

VARIABLES
  clock,     \* the current minute
  list,      \* UptimeCalculator.list[monitorID]
  heap,      \* [Calcs -> [Grains -> list of buckets]]
  rows,      \* [Grains -> [keys -> row]]: the stat tables
  beats,     \* [Grains -> [keys -> Nat]]: rows of the heartbeat table by minute, hour and day
  job,       \* [Users -> job]: where a recorder or reader is
  clear,     \* progress of clearStatistics(), 0 when it is not running
  era,       \* [Grains -> Nat]: times a table was cleared; tells rows of one key apart
  crashes,
  counted,   \* history: as beats, heartbeats counted in memory
  recent,    \* history: those of them later than clearStatistics() or in flight then
  failed     \* history: an update has failed

vars == <<clock, list, heap, rows, beats, job, clear, era, crashes, counted, recent, failed>>

Users   == Recorders \cup Readers
Minutes == 0..MaxClock

LoadOrder  == <<"minute", "hour", "day">>   \* init()
StoreOrder == <<"day", "hour", "minute">>   \* update()
ClearOrder == <<"minute", "hour", "day">>   \* clearStatistics()

\* getMinutelyKey(), getHourlyKey(), getDailyKey() of a date, as indices.
Key(g, date) == CASE g = "minute" -> date
                  [] g = "hour"   -> date \div HourLen
                  [] g = "day"    -> date \div DayLen

KeysOf(g)      == {Key(g, t) : t \in Minutes}
Since(g, date) == Key(g, date) - Limit[g]

\* Heartbeats by minute, hour and day: none, and one more at date in some of the three.
Zero == [g \in Grains |-> [k \in KeysOf(g) |-> 0]]
Add(f, grains, date) ==
  [g \in Grains |-> IF g \in grains THEN [f[g] EXCEPT ![Key(g, date)] = @ + 1] ELSE f[g]]

NoKeys == [k \in {} |-> 0]

\* A LimitQueue with the last*StatBean that goes with it: what an UptimeCalculator has of minutes,
\* of hours and of days.  A bucket is an object and lives on when it has left its list.
Empty == [bucket |-> <<>>,   \* the heartbeats in each bucket made so far
          mem    |-> NoKeys, \* key -> its bucket
          stack  |-> <<>>,   \* __stack
          bean   |-> None]

Idle == [step |-> "idle", calc |-> None, at |-> 0, date |-> 0, current |-> 0,
         held |-> [g \in Grains |-> 0], bean |-> None, value |-> 0]

Without(f, ks) == [k \in (DOMAIN f) \ ks |-> f[k]]

\* mutant: the queue is cut one element early.
Push_OffByOne(l, g, key, n) ==
  LET stack == Append(l.stack, key)
      mem   == [k \in DOMAIN l.mem \cup {key} |-> IF k = key THEN Len(l.bucket) + 1 ELSE l.mem[k]]
      full  == Len(stack) >= Limit[g]
  IN [l EXCEPT !.bucket = Append(@, n),
               !.stack  = IF full THEN Tail(stack) ELSE stack,
               !.mem    = IF full THEN Without(mem, {Head(stack)}) ELSE mem]

\* LimitQueue.push(): the value replaces one with the same key, the key is appended
\* all the same, and the first key is dropped when there are too many.
Push(l, g, key, n) ==
  LET stack == Append(l.stack, key)
      mem   == [k \in DOMAIN l.mem \cup {key} |-> IF k = key THEN Len(l.bucket) + 1 ELSE l.mem[k]]
      full  == Len(stack) > Limit[g]
  IN [l EXCEPT !.bucket = Append(@, n),
               !.stack  = IF full THEN Tail(stack) ELSE stack,
               !.mem    = IF full THEN Without(mem, {Head(stack)}) ELSE mem]

\* mutant: the bucket of a key is created anew although it exists.
Ensure_Always(l, g, key) == Push(l, g, key, 0)

\* get*Key(date): the bucket is created if it is missing.
Ensure(l, g, key) == IF key \in DOMAIN l.mem THEN l ELSE Push(l, g, key, 0)

\* mutant: the rows are not pushed.
LoadRows_Skips(l, g, now) == l

\* mutant: the counts of a row are added to a bucket that is there already.
LoadRows_Adds(l, g, now) ==
  LET since == Since(g, now)
      pushed[k \in since..Key(g, clock)] ==
        IF k > since /\ k \in DOMAIN rows[g]
        THEN LET acc == pushed[k - 1] IN
             Push(acc, g, k, rows[g][k].n + IF k \in DOMAIN acc.mem THEN acc.bucket[acc.mem[k]] ELSE 0)
        ELSE IF k > since THEN pushed[k - 1] ELSE l
  IN pushed[Key(g, clock)]

\* init(), with the rows of one table: every row later than Since is pushed, in the order of time.
LoadRows(l, g, now) ==
  LET since == Since(g, now)
      pushed[k \in since..Key(g, clock)] ==
        IF k = since THEN l
        ELSE IF k \in DOMAIN rows[g] THEN Push(pushed[k - 1], g, k, rows[g][k].n)
        ELSE pushed[k - 1]
  IN pushed[Key(g, clock)]

\* update(), up to its first await: every list has a bucket of date, and each of them counts one
\* heartbeat more, minutes first.  A bucket that its list has just dropped again would be undefined
\* and end update() with a TypeError.
Ready(calc, date) == [g \in Grains |-> Ensure(calc[g], g, Key(g, date))]

Reached(ready, date) ==
  {g \in Grains : \A f \in Grains :
     f = "minute" \/ f = g \/ g = "day" => Key(f, date) \in DOMAIN ready[f].mem}

Increment(l, key) == [l EXCEPT !.bucket[l.mem[key]] = @ + 1]

\* The count of the bucket a recorder holds, which may have left the list since.
HeldCount(u, g) == heap[job[u].calc][g].bucket[job[u].held[g]]
-------------------------------------------------------------------------------
Init ==
  /\ clock = 0 /\ list = None
  /\ heap = [c \in Calcs |-> [g \in Grains |-> Empty]]
  /\ rows = [g \in Grains |-> NoKeys] /\ beats = Zero
  /\ job = [u \in Users |-> Idle]
  /\ clear = 0 /\ era = [g \in Grains |-> 0]
  /\ crashes = 0
  /\ counted = Zero /\ recent = Zero
  /\ failed = FALSE

Loading(c) == \E u \in Users : job[u].step = "load" /\ job[u].calc = c
InUse(c)   == c = list \/ \E u \in Users : job[u].calc = c

Unchanged(u) == UNCHANGED <<clock, beats, clear, era, crashes>>

\* What u does with the calculator it got from getUptimeCalculator(): a recorder
\* counts its heartbeat, a reader runs getData() on one list.  calc is the contents
\* of object c, not yet with the effect.
Use(u, c, calc) ==
  IF u \in Recorders
  THEN LET ready   == Ready(calc, clock)
           reached == Reached(ready, clock)
       IN
       /\ heap' = [heap EXCEPT ![c] =
            [g \in Grains |-> IF g \in reached THEN Increment(ready[g], Key(g, clock)) ELSE ready[g]]]
       /\ job' = [job EXCEPT ![u] =
            IF reached = Grains
            THEN [Idle EXCEPT !.step = "bean", !.calc = c, !.at = 1, !.date = clock, !.current = clock,
                              !.held = [g \in Grains |-> ready[g].mem[Key(g, clock)]]]
            ELSE Idle]
       /\ failed' = (failed \/ reached # Grains)
       /\ counted' = Add(counted, reached, clock)
       /\ recent' = Add(recent, reached, clock)
  ELSE /\ \E g \in Grains : heap' = [heap EXCEPT ![c] = [calc EXCEPT ![g] = Ensure(@, g, Key(g, clock))]]
       /\ job' = [job EXCEPT ![u] = Idle]
       /\ UNCHANGED <<counted, recent, failed>>

Allowed(u) == u \in Recorders => FoldSet(LAMBDA k, acc : acc + counted["minute"][k], 0, Minutes) < MaxBeats

\* getUptimeCalculator(): the monitor has a calculator, loaded or not.
Ask(u) ==
  /\ job[u].step = "idle" /\ Allowed(u)
  /\ list # None /\ (Loading(list) => Hasty)
  /\ Use(u, list, heap[list])
  /\ UNCHANGED <<list, rows>> /\ Unchanged(u)

\* getUptimeCalculator(): a new calculator is put on the list and its init() begins.  The key a
\* query starts from gets a bucket of its own.
AskFirst(u) ==
  /\ job[u].step = "idle" /\ Allowed(u)
  /\ list = None
  /\ \E c \in {x \in Calcs : ~InUse(x)} :
       /\ list' = c
       /\ heap' = [heap EXCEPT ![c] =
                     [g \in Grains |-> IF g = LoadOrder[1] THEN Ensure(Empty, g, Since(g, clock)) ELSE Empty]]
       /\ job' = [job EXCEPT ![u] = [Idle EXCEPT !.step = "load", !.calc = c, !.at = 1, !.date = clock]]
  /\ UNCHANGED <<rows, counted, recent, failed>> /\ Unchanged(u)

\* init(): the next list is loaded.  After the last one getUptimeCalculator() returns
\* what is on the list by then; when it has been removed the caller fails.
Load(u) ==
  LET j    == job[u]
      calc == [g \in Grains |->
                 IF g = LoadOrder[j.at] THEN LoadRows(heap[j.calc][g], g, j.date)
                 ELSE IF j.at < Len(LoadOrder) /\ g = LoadOrder[j.at + 1]
                 THEN Ensure(heap[j.calc][g], g, Since(g, j.date))
                 ELSE heap[j.calc][g]]
  IN
  /\ j.step = "load"
  /\ IF j.at < Len(LoadOrder)
     THEN /\ heap' = [heap EXCEPT ![j.calc] = calc]
          /\ job' = [job EXCEPT ![u].at = @ + 1]
          /\ UNCHANGED <<counted, recent, failed>>
     ELSE IF list = None
     THEN /\ heap' = [heap EXCEPT ![j.calc] = calc]
          /\ job' = [job EXCEPT ![u] = Idle]
          /\ UNCHANGED <<counted, recent, failed>>
     ELSE Use(u, list, IF list = j.calc THEN calc ELSE heap[list])
  /\ UNCHANGED <<list, rows>> /\ Unchanged(u)

Issue(u, bean) ==
  job' = [job EXCEPT ![u].step = "store", ![u].bean = bean,
                     ![u].value = HeldCount(u, StoreOrder[job[u].at])]

\* mutant: the bean stored last is taken whatever its timestamp.
GetBean_AnyKey(u) ==
  LET j == job[u]
      g == StoreOrder[j.at]
      k == Key(g, j.date)
      cached == heap[j.calc][g].bean
      found  == [key |-> k, by |-> u, row |-> IF k \in DOMAIN rows[g] THEN rows[g][k].row ELSE None]
  IN
  /\ j.step = "bean"
  /\ IF cached # None
     THEN Issue(u, cached) /\ UNCHANGED heap
     ELSE Issue(u, found) /\ heap' = [heap EXCEPT ![j.calc][g].bean = found]
  /\ UNCHANGED <<list, rows, counted, recent, failed>> /\ Unchanged(u)

\* getDailyStatBean() and its siblings: the cached bean if it has this timestamp, the
\* row's, or a new one; the bean found becomes the cached one.  Its fields are set and
\* R.store() is called.
GetBean(u) ==
  LET j == job[u]
      g == StoreOrder[j.at]
      k == Key(g, j.date)
      cached == heap[j.calc][g].bean
      found  == [key |-> k, by |-> u, row |-> IF k \in DOMAIN rows[g] THEN rows[g][k].row ELSE None]
  IN
  /\ j.step = "bean"
  /\ IF cached # None /\ cached.key = k
     THEN Issue(u, cached) /\ UNCHANGED heap
     ELSE Issue(u, found) /\ heap' = [heap EXCEPT ![j.calc][g].bean = found]
  /\ UNCHANGED <<list, rows, counted, recent, failed>> /\ Unchanged(u)

\* R.store(): a bean with a row updates that row, if it is still there; a new one is
\* inserted, which fails when there is a row of that monitor and timestamp.
StoreBean(u) ==
  LET j == job[u]
      g == StoreOrder[j.at]
      k == j.bean.key
      present == k \in DOMAIN rows[g]
      insert  == j.bean.row = None
      stored  == [j.bean EXCEPT !.row = era[g]]
      next    == IF j.at < Len(StoreOrder)
                 THEN [j EXCEPT !.step = "bean", !.at = @ + 1,
                                !.bean = None, !.current = IF j.at = 1 THEN clock ELSE @]
                 ELSE [j EXCEPT !.step = "expire", !.at = 1, !.bean = None]
  IN
  /\ j.step = "store"
  /\ IF insert /\ present
     THEN /\ job' = [job EXCEPT ![u] = Idle]
          /\ failed' = TRUE
          /\ UNCHANGED <<rows, heap>>
     ELSE /\ rows' = IF insert \/ (present /\ rows[g][k].row = j.bean.row)
                     THEN [rows EXCEPT ![g] =
                             [x \in DOMAIN @ \cup {k} |->
                                IF x # k THEN @[x]
                                ELSE [row |-> IF insert THEN era[g] ELSE j.bean.row, n |-> j.value]]]
                     ELSE rows
          /\ heap' = IF insert /\ heap[j.calc][g].bean = j.bean
                     THEN [heap EXCEPT ![j.calc][g].bean = stored] ELSE heap
          /\ job' = [job EXCEPT ![u] = next]
          /\ UNCHANGED failed
  /\ UNCHANGED <<clock, list, beats, clear, era, crashes, counted, recent>>

\* update(): rows that have left the window are deleted, minutes then hours.
Expire(u) ==
  LET j == job[u]
      g == <<"minute", "hour">>[j.at]
  IN
  /\ j.step = "expire"
  /\ rows' = [rows EXCEPT ![g] = Without(@, {k \in DOMAIN @ : k < Since(g, j.current)})]
  /\ job' = [job EXCEPT ![u] = IF j.at = 1 THEN [j EXCEPT !.at = 2] ELSE [j EXCEPT !.step = "beat"]]
  /\ UNCHANGED <<list, heap, counted, recent, failed>> /\ Unchanged(u)

\* The caller of update() stores its heartbeat.
StoreBeat(u) ==
  /\ job[u].step = "beat"
  /\ beats' = Add(beats, Grains, job[u].date)
  /\ job' = [job EXCEPT ![u] = Idle]
  /\ UNCHANGED <<clock, list, heap, rows, clear, era, crashes, counted, recent, failed>>

\* clearStatistics(): heartbeats, the three tables, then the calculator.
BeginClear ==
  /\ Clearing /\ clear = 0 /\ era["day"] = 0
  /\ clear' = 1
  /\ beats' = Zero
  /\ recent' = [g \in Grains |-> [k \in KeysOf(g) |-> Cardinality({u \in Recorders :
                    job[u].step \in {"bean", "store", "expire", "beat"} /\ Key(g, job[u].date) = k})]]
  /\ UNCHANGED <<clock, list, heap, rows, job, era, crashes, counted, failed>>

ClearNext ==
  /\ clear > 0
  /\ LET g == ClearOrder[clear] IN
     /\ rows' = [rows EXCEPT ![g] = NoKeys]
     /\ era' = [era EXCEPT ![g] = @ + 1]
  /\ IF clear < Len(ClearOrder) THEN clear' = clear + 1 /\ UNCHANGED list
                                ELSE clear' = 0 /\ list' = None
  /\ UNCHANGED <<clock, heap, beats, job, crashes, counted, recent, failed>>

\* Time passes.  A heartbeat is recorded before its bucket leaves the window.
Tick ==
  /\ clock < MaxClock
  /\ \A u \in Users : job[u].step # "idle" => clock - job[u].date + 1 < Limit["minute"]
  /\ clock' = clock + 1
  /\ UNCHANGED <<list, heap, rows, beats, job, clear, era, crashes, counted, recent, failed>>

\* The process is killed and starts again.
Crash ==
  /\ crashes < MaxCrashes
  /\ crashes' = crashes + 1
  /\ list' = None
  /\ heap' = [c \in Calcs |-> [g \in Grains |-> Empty]]
  /\ job' = [u \in Users |-> Idle]
  /\ clear' = 0
  /\ UNCHANGED <<clock, rows, beats, era, counted, recent, failed>>

Next ==
  \/ \E u \in Users : \/ Ask(u) \/ AskFirst(u) \/ Load(u)
                      \/ GetBean(u) \/ StoreBean(u) \/ Expire(u) \/ StoreBeat(u)
  \/ BeginClear \/ ClearNext
  \/ Tick \/ Crash

Spec == Init /\ [][Next]_vars
-------------------------------------------------------------------------------
(* Properties *)

InWindow(g, k) == k > Since(g, clock)
Stored(g, k)   == IF k \in DOMAIN rows[g] THEN rows[g][k].n ELSE 0
InBucket(l, k) == IF k \in DOMAIN l.mem THEN l.bucket[l.mem[k]] ELSE 0

\* The lists keep within their limits and hold every key once (LimitQueue.push).
TypeOK ==
  /\ clock \in Minutes
  /\ list \in Calcs \cup {None}
  /\ \A c \in Calcs, g \in Grains :
       /\ Len(heap[c][g].stack) <= Limit[g]
       /\ ToSet(heap[c][g].stack) = DOMAIN heap[c][g].mem
       /\ IsInjective(heap[c][g].stack)
  /\ \A u \in Users : job[u].step \in {"idle", "load", "bean", "store", "expire", "beat"}
  /\ clear \in 0..Len(ClearOrder)
  /\ failed \in BOOLEAN

\* Every heartbeat in the heartbeat table is counted in the statistics of its minute,
\* its hour and its day while they are kept, wherever the process died.
BeatsAreCounted ==
  \A g \in Grains : \A k \in KeysOf(g) : InWindow(g, k) => beats[g][k] <= Stored(g, k)

\* Unless tables are cleared, a step makes no count of a period that is kept smaller.
NoCountShrinks ==
  era' = era => \A g \in Grains : \A k \in KeysOf(g) :
                  InWindow(g, k) => Stored(g, k)' >= Stored(g, k)

\* The statistics of a minute, an hour or a day never go down (init() restores what
\* update() stored) except when they are cleared or expire.
StatsNeverShrink == [][NoCountShrinks]_vars

\* With nobody at work the calculator's window holds what the tables hold, so that
\* uptimes read from memory are those a restart would show.
MemoryMatchesStore ==
  list # None /\ ~failed /\ (\A u \in Users : job[u].step = "idle") =>
    \A g \in Grains : \A k \in KeysOf(g) : InWindow(g, k) => InBucket(heap[list][g], k) = Stored(g, k)

\* However calculators, requests and clearing overlap, no heartbeat is counted twice in
\* the tables.
NothingCountedTwice ==
  \A g \in Grains : \A k \in KeysOf(g) : Stored(g, k) <= counted[g][k]

\* "Initializes and returns the monitor if it does not exist" (getUptimeCalculator):
\* nobody counts on a calculator whose lists are still being loaded.
NoUseBeforeInit ==
  \A u \in Users : job[u].step \in {"bean", "store"} => ~Loading(job[u].calc)

\* "@throws {Error} Invalid status" is the only error update() documents.
UpdateNeverFails == ~failed

\* One recorder, calculators used only when they are loaded, nothing cleared.
InTurn == ~Hasty /\ ~Clearing /\ \A r, s \in Recorders : r = s

\* What holds of the counts: nothing is counted twice; in turn, what is stored is counted, memory
\* and tables agree and no update fails.
StatsAgree ==
  /\ NothingCountedTwice
  /\ InTurn => BeatsAreCounted /\ MemoryMatchesStore /\ UpdateNeverFails

\* "Clear all statistics and heartbeats for a monitor": afterwards the tables count
\* no heartbeat that had been stored when it was called.
ClearedStaysCleared ==
  clear = 0 /\ era["day"] > 0 =>
    \A g \in Grains : \A k \in KeysOf(g) : Stored(g, k) <= recent[g][k]
===============================================================================
