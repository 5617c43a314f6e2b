----------------------------- MODULE SettingsCache -----------------------------
(***************************************************************************)
(* server/settings.js: the table `setting`, the cache in front of it and the *)
(* interval that cleans the cache.                                           *)
(*                                                                           *)
(* A get() that misses the cache queries the table and writes the answer     *)
(* into the cache when it comes; a set() stores and then drops the entry.    *)
(* Both await in between, so an answer can arrive after the drop.  What      *)
(* bounds the damage is the cleaner.                                         *)
(***************************************************************************)
EXTENDS Naturals, FiniteSets

CONSTANTS
  Keys,       \* names of settings
  ValueOf,    \* of a key: the values it may be given
  LegacyOf,   \* of a key: values an old version may have left, which are not JSON
  TypeOf,     \* of a key: the type every set() of it passes
  Readers,    \* get() calls that may be in progress at once
  Writers,    \* set() and setSettings() calls that may be in progress at once
  SlowQuery,  \* TRUE: a query may take longer than the interval of the cleaner
  DbFails,    \* TRUE: a query or a store may fail for a reason of the database
  MaxWrites,  \* bound: calls of set() and setSettings()
  Null        \* the value of a key without a row, the type of an untyped row, no reader

\* What an instance has to satisfy.
SettingsAssumption ==
  /\ SlowQuery \in BOOLEAN /\ DbFails \in BOOLEAN
  /\ MaxWrites \in Nat
  /\ TypeOf \in [Keys -> {"general", Null}]
  /\ \A k \in Keys : Null \notin ValueOf[k] \cup LegacyOf[k] /\ ValueOf[k] \cap LegacyOf[k] = {}
  /\ {Null, "detached"} \cap Readers = {} /\ Null # "detached"

VARIABLES
  setting,   \* the table: value, type and `row` (FALSE: there is no row)
  cacheList, \* what is cached: value, `ticks` of the cleaner outlived, `late`
  cacheCleaner, \* Null: not started; the reader whose get() started it; Detached later
  get,       \* of a reader: its step, its key, the value its query returned, `late`
  write,     \* of a writer: its step, its data, what is found and what is to store
  writes,    \* calls of set() and setSettings() so far
  shortfall  \* history: cached keys stored by a write that rejected

vars == <<setting, cacheList, cacheCleaner, get, write, writes, shortfall>>

Detached == "detached"  \* the call that started the cleaner has returned
General  == "general"   \* the type setSettings() is called with
Values   == UNION {ValueOf[k] \cup LegacyOf[k] : k \in Keys}
Types   == {General, Null}
Rows    == [row : BOOLEAN, value : Values \cup {Null}, type : Types]
Entries == [value : Values \cup {Null}, ticks : 0..1, late : BOOLEAN]
Stores  == [key : Keys, insert : BOOLEAN]

IdleGet   == [step |-> "idle", key |-> Null, value |-> Null, late |-> FALSE]
IdleWrite == [step |-> "idle", data |-> <<>>, type |-> Null, typed |-> FALSE,
              toFind |-> {}, toStore |-> {}, failed |-> FALSE]
NoRow     == [row |-> FALSE, value |-> Null, type |-> Null]

\* What set() and setSettings() may be called with.
Data == UNION {{d \in [K -> Values] : \A k \in K : d[k] \in ValueOf[k]} : K \in (SUBSET Keys) \ {{}}}

TypeOK ==
  /\ setting \in [Keys -> Rows]
  /\ DOMAIN cacheList \subseteq Keys
  /\ \A k \in DOMAIN cacheList : cacheList[k] \in Entries
  /\ cacheCleaner \in Readers \cup {Null, Detached}
  /\ get \in [Readers -> [step : {"idle", "query", "answer"}, key : Keys \cup {Null},
                          value : Values \cup {Null}, late : BOOLEAN]]
  /\ \A r \in Readers : get[r].step # "idle" => get[r].key \in Keys
  /\ write \in [Writers -> [step : {"idle", "find", "store", "rejected"}, data : Data \cup {<<>>}, type : Types,
                            typed : BOOLEAN, toFind : SUBSET Keys, toStore : SUBSET Stores,
                            failed : BOOLEAN]]
  /\ \A w \in Writers : /\ write[w].step = "find" <=> write[w].toFind # {}
                        /\ write[w].step = "idle" => write[w] = IdleWrite
  /\ writes \in 0..MaxWrites
  /\ shortfall \subseteq Keys

Init ==
  /\ setting \in {t \in [Keys -> Rows] : \A k \in Keys :
       t[k] \in {NoRow} \cup {[row |-> TRUE, value |-> v, type |-> TypeOf[k]] : v \in ValueOf[k] \cup LegacyOf[k]}}
  /\ cacheList = <<>>
  /\ cacheCleaner = Null
  /\ get = [r \in Readers |-> IdleGet]
  /\ write = [w \in Writers |-> IdleWrite]
  /\ writes = 0
  /\ shortfall = {}

Without(f, S) == [k \in DOMAIN f \ S |-> f[k]]
With(f, k, v) == [x \in DOMAIN f \cup {k} |-> IF x = k THEN v ELSE f[x]]

-----------------------------------------------------------------------------
(* get() *)

\* The first get() starts the cleaner.  Its callback iterates with `for (key in ...)`
\* over the parameter of the get() that started it.
StartCleaner(r) == cacheCleaner' = IF cacheCleaner = Null THEN r ELSE cacheCleaner

\* mutant: every read renews the timestamp
Hit_Refreshes(entry) == [entry EXCEPT !.ticks = 0]

\* What a hit does to the entry it returns: nothing, not even to its timestamp.
Hit(entry) == entry

GetHit(r, k) ==
  /\ get[r].step = "idle"
  /\ k \in DOMAIN cacheList
  /\ StartCleaner(r)
  /\ cacheList' = [cacheList EXCEPT ![k] = Hit(@)]
  /\ UNCHANGED <<setting, get, write, writes, shortfall>>

GetMiss(r, k) ==
  /\ get[r].step = "idle"
  /\ k \notin DOMAIN cacheList
  /\ StartCleaner(r)
  /\ get' = [get EXCEPT ![r] = [step |-> "query", key |-> k, value |-> Null, late |-> FALSE]]
  /\ UNCHANGED <<setting, cacheList, write, writes, shortfall>>

\* The database answers with the row as it is now.
Query(r) ==
  /\ get[r].step = "query"
  /\ get' = [get EXCEPT ![r].step = "answer", ![r].value = setting[get[r].key].value]
  /\ UNCHANGED <<setting, cacheList, cacheCleaner, write, writes, shortfall>>

Return(r) ==
  /\ get' = [get EXCEPT ![r] = IdleGet]
  /\ cacheCleaner' = IF cacheCleaner = r THEN Detached ELSE cacheCleaner

QueryError(r) ==
  /\ DbFails
  /\ get[r].step = "query"
  /\ Return(r)
  /\ UNCHANGED <<setting, cacheList, write, writes, shortfall>>

\* JSON.parse(null) is null, so a missing row is cached as well; what does not parse
\* is returned and not cached.
Answer(r) ==
  /\ get[r].step = "answer"
  /\ cacheList' = IF \E k \in Keys : get[r].value \in LegacyOf[k] THEN cacheList
                  ELSE With(cacheList, get[r].key,
                            [value |-> get[r].value, ticks |-> 0, late |-> get[r].late])
  /\ Return(r)
  /\ UNCHANGED <<setting, write, writes, shortfall>>

-----------------------------------------------------------------------------
(* The cleaner: every 60 s it drops what is older than 60 s.  An entry is     *)
(* less than one interval old at its first tick, or a little more when the    *)
(* timer is late, and older than one at its second.                           *)

Expired(entry) == {entry.ticks = 1, TRUE}

\* mutant: one variable `key` for all calls
Captures_Shared(r, k) == k \in Keys

\* The loop leaves the last name it saw in the variable it captured, the parameter
\* of the one call that started the cleaner.
Captures(r, k) == r = cacheCleaner

Clean ==
  /\ cacheCleaner # Null
  /\ SlowQuery \/ cacheCleaner = Detached
  /\ \E dead \in SUBSET DOMAIN cacheList :
       /\ \A k \in DOMAIN cacheList : (k \in dead) \in Expired(cacheList[k])
       /\ cacheList' = [k \in DOMAIN cacheList \ dead |-> [cacheList[k] EXCEPT !.ticks = 1]]
       /\ shortfall' = shortfall \ dead
  /\ \/ DOMAIN cacheList = {} /\ UNCHANGED get
     \/ \E k \in DOMAIN cacheList :
          get' = [r \in Readers |-> IF get[r].step # "idle" /\ Captures(r, k)
                                   THEN [get[r] EXCEPT !.key = k] ELSE get[r]]
  /\ UNCHANGED <<setting, cacheCleaner, write, writes>>

-----------------------------------------------------------------------------
(* set() and setSettings() *)

\* set() has one key and gives the row the type it is called with; setSettings()
\* has several and leaves rows of another type alone.
Call(w, data, typed, type) ==
  /\ write[w].step = "idle"
  /\ writes < MaxWrites
  /\ writes' = writes + 1
  /\ write' = [write EXCEPT ![w] =
       [IdleWrite EXCEPT !.step = "find", !.data = data, !.type = type, !.typed = typed,
                         !.toFind = DOMAIN data]]
  /\ UNCHANGED <<setting, cacheList, cacheCleaner, get, shortfall>>

Set(w, k, v) == Call(w, [x \in {k} |-> v], FALSE, TypeOf[k])
SetSettings(w, data) == Call(w, data, TRUE, General)

Guarded(row, w) == write[w].typed /\ row.row /\ row.type # write[w].type

\* mutant: the loop over the keys is not awaited
Find_NotAwaited(w, k) ==
  /\ write[w].step \in {"find", "store"}
  /\ k \in write[w].toFind
  /\ write' = [write EXCEPT
       ![w].toFind = @ \ {k}, ![w].step = "store",
       ![w].toStore = @ \cup {[key |-> k, insert |-> ~setting[k].row]}]
  /\ UNCHANGED <<setting, cacheList, cacheCleaner, get, writes, shortfall>>

\* findOne; the store is started and, in setSettings(), not awaited yet.
Find(w, k) ==
  /\ write[w].step = "find"
  /\ k \in write[w].toFind
  /\ write' = [write EXCEPT
       ![w].toFind = @ \ {k},
       ![w].toStore = IF Guarded(setting[k], w) THEN @
                      ELSE @ \cup {[key |-> k, insert |-> ~setting[k].row]},
       ![w].step = IF write[w].toFind = {k} THEN "store" ELSE "find"]
  /\ UNCHANGED <<setting, cacheList, cacheCleaner, get, writes, shortfall>>

\* What a writer has stored already, as far as it was to be.
Stored(w) == {k \in DOMAIN write[w].data \ write[w].toFind : \A s \in write[w].toStore : s.key # k}

\* A write that rejected is over when the stores it left behind are.
Left(call) == IF call.step = "rejected" /\ call.toStore = {} THEN IdleWrite ELSE call

\* A store that runs after a query of the same key makes its answer outdated.
MarkLate(k) == [r \in Readers |-> IF get[r].step = "answer" /\ get[r].key = k
                                  THEN [get[r] EXCEPT !.late = TRUE] ELSE get[r]]

\* One store reaches the table.  An UPDATE writes the fields that changed; setSettings()
\* does not touch the type of a row it found.
Store(w, s) ==
  /\ write[w].step # "idle"
  /\ s \in write[w].toStore
  /\ s.insert => ~setting[s.key].row
  /\ setting' = [setting EXCEPT ![s.key] =
       [row |-> TRUE, value |-> write[w].data[s.key],
        type |-> IF write[w].typed /\ ~s.insert THEN @.type ELSE write[w].type]]
  /\ get' = MarkLate(s.key)
  /\ write' = [write EXCEPT ![w] = Left([write[w] EXCEPT !.toStore = @ \ {s}])]
  /\ shortfall' = shortfall \cup (IF write[w].step = "rejected" THEN {s.key} \cap DOMAIN cacheList ELSE {})
  /\ UNCHANGED <<cacheList, cacheCleaner, writes>>

\* The column `key` is unique: the second of two inserts fails.
StoreError(w, s) ==
  /\ write[w].step # "idle"
  /\ s \in write[w].toStore
  /\ DbFails \/ (s.insert /\ setting[s.key].row)
  /\ write' = [write EXCEPT ![w] = Left([write[w] EXCEPT !.toStore = @ \ {s}, !.failed = TRUE])]
  /\ UNCHANGED <<setting, cacheList, cacheCleaner, get, writes, shortfall>>

\* The call rejects without deleteCache(); stores of a setSettings() that were
\* started run on.
Rejects(w) ==
  /\ write' = [write EXCEPT ![w] = Left([write[w] EXCEPT !.step = "rejected", !.toFind = {}])]
  /\ shortfall' = shortfall \cup (Stored(w) \cap DOMAIN cacheList)
  /\ UNCHANGED <<setting, cacheList, cacheCleaner, get, writes>>

\* findOne throws.
FindError(w) ==
  /\ DbFails
  /\ write[w].step = "find"
  /\ Rejects(w)

\* A store fails: Promise.all does not wait for the others.
Reject(w) ==
  /\ write[w].step = "store" /\ write[w].failed
  /\ Rejects(w)

\* mutant: only the first key of the list is dropped
DeleteCache_FirstKey(w) ==
  /\ write[w].step = "store" /\ ~write[w].failed /\ write[w].toStore = {}
  /\ cacheList' = Without(cacheList, {CHOOSE k \in DOMAIN write[w].data : TRUE})
  /\ shortfall' = shortfall \ DOMAIN write[w].data
  /\ write' = [write EXCEPT ![w] = IdleWrite]
  /\ UNCHANGED <<setting, cacheCleaner, get, writes>>

\* The keys that were stored leave the cache.
DeleteCache(w) ==
  /\ write[w].step = "store" /\ ~write[w].failed /\ write[w].toStore = {}
  /\ cacheList' = Without(cacheList, DOMAIN write[w].data)
  /\ shortfall' = shortfall \ DOMAIN write[w].data
  /\ write' = [write EXCEPT ![w] = IdleWrite]
  /\ UNCHANGED <<setting, cacheCleaner, get, writes>>

-----------------------------------------------------------------------------
Next ==
  \/ \E r \in Readers, k \in Keys : GetHit(r, k) \/ GetMiss(r, k)
  \/ \E r \in Readers : Query(r) \/ QueryError(r) \/ Answer(r)
  \/ Clean
  \/ \E w \in Writers, k \in Keys : (\E v \in ValueOf[k] : Set(w, k, v)) \/ Find(w, k)
  \/ \E w \in Writers, d \in Data : SetSettings(w, d)
  \/ \E w \in Writers, s \in Stores : Store(w, s) \/ StoreError(w, s)
  \/ \E w \in Writers : FindError(w) \/ Reject(w) \/ DeleteCache(w)

\* Queries are answered and the interval fires; nobody needs to call get() or set().
Fairness ==
  /\ WF_vars(Clean)
  /\ \A r \in Readers : WF_vars(Query(r) \/ Answer(r))

Spec == Init /\ [][Next]_vars /\ Fairness

-----------------------------------------------------------------------------
Stale(k) == k \in DOMAIN cacheList /\ cacheList[k].value # setting[k].value

\* A writer has stored k and has not dropped it from the cache yet.
DropPending(k) == \E w \in Writers : write[w].step \in {"find", "store"} /\ k \in Stored(w)

\* A cached value differs from the table only between a store and the drop that
\* follows it, after an answer that a store overtook, or after a write that
\* rejected and so drops nothing: set() stores before it drops, and drops every key
\* it stored.
StaleHasAReason == \A k \in Keys :
  Stale(k) => DropPending(k) \/ cacheList[k].late \/ k \in shortfall

\* What is cached under a name is a value of that setting, although the cleaner's
\* loop shares a variable with a get() ("Retrieve value of setting based on key").
CacheHoldsOwnValue == \A k \in DOMAIN cacheList : cacheList[k].value \in ValueOf[k] \cup {Null}

\* A stale value does not stay, however often it is read: an answer that came after
\* a set(), or the keys of a write that rejected, leave the cache in the end.
StaleEnds == \A k \in Keys : Stale(k) ~> ~Stale(k)

=============================================================================
