--------------------------- MODULE UptimeStatsProofs ---------------------------
(***************************************************************************)
(* The uptime statistics.  However recorders, readers and calculators         *)
(* overlap, nothing is counted twice (CountInv); in turn, the lists of the     *)
(* calculator and the tables agree about every period that is kept            *)
(* (SerialInv).                                                               *)
(***************************************************************************)
EXTENDS UptimeStats, SequenceTheorems, FiniteSetTheorems, WellFoundedInduction, TLAPS

-------------------------------------------------------------------------------
(* Types.                                                                       *)

Mems   == UNION {[D -> Nat] : D \in SUBSET Int}
Tables == UNION {[D -> [row : Nat, n : Nat]] : D \in SUBSET Int}
Beans  == [key : Int, by : Users, row : Nat \cup {None}]
Lists  == [bucket : Seq(Nat), mem : Mems, stack : Seq(Int), bean : Beans \cup {None}]
Jobs   == [step : {"idle", "load", "bean", "store", "expire", "beat"}, calc : Calcs \cup {None},
           at : 0..3, date : Minutes, current : Minutes, held : [Grains -> Nat],
           bean : Beans \cup {None}, value : Nat]

Tally(f) == /\ f = [g \in Grains |-> f[g]]
            /\ \A g \in Grains : f[g] \in [KeysOf(g) -> Nat]

TypedStats ==
  /\ clock \in Minutes
  /\ list \in Calcs \cup {None}
  /\ heap \in [Calcs -> [Grains -> Lists]]
  /\ rows \in [Grains -> Tables]
  /\ job \in [Users -> Jobs]
  /\ clear \in 0..3
  /\ era \in [Grains -> Nat]
  /\ failed \in BOOLEAN
  /\ Tally(beats) /\ Tally(counted)

-------------------------------------------------------------------------------
(* Nothing is counted twice.                                                    *)

\* The heartbeats of a period by a count of them, f.
Seen(f, g, k) == IF k \in KeysOf(g) THEN f[g][k] ELSE 0

\* Keys have buckets of their own, with no more heartbeats than f has.
GoodList(l, g, f) ==
  /\ \A k \in DOMAIN l.mem : l.mem[k] \in 1..Len(l.bucket) /\ l.bucket[l.mem[k]] <= Seen(f, g, k)
  /\ \A k, i \in DOMAIN l.mem : l.mem[k] = l.mem[i] => k = i

\* Bucket i is one of the key, which has left the list or has it still.
BucketOf(l, g, i, key, f) ==
  /\ i \in 1..Len(l.bucket) /\ l.bucket[i] <= Seen(f, g, key)
  /\ \A k \in DOMAIN l.mem : l.mem[k] = i => k = key

\* A recorder holds the buckets of its date.
HoldsOwn(u) ==
  \A g \in Grains :
    BucketOf(heap[job[u].calc][g], g, job[u].held[g], Key(g, job[u].date), counted)

GoodJob(u) ==
  LET j == job[u] IN
  /\ j.step # "idle" => j.calc \in Calcs /\ j.date <= clock
  /\ j.step \in {"load", "bean", "store"} => j.at \in 1..3
  /\ j.step = "expire" => j.at \in 1..2
  /\ j.step \in {"bean", "store"} => HoldsOwn(u)
  /\ j.step = "store" => /\ j.bean \in Beans
                         /\ j.bean.key = Key(StoreOrder[j.at], j.date)
                         /\ j.value <= Seen(counted, StoreOrder[j.at], j.bean.key)

CountInv ==
  /\ TypedStats
  /\ \A c \in Calcs, g \in Grains : GoodList(heap[c][g], g, counted)
  /\ \A u \in Users : GoodJob(u)
  /\ \A g \in Grains : \A k \in DOMAIN rows[g] : rows[g][k].n <= Seen(counted, g, k)

-------------------------------------------------------------------------------
(* One recorder at a time, no use of a calculator before it is loaded, no clearing. *)

LoadAt(g)  == CASE g = "minute" -> 1 [] g = "hour" -> 2 [] g = "day" -> 3
StoreAt(g) == CASE g = "minute" -> 3 [] g = "hour" -> 2 [] g = "day" -> 1

IsLoading(u) == job[u].step = "load"
Owes(u, g)   == job[u].step \in {"bean", "store"} /\ job[u].at <= StoreAt(g)
Paid(u, g)   == \/ job[u].step \in {"bean", "store"} /\ job[u].at > StoreAt(g)
                \/ job[u].step \in {"expire", "beat"}
OfDate(u, g, k) == Key(g, job[u].date) = k
Ahead(g, k)  == IF \E u \in Recorders : Owes(u, g) /\ OfDate(u, g, k) THEN 1 ELSE 0
Behind(g, k) == IF \E u \in Recorders : Paid(u, g) /\ OfDate(u, g, k) THEN 1 ELSE 0

\* The keys of a list are in the order of time, apart by what lies between them, and up to `top`.
Ordered(l, g, top) ==
  /\ \A i \in 1..Len(l.stack) : l.stack[i] <= top
  /\ \A i, j \in 1..Len(l.stack) : i <= j => l.stack[j] - l.stack[i] >= j - i
  /\ Len(l.stack) <= Limit[g]
  /\ DOMAIN l.mem = {l.stack[i] : i \in 1..Len(l.stack)}

\* Who is at work on what.
Turns ==
  /\ list = None => \A u \in Users : job[u].step = "idle"
  /\ \A u \in Users :
       /\ job[u].step # "idle" => job[u].calc = list /\ job[u].date <= clock /\ job[u].current <= clock
       /\ IsLoading(u) => \A v \in Users : v # u => job[v].step = "idle"
       /\ job[u].step \notin {"idle", "load"} => u \in Recorders
  /\ era = [g \in Grains |-> 0] /\ clear = 0 /\ ~failed
  /\ \A c \in Calcs : c # list => heap[c] = [g \in Grains |-> Empty]

\* A list that is not loaded yet, and one that is.
IsLoaded(g) == list # None /\ \A u \in Users : IsLoading(u) => LoadAt(g) < job[u].at
NotLoaded ==
  \A u \in Users, g \in Grains :
    IsLoading(u) =>
      /\ LoadAt(g) > job[u].at => heap[list][g] = Empty
      /\ LoadAt(g) = job[u].at => heap[list][g] = Ensure(Empty, g, Since(g, job[u].date))

Agreeing(g) ==
  IsLoaded(g) =>
    /\ Ordered(heap[list][g], g, Key(g, clock))
    /\ \A k \in Int : InWindow(g, k) =>
         InBucket(heap[list][g], k) = Stored(g, k) + Ahead(g, k)

RowsInTime == \A g \in Grains : \A k \in DOMAIN rows[g] : k <= Key(g, clock) /\ rows[g][k].row = 0

BeatsIn == \A g \in Grains : \A k \in KeysOf(g) :
             InWindow(g, k) => beats[g][k] + Behind(g, k) <= Stored(g, k)

\* What a recorder will store.
StoreRight(u, g) ==
  LET k == Key(g, job[u].date) IN
  /\ Owes(u, g) /\ InWindow(g, k) =>
       k \in DOMAIN heap[list][g].mem /\ heap[list][g].mem[k] = job[u].held[g]
  /\ job[u].step = "store" /\ job[u].at = StoreAt(g) =>
       /\ InWindow(g, k) => job[u].value = InBucket(heap[list][g], k)
       /\ job[u].bean.row \in {None, 0}
       /\ job[u].bean.row = None => k \notin DOMAIN rows[g]
       /\ job[u].bean.row = 0 /\ InWindow(g, k) => k \in DOMAIN rows[g]
StoresRight == \A u \in Recorders, g \in Grains : StoreRight(u, g)

\* The bean stored last is that of a row, or about to be one.
BeansHaveRows ==
  list # None => \A g \in Grains :
    LET b == heap[list][g].bean IN
    b # None =>
      /\ b.row \in {None, 0}
      /\ b.row = 0 /\ InWindow(g, b.key) => b.key \in DOMAIN rows[g]
      /\ b.row = None => \E u \in Recorders : job[u].step = "store" /\ job[u].at = StoreAt(g) /\ job[u].bean = b

SerialInv ==
  /\ CountInv /\ Turns /\ NotLoaded
  /\ \A g \in Grains : Agreeing(g)
  /\ RowsInTime /\ BeatsIn /\ StoresRight /\ BeansHaveRows
-------------------------------------------------------------------------------
(* Keys.                                                                        *)

\* Division by a positive number.
LEMMA DivIs ==
  ASSUME NEW a \in Nat, NEW d \in Nat \ {0}
  PROVE  a \div d \in Nat /\ \E r \in 0..(d - 1) : a = d * (a \div d) + r
<1>1. a \div d \in Int /\ a = d * (a \div d) + (a % d) /\ a % d \in 0..(d - 1)
  OBVIOUS
<1>2. a \div d \in Nat
  <2> DEFINE q == a \div d
  <2>1. q \in Int /\ a = d * q + (a % d) /\ a % d \in 0..(d - 1)
    BY <1>1
  <2> HIDE DEF q
  <2>2. ASSUME q <= -1 PROVE FALSE
    <3>1. d * q <= -d
      BY <2>1, <2>2
    <3>2. QED
      BY <2>1, <3>1
  <2>3. QED
    BY <2>1, <2>2 DEF q
<1>3. QED
  BY <1>1, <1>2

LEMMA DivMonotone ==
  ASSUME NEW a \in Nat, NEW b \in Nat, a <= b, NEW d \in Nat \ {0}
  PROVE  a \div d <= b \div d
<1> DEFINE p == a \div d
           q == b \div d
<1>1. p \in Nat /\ q \in Nat
  BY DivIs
<1>2. PICK r \in 0..(d - 1) : a = d * p + r
  BY DivIs
<1>3. PICK s \in 0..(d - 1) : b = d * q + s
  BY DivIs
<1> HIDE DEF p, q
<1>4. ASSUME p >= q + 1 PROVE FALSE
  <2>1. d * p >= d * (q + 1)
    BY <1>1, <1>4
  <2>2. d * (q + 1) = d * q + d
    BY <1>1
  <2>3. d * p \in Nat /\ d * q \in Nat
    BY <1>1
  <2>4. QED
    BY <1>2, <1>3, <2>1, <2>2, <2>3
<1>5. QED
  BY <1>1, <1>4 DEF p, q

LEMMA KeyIsNat ==
  ASSUME StatsAssumption, NEW g \in Grains, NEW t \in Nat
  PROVE  Key(g, t) \in Nat
BY DivIs DEF StatsAssumption, Grains, Key

LEMMA KeyMonotone ==
  ASSUME StatsAssumption, NEW g \in Grains, NEW s \in Nat, NEW t \in Nat, s <= t
  PROVE  Key(g, s) <= Key(g, t)
BY DivMonotone DEF StatsAssumption, Grains, Key

LEMMA MinutesAreNat == ASSUME StatsAssumption, NEW t \in Minutes PROVE t \in Nat
BY DEF StatsAssumption, Minutes

\* The keys of dates, and where a query for the past begins.
LEMMA KeysOfDates ==
  ASSUME StatsAssumption, NEW g \in Grains, NEW t \in Minutes
  PROVE  /\ Key(g, t) \in Nat /\ Key(g, t) \in KeysOf(g)
         /\ Since(g, t) \in Int /\ Since(g, t) < Key(g, t)
         /\ \A s \in Minutes : s <= t => /\ Key(g, s) <= Key(g, t)
                                              /\ Since(g, s) <= Since(g, t)
<1>1. t \in Nat /\ Limit[g] \in Nat \ {0}
  BY MinutesAreNat DEF StatsAssumption
<1>2. Key(g, t) \in Nat /\ Key(g, t) \in KeysOf(g)
  BY <1>1, KeyIsNat DEF KeysOf
<1>3. \A s \in Minutes : Key(g, s) \in Nat /\ (s <= t => Key(g, s) <= Key(g, t))
  BY <1>1, KeyIsNat, KeyMonotone, MinutesAreNat
<1>4. QED
  BY <1>1, <1>2, <1>3 DEF Since
-------------------------------------------------------------------------------
(* Lists of buckets.                                                            *)

LEMMA MemsAre == ASSUME NEW f PROVE f \in Mems <=> DOMAIN f \in SUBSET Int /\ f \in [DOMAIN f -> Nat]
BY DEF Mems

\* Buckets made since leave the earlier ones as they are, and those keys that have one of
\* the earlier ones had it then.
Extends(l, p) ==
  /\ Len(l.bucket) <= Len(p.bucket)
  /\ \A i \in 1..Len(l.bucket) : p.bucket[i] = l.bucket[i]
  /\ \A k \in DOMAIN p.mem : p.mem[k] <= Len(l.bucket) => k \in DOMAIN l.mem /\ l.mem[k] = p.mem[k]

\* What push() does to the fields: p is l with a bucket of n for the key.
Pushed(l, g, key, n, p) ==
  LET dropped == IF Len(l.stack) + 1 > Limit[g] THEN {Append(l.stack, key)[1]} ELSE {}
  IN /\ p \in Lists /\ p.bean = l.bean
     /\ p.bucket = Append(l.bucket, n)
     /\ p.stack = IF Len(l.stack) + 1 > Limit[g] THEN Tail(Append(l.stack, key)) ELSE Append(l.stack, key)
     /\ DOMAIN p.mem = (DOMAIN l.mem \cup {key}) \ dropped
     /\ \A k \in DOMAIN p.mem : p.mem[k] = IF k = key THEN Len(l.bucket) + 1 ELSE l.mem[k]

\* push() appends a bucket and its key, and drops the first key when there are too many.
LEMMA PushIs ==
  ASSUME NEW g, NEW l \in Lists, NEW key \in Int, NEW n \in Nat, Limit[g] \in Nat \ {0}
  PROVE  Pushed(l, g, key, n, Push(l, g, key, n))
<1> DEFINE stack == Append(l.stack, key)
           mem == [k \in DOMAIN l.mem \cup {key} |-> IF k = key THEN Len(l.bucket) + 1 ELSE l.mem[k]]
           full == Len(stack) > Limit[g]
           p == Push(l, g, key, n)
<1>1. /\ l.bucket \in Seq(Nat) /\ l.mem \in Mems /\ l.stack \in Seq(Int) /\ l.bean \in Beans \cup {None}
      /\ l = [bucket |-> l.bucket, mem |-> l.mem, stack |-> l.stack, bean |-> l.bean]
  BY DEF Lists
<1>2. stack \in Seq(Int) /\ Len(stack) = Len(l.stack) + 1 /\ Len(l.stack) \in Nat /\ stack # <<>>
  BY <1>1, AppendProperties, LenProperties
<1>3. Append(l.bucket, n) \in Seq(Nat) /\ Len(l.bucket) \in Nat
  BY <1>1, AppendProperties, LenProperties
<1>4. Tail(stack) \in Seq(Int) /\ Head(stack) = stack[1]
  BY <1>2, HeadTailProperties
<1>5. mem \in Mems /\ DOMAIN mem = DOMAIN l.mem \cup {key}
  <2>1. DOMAIN l.mem \in SUBSET Int /\ \A k \in DOMAIN l.mem : l.mem[k] \in Nat
    BY <1>1, MemsAre
  <2>2. mem \in [DOMAIN l.mem \cup {key} -> Nat] /\ DOMAIN l.mem \cup {key} \in SUBSET Int
    BY <1>3, <2>1
  <2>3. QED
    BY <2>2 DEF Mems
<1>6. Without(mem, {Head(stack)}) \in Mems
      /\ DOMAIN Without(mem, {Head(stack)}) = DOMAIN mem \ {Head(stack)}
      /\ \A k \in DOMAIN mem \ {Head(stack)} : Without(mem, {Head(stack)})[k] = mem[k]
  <2> HIDE DEF mem, stack
  <2>1. DOMAIN mem \in SUBSET Int /\ \A k \in DOMAIN mem : mem[k] \in Nat
    BY <1>5, MemsAre
  <2>2. Without(mem, {Head(stack)}) \in [DOMAIN mem \ {Head(stack)} -> Nat]
    BY <2>1 DEF Without
  <2>3. QED
    BY <2>1, <2>2 DEF Without, Mems
<1>7. p = [bucket |-> Append(l.bucket, n),
           mem |-> IF full THEN Without(mem, {Head(stack)}) ELSE mem,
           stack |-> IF full THEN Tail(stack) ELSE stack, bean |-> l.bean]
  <2>1. p = [l EXCEPT !.bucket = Append(@, n), !.stack = IF full THEN Tail(stack) ELSE stack,
                      !.mem = IF full THEN Without(mem, {Head(stack)}) ELSE mem]
    BY DEF Push
  <2> HIDE DEF p, mem, stack, full
  <2>2. QED
    BY <1>1, <2>1
<1> HIDE DEF p, full
<1>8. \A k \in DOMAIN mem : mem[k] = IF k = key THEN Len(l.bucket) + 1 ELSE l.mem[k]
  OBVIOUS
<1> HIDE DEF mem
<1>9. /\ p.bucket = Append(l.bucket, n) /\ p.mem = (IF full THEN Without(mem, {Head(stack)}) ELSE mem)
      /\ p.stack = (IF full THEN Tail(stack) ELSE stack) /\ p.bean = l.bean /\ p \in Lists
  <2> HIDE DEF stack
  <2>1. (IF full THEN Without(mem, {Head(stack)}) ELSE mem) \in Mems
    BY <1>5, <1>6
  <2>2. (IF full THEN Tail(stack) ELSE stack) \in Seq(Int)
    BY <1>2, <1>4
  <2>3. QED
    BY <1>1, <1>3, <1>7, <2>1, <2>2 DEF Lists
<1>10. full <=> Len(l.stack) + 1 > Limit[g]
  BY <1>2 DEF full
<1>11. CASE full
  <2>1. DOMAIN p.mem = (DOMAIN l.mem \cup {key}) \ {stack[1]} /\ \A k \in DOMAIN p.mem : p.mem[k] = mem[k]
    BY <1>4, <1>5, <1>6, <1>9, <1>11
  <2>2. QED
    BY <1>5, <1>8, <1>9, <1>10, <1>11, <2>1 DEF p, Pushed
<1>12. CASE ~full
  BY <1>5, <1>8, <1>9, <1>10, <1>12 DEF p, Pushed
<1>13. QED
  BY <1>11, <1>12

\* A bucket with no more heartbeats than were counted leaves a list good.
LEMMA PushGood ==
  ASSUME NEW g, NEW f, NEW l \in Lists, NEW key \in Int, NEW n \in Nat, Limit[g] \in Nat \ {0},
         GoodList(l, g, f), n <= Seen(f, g, key)
  PROVE  LET p == Push(l, g, key, n)
         IN p \in Lists /\ GoodList(p, g, f) /\ Extends(l, p) /\ p.bean = l.bean
<1> DEFINE p == Push(l, g, key, n)
           next == Len(l.bucket) + 1
<1>1. /\ p \in Lists /\ p.bean = l.bean /\ p.bucket = Append(l.bucket, n)
      /\ \A k \in DOMAIN p.mem : k = key \/ k \in DOMAIN l.mem
      /\ \A k \in DOMAIN p.mem : p.mem[k] = IF k = key THEN next ELSE l.mem[k]
  <2>1. Pushed(l, g, key, n, p)
    BY PushIs DEF p
  <2> HIDE DEF p
  <2>2. QED
    BY <2>1 DEF Pushed
<1> HIDE DEF p
<1>2. l.bucket \in Seq(Nat)
  BY DEF Lists
<1>3. Len(l.bucket) \in Nat /\ Len(p.bucket) = next
      /\ p.bucket[next] = n /\ \A i \in 1..Len(l.bucket) : p.bucket[i] = l.bucket[i]
  BY <1>1, <1>2, AppendProperties, LenProperties
<1>4. \A k \in DOMAIN l.mem : l.mem[k] \in 1..Len(l.bucket) /\ l.bucket[l.mem[k]] <= Seen(f, g, k)
  BY DEF GoodList
<1>5. \A k \in DOMAIN p.mem : p.mem[k] \in 1..Len(p.bucket) /\ p.bucket[p.mem[k]] <= Seen(f, g, k)
  <2> TAKE k \in DOMAIN p.mem
  <2>1. CASE k = key
    BY <1>1, <1>3, <2>1
  <2>2. CASE k # key
    BY <1>1, <1>3, <1>4, <2>2
  <2>3. QED
    BY <2>1, <2>2
<1>6. \A k, i \in DOMAIN p.mem : p.mem[k] = p.mem[i] => k = i
  <2> SUFFICES ASSUME NEW k \in DOMAIN p.mem, NEW i \in DOMAIN p.mem, p.mem[k] = p.mem[i] PROVE k = i
    OBVIOUS
  <2>1. CASE k # key /\ i # key
    BY <1>1, <2>1 DEF GoodList
  <2>2. CASE k = key \/ i = key
    BY <1>1, <1>3, <1>4, <2>2
  <2>3. QED
    BY <2>1, <2>2
<1>7. GoodList(p, g, f)
  BY <1>5, <1>6 DEF GoodList
<1>8. Extends(l, p)
  BY <1>1, <1>3 DEF Extends
<1>9. QED
  BY <1>1, <1>7, <1>8 DEF p

LEMMA ExtendsItself == ASSUME NEW l \in Lists PROVE Extends(l, l)
<1>1. Len(l.bucket) \in Nat
  BY LenProperties DEF Lists
<1>2. QED
  BY <1>1 DEF Extends

LEMMA ExtendsOn ==
  ASSUME NEW l \in Lists, NEW p \in Lists, NEW q \in Lists, Extends(l, p), Extends(p, q)
  PROVE  Extends(l, q)
<1>1. Len(l.bucket) \in Nat /\ Len(p.bucket) \in Nat /\ Len(q.bucket) \in Nat
  BY LenProperties DEF Lists
<1>2. \A k \in DOMAIN q.mem : q.mem[k] \in Nat
  <2>1. q.mem \in Mems
    BY DEF Lists
  <2>2. QED
    BY <2>1, MemsAre
<1>3. QED
  BY <1>1, <1>2 DEF Extends

\* So does one that is created because it is missing.
LEMMA EnsureGood ==
  ASSUME NEW g, NEW f, NEW l \in Lists, NEW key \in Int, Limit[g] \in Nat \ {0}, GoodList(l, g, f), 0 <= Seen(f, g, key)
  PROVE  LET p == Ensure(l, g, key)
         IN p \in Lists /\ GoodList(p, g, f) /\ Extends(l, p) /\ p.bean = l.bean
<1>1. CASE key \in DOMAIN l.mem
  BY <1>1, ExtendsItself DEF Ensure
<1>2. CASE key \notin DOMAIN l.mem
  BY <1>2, PushGood DEF Ensure
<1>3. QED
  BY <1>1, <1>2

LEMMA EmptyIsList == Empty \in Lists /\ DOMAIN Empty.mem = {} /\ \A g, f : GoodList(Empty, g, f)
<1>1. NoKeys \in Mems /\ DOMAIN NoKeys = {}
  <2>1. NoKeys \in [{} -> Nat]
    BY DEF NoKeys
  <2>2. QED
    BY <2>1 DEF Mems
<1>2. <<>> \in Seq(Nat) /\ <<>> \in Seq(Int)
  OBVIOUS
<1>3. QED
  BY <1>1, <1>2 DEF Empty, Lists, GoodList
-------------------------------------------------------------------------------
(* Loading a list: pushed[k] is the list with the rows up to k.                  *)

LessNat == {e \in Nat \X Nat : e[1] < e[2]}

LEMMA LessNatWellFounded == IsWellFoundedOn(LessNat, Nat)
<1>1. OpToRel(<, Nat) = LessNat
  BY Zenon DEF OpToRel, LessNat
<1>2. QED
  BY <1>1, NatLessThanWellFounded, Zenon

\* What holds of 0 and of the next of each holds of all.
LEMMA Stepwise ==
  ASSUME NEW S, 0 \in S, \A n \in Nat : n \in S => n + 1 \in S
  PROVE  \A n \in Nat : n \in S
<1> DEFINE B == {n \in Nat : n \notin S}
<1>1. ASSUME B # {} PROVE FALSE
  <2>1. PICK x \in B : \A y \in B : <<y, x>> \notin LessNat
    <3>1. B \subseteq Nat
      OBVIOUS
    <3>2. QED
      BY <1>1, <3>1, LessNatWellFounded, WFMin
  <2>2. x \in Nat /\ x # 0
    OBVIOUS
  <2>3. x - 1 \in Nat /\ x - 1 < x
    BY <2>2
  <2>4. <<x - 1, x>> \in LessNat
    <3>1. <<x - 1, x>> \in Nat \X Nat /\ <<x - 1, x>>[1] < <<x - 1, x>>[2]
      BY <2>2, <2>3, SMT
    <3>2. QED
      BY <3>1, Zenon DEF LessNat
  <2>5. x - 1 \in S
    BY <2>1, <2>3, <2>4
  <2>6. (x - 1) + 1 \in S
    BY <2>3, <2>5
  <2>7. QED
    BY <2>2, <2>6
<1>2. QED
  BY <1>1

\* The list with the row of k pushed, if there is one.
WithRow(p, g, k) == IF k \in DOMAIN rows[g] THEN Push(p, g, k, rows[g][k].n) ELSE p

Loaded(f, l, g, since, top) == f = [k \in since..top |-> IF k = since THEN l ELSE WithRow(f[k - 1], g, k)]

\* The function that LoadRows defines by recursion exists, by induction on the keys.
LEMMA LoadedExists ==
  ASSUME NEW l, NEW g, NEW since \in Int, NEW top \in Int, since <= top
  PROVE  \E f : Loaded(f, l, g, since, top)
<1> DEFINE S == {n \in Nat : \E f : Loaded(f, l, g, since, since + n)}
<1>1. 0 \in S
  <2> DEFINE f == [k \in since..since |-> l]
  <2>1. f = [k \in since..since |-> IF k = since THEN l ELSE WithRow(f[k - 1], g, k)]
    OBVIOUS
  <2>2. since + 0 = since
    OBVIOUS
  <2>3. QED
    BY <2>1, <2>2 DEF Loaded
<1>2. ASSUME NEW n \in Nat, n \in S PROVE n + 1 \in S
  <2>1. PICK f : Loaded(f, l, g, since, since + n)
    BY <1>2
  <2> DEFINE h == [k \in since..(since + n + 1) |-> IF k = since + n + 1 THEN WithRow(f[since + n], g, k) ELSE f[k]]
  <2>2. ASSUME NEW k \in since..(since + n + 1)
        PROVE  h[k] = IF k = since THEN l ELSE WithRow(h[k - 1], g, k)
    <3>1. CASE k = since + n + 1
      <4>1. h[k] = WithRow(f[since + n], g, k)
        BY <3>1
      <4>2. k - 1 = since + n /\ k # since /\ k - 1 \in since..(since + n + 1) /\ k - 1 # since + n + 1
        BY <3>1
      <4>3. h[k - 1] = f[since + n]
        BY <4>2
      <4>4. QED
        BY <4>1, <4>2, <4>3
    <3>2. CASE k # since + n + 1
      <4>1. k \in since..(since + n)
        BY <3>2
      <4>2. f[k] = IF k = since THEN l ELSE WithRow(f[k - 1], g, k)
        BY <2>1, <4>1 DEF Loaded
      <4>3. h[k] = f[k]
        BY <3>2
      <4>4. k # since => h[k - 1] = f[k - 1]
        BY <4>1
      <4>5. QED
        BY <4>2, <4>3, <4>4
    <3>3. QED
      BY <3>1, <3>2
  <2>3. h = [k \in since..(since + n + 1) |-> IF k = since THEN l ELSE WithRow(h[k - 1], g, k)]
    <3> DEFINE e == [k \in since..(since + n + 1) |-> IF k = since THEN l ELSE WithRow(h[k - 1], g, k)]
    <3>1. \A k \in since..(since + n + 1) : h[k] = e[k]
      BY <2>2
    <3>2. QED
      BY <3>1
  <2>4. since + (n + 1) = since + n + 1
    OBVIOUS
  <2> HIDE DEF h
  <2>5. Loaded(h, l, g, since, since + (n + 1))
    BY <2>3, <2>4 DEF Loaded
  <2>6. QED
    BY <2>5
<1>3. \A n \in Nat : n \in S
  <2> HIDE DEF S
  <2>1. QED
    BY <1>1, <1>2, Stepwise
<1>4. top - since \in Nat /\ since + (top - since) = top
  OBVIOUS
<1>5. QED
  BY <1>3, <1>4

\* What init() has of a list is reached row by row.
LEMMA LoadRowsIs ==
  ASSUME NEW l, NEW g, NEW now, Since(g, now) \in Int, Key(g, clock) \in Int,
         Since(g, now) <= Key(g, clock)
  PROVE  \E f : /\ Loaded(f, l, g, Since(g, now), Key(g, clock))
                /\ LoadRows(l, g, now) = f[Key(g, clock)]
<1> DEFINE since == Since(g, now)
           top == Key(g, clock)
           loaded == CHOOSE f : f = [k \in since..top |->
             IF k = since THEN l
             ELSE IF k \in DOMAIN rows[g] THEN Push(f[k - 1], g, k, rows[g][k].n)
             ELSE f[k - 1]]
<1>1. LoadRows(l, g, now) = loaded[top]
  BY DEF LoadRows
<1>2. \E f : f = [k \in since..top |->
             IF k = since THEN l
             ELSE IF k \in DOMAIN rows[g] THEN Push(f[k - 1], g, k, rows[g][k].n)
             ELSE f[k - 1]]
  <2>1. \E f : Loaded(f, l, g, since, top)
    BY LoadedExists
  <2> HIDE DEF since, top
  <2>2. QED
    BY <2>1, Zenon DEF Loaded, WithRow
<1>3. Loaded(loaded, l, g, since, top)
  <2> HIDE DEF since, top
  <2>1. QED
    BY <1>2 DEF Loaded, WithRow
<1> HIDE DEF loaded
<1>4. QED
  BY <1>1, <1>3

\* init() loads no more heartbeats than were counted.
LEMMA LoadGood ==
  ASSUME StatsAssumption, NEW g \in Grains, NEW f, NEW l \in Lists, GoodList(l, g, f),
         rows \in [Grains -> Tables], \A k \in DOMAIN rows[g] : rows[g][k].n <= Seen(f, g, k),
         clock \in Minutes, NEW now \in Minutes, now <= clock
  PROVE  LET p == LoadRows(l, g, now)
         IN p \in Lists /\ GoodList(p, g, f) /\ Extends(l, p) /\ p.bean = l.bean
<1> DEFINE since == Since(g, now)
           top == Key(g, clock)
           Good(p) == p \in Lists /\ GoodList(p, g, f) /\ Extends(l, p) /\ p.bean = l.bean
<1>1. since \in Int /\ top \in Int /\ since < top /\ Limit[g] \in Nat \ {0}
  BY KeysOfDates DEF StatsAssumption
<1>2. PICK h : Loaded(h, l, g, since, top) /\ LoadRows(l, g, now) = h[top]
  BY <1>1, LoadRowsIs
<1>3. \A k \in since..top : h[k] = IF k = since THEN l ELSE WithRow(h[k - 1], g, k)
  BY <1>2 DEF Loaded
<1> HIDE DEF since, top
<1>4. ASSUME NEW p, Good(p), NEW k \in Int PROVE Good(WithRow(p, g, k))
  <2>1. CASE k \notin DOMAIN rows[g]
    BY <1>4, <2>1 DEF WithRow
  <2>2. CASE k \in DOMAIN rows[g]
    <3>1. rows[g][k].n \in Nat
      BY <2>2 DEF Tables
    <3> DEFINE q == Push(p, g, k, rows[g][k].n)
    <3>2. q \in Lists /\ GoodList(q, g, f) /\ Extends(p, q) /\ q.bean = p.bean
      BY <1>1, <1>4, <2>2, <3>1, PushGood
    <3> HIDE DEF q
    <3>3. Extends(l, q)
      BY <1>4, <3>2, ExtendsOn
    <3>4. QED
      BY <1>4, <2>2, <3>2, <3>3 DEF WithRow, q
  <2>3. QED
    BY <2>1, <2>2
<1>5. Good(l)
  BY ExtendsItself
<1> HIDE DEF Good
<1> DEFINE S == {n \in Nat : since + n <= top => Good(h[since + n])}
<1>6. 0 \in S
  BY <1>1, <1>3, <1>5
<1>7. ASSUME NEW n \in Nat, n \in S PROVE n + 1 \in S
  <2>1. CASE since + (n + 1) <= top
    <3>1. since + n <= top /\ since + (n + 1) \in since..top /\ since + (n + 1) # since
          /\ since + (n + 1) - 1 = since + n
      BY <1>1, <2>1
    <3>2. h[since + (n + 1)] = WithRow(h[since + n], g, since + (n + 1))
      <4> DEFINE k == since + (n + 1)
      <4>1. k \in since..top /\ k # since /\ k - 1 = since + n
        BY <1>1, <3>1
      <4> HIDE DEF k
      <4>2. h[k] = WithRow(h[k - 1], g, k)
        BY <1>3, <4>1
      <4>3. QED
        BY <4>1, <4>2 DEF k
    <3>3. QED
      BY <1>1, <1>4, <1>7, <3>1, <3>2
  <2>2. QED
    BY <2>1
<1>8. top - since \in Nat /\ since + (top - since) = top
  BY <1>1
<1>9. top - since \in S
  <2> HIDE DEF S
  <2>1. QED
    BY <1>6, <1>7, <1>8, Stepwise
<1>10. Good(h[top])
  BY <1>1, <1>8, <1>9
<1>11. QED
  BY <1>2, <1>10 DEF Good
-------------------------------------------------------------------------------
(* Heartbeats counted.                                                          *)

Grows(f, h) == \A g \in Grains : \A k \in KeysOf(g) : f[g][k] <= h[g][k]

LEMMA SeenIs ==
  ASSUME NEW f, Tally(f), NEW g \in Grains, NEW k
  PROVE  Seen(f, g, k) \in Nat
BY DEF Tally, Seen

LEMMA SeenGrows ==
  ASSUME NEW f, NEW h, Grows(f, h), NEW g \in Grains, NEW k
  PROVE  Seen(f, g, k) <= Seen(h, g, k)
BY DEF Grows, Seen

\* Add() counts one heartbeat more, in the periods of its date.
LEMMA AddIs ==
  ASSUME StatsAssumption, NEW f, Tally(f), NEW grains, NEW date \in Minutes
  PROVE  LET h == Add(f, grains, date) IN
         /\ Tally(h) /\ Grows(f, h)
         /\ \A g \in Grains : \A k \in KeysOf(g) :
              h[g][k] = f[g][k] + (IF g \in grains /\ k = Key(g, date) THEN 1 ELSE 0)
<1> DEFINE h == Add(f, grains, date)
<1>1. h = [g \in Grains |-> IF g \in grains THEN [f[g] EXCEPT ![Key(g, date)] = @ + 1] ELSE f[g]]
  BY DEF Add
<1> HIDE DEF h
<1>2. ASSUME NEW g \in Grains
      PROVE  /\ h[g] \in [KeysOf(g) -> Nat]
             /\ \A k \in KeysOf(g) : h[g][k] = f[g][k] + (IF g \in grains /\ k = Key(g, date) THEN 1 ELSE 0)
  <2>1. Key(g, date) \in KeysOf(g) /\ f[g] \in [KeysOf(g) -> Nat]
    BY KeysOfDates DEF Tally
  <2>2. h[g] = IF g \in grains THEN [f[g] EXCEPT ![Key(g, date)] = @ + 1] ELSE f[g]
    BY <1>1
  <2>3. QED
    BY <2>1, <2>2
<1>3. h = [g \in Grains |-> h[g]]
  BY <1>1
<1>4. Tally(h)
  BY <1>2, <1>3 DEF Tally
<1>5. Grows(f, h)
  BY <1>2 DEF Grows, Tally
<1>6. QED
  BY <1>2, <1>4, <1>5 DEF h

\* What counting in one list and in f does to them.
LEMMA IncrementGood ==
  ASSUME NEW g \in Grains, NEW f, NEW h, Tally(f), Tally(h), NEW l \in Lists, GoodList(l, g, f),
         NEW key \in DOMAIN l.mem, Grows(f, h), Seen(f, g, key) + 1 <= Seen(h, g, key)
  PROVE  LET p == Increment(l, key) IN
         /\ p \in Lists /\ p.bean = l.bean /\ p.mem = l.mem /\ p.stack = l.stack
         /\ Len(p.bucket) = Len(l.bucket)
         /\ \A i \in 1..Len(l.bucket) : p.bucket[i] = l.bucket[i] + (IF i = l.mem[key] THEN 1 ELSE 0)
         /\ GoodList(p, g, h)
         /\ BucketOf(p, g, l.mem[key], key, h)
         /\ \A i, k : BucketOf(l, g, i, k, f) => BucketOf(p, g, i, k, h)
<1> DEFINE p == Increment(l, key)
           m == l.mem[key]
<1>1. l.bucket \in Seq(Nat) /\ Len(l.bucket) \in Nat /\ DOMAIN l.bucket = 1..Len(l.bucket)
      /\ m \in 1..Len(l.bucket) /\ \A i \in 1..Len(l.bucket) : l.bucket[i] \in Nat
  BY LenProperties, ElementOfSeq DEF Lists, GoodList
<1> DEFINE bucket == [l.bucket EXCEPT ![m] = @ + 1]
<1>2. bucket \in Seq(Nat) /\ Len(bucket) = Len(l.bucket)
  BY <1>1, ExceptSeq
<1>3. \A i \in 1..Len(l.bucket) : bucket[i] = l.bucket[i] + (IF i = m THEN 1 ELSE 0)
  BY <1>1
<1>4. p = [l EXCEPT !.bucket = bucket]
  BY DEF Increment
<1> HIDE DEF p, bucket
<1>5. p \in Lists /\ p.bean = l.bean /\ p.mem = l.mem /\ p.stack = l.stack /\ p.bucket = bucket
  BY <1>2, <1>4 DEF Lists
<1>6. \A k : Seen(f, g, k) \in Nat /\ Seen(h, g, k) \in Nat /\ Seen(f, g, k) <= Seen(h, g, k)
  BY SeenIs, SeenGrows
<1>7. ASSUME NEW i, NEW k, BucketOf(l, g, i, k, f) PROVE BucketOf(p, g, i, k, h)
  <2>1. i \in 1..Len(l.bucket) /\ l.bucket[i] <= Seen(f, g, k) /\ (i = m => key = k)
    BY <1>7 DEF BucketOf
  <2>2. p.bucket[i] <= Seen(h, g, k)
    <3>1. CASE i = m
      BY <1>1, <1>3, <1>5, <1>6, <2>1, <3>1
    <3>2. CASE i # m
      BY <1>1, <1>3, <1>5, <1>6, <2>1, <3>2
    <3>3. QED
      BY <3>1, <3>2
  <2>3. QED
    BY <1>2, <1>5, <1>7, <2>1, <2>2 DEF BucketOf
<1>8. \A k \in DOMAIN l.mem : BucketOf(l, g, l.mem[k], k, f)
  BY DEF GoodList, BucketOf
<1>9. \A k \in DOMAIN l.mem : BucketOf(p, g, l.mem[k], k, h)
  BY <1>7, <1>8
<1>10. GoodList(p, g, h)
  BY <1>5, <1>9 DEF GoodList, BucketOf
<1>11. QED
  BY <1>2, <1>3, <1>5, <1>7, <1>9, <1>10 DEF p

\* A bucket that a recorder holds stays one of its date while lists grow.
LEMMA BucketStays ==
  ASSUME NEW g \in Grains, NEW f, NEW h, Tally(f), Tally(h), NEW l \in Lists, NEW p \in Lists, NEW i, NEW k,
         BucketOf(l, g, i, k, f), Grows(f, h), Extends(l, p)
  PROVE  BucketOf(p, g, i, k, h)
<1>1. Len(l.bucket) \in Nat /\ Len(p.bucket) \in Nat /\ i \in 1..Len(p.bucket) /\ l.bucket[i] \in Nat
      /\ p.bucket[i] = l.bucket[i]
  BY LenProperties, ElementOfSeq DEF Lists, BucketOf, Extends
<1>2. Seen(f, g, k) \in Nat /\ Seen(h, g, k) \in Nat /\ Seen(f, g, k) <= Seen(h, g, k)
  BY SeenIs, SeenGrows
<1>3. p.bucket[i] <= Seen(h, g, k)
  BY <1>1, <1>2 DEF BucketOf
<1>4. \A x \in DOMAIN p.mem : p.mem[x] = i => x = k
  BY <1>1 DEF BucketOf, Extends
<1>5. QED
  BY <1>1, <1>3, <1>4 DEF BucketOf

LEMMA GoodStays ==
  ASSUME NEW g \in Grains, NEW f, NEW h, Tally(f), Tally(h), NEW l \in Lists, GoodList(l, g, f), Grows(f, h)
  PROVE  GoodList(l, g, h)
<1>1. \A k : Seen(f, g, k) \in Nat /\ Seen(h, g, k) \in Nat /\ Seen(f, g, k) <= Seen(h, g, k)
  BY SeenIs, SeenGrows
<1>2. \A i \in 1..Len(l.bucket) : l.bucket[i] \in Nat
  BY LenProperties, ElementOfSeq DEF Lists
<1>3. QED
  BY <1>1, <1>2 DEF GoodList
-------------------------------------------------------------------------------
(* Steps of NothingCountedTwice.                                                *)

\* The lists stay good, counts grow, and the buckets of the calculators C that somebody may hold
\* stay those of their keys.
HeapLater(C) ==
  /\ heap' \in [Calcs -> [Grains -> Lists]]
  /\ Tally(counted') /\ Grows(counted, counted')
  /\ \A c \in Calcs, g \in Grains : GoodList(heap'[c][g], g, counted')
  /\ \A c \in C, g \in Grains : \A i, k :
       BucketOf(heap[c][g], g, i, k, counted) => BucketOf(heap'[c][g], g, i, k, counted')

LEMMA IdleIsJob ==
  ASSUME StatsAssumption
  PROVE  /\ Idle \in Jobs /\ Idle.step = "idle"
         /\ 0 \in Minutes
<1>1. 0 \in Minutes
  BY DEF StatsAssumption, Minutes
<1>2. QED
  BY <1>1 DEF Idle, Jobs

\* A recorder that makes no step still holds its buckets.
LEMMA OthersStay ==
  ASSUME StatsAssumption, CountInv, NEW C, HeapLater(C), clock' \in Minutes, clock <= clock',
         NEW v \in Users, job'[v] = job[v], job[v].step \in {"bean", "store"} => job[v].calc \in C
  PROVE  GoodJob(v)'
<1>1. GoodJob(v) /\ job[v] \in Jobs /\ clock \in Nat /\ clock' \in Nat /\ Tally(counted)
  BY MinutesAreNat DEF CountInv, TypedStats
<1>2. job[v].date \in Nat
  BY <1>1, MinutesAreNat DEF Jobs
<1>3. job[v].step \in {"bean", "store"} => HoldsOwn(v)'
  BY <1>1 DEF GoodJob, HoldsOwn, HeapLater
<1>4. ASSUME job[v].step = "store"
      PROVE  job[v].value <= Seen(counted', StoreOrder[job[v].at], job[v].bean.key)
  <2> DEFINE g == StoreOrder[job[v].at]
             k == job[v].bean.key
  <2>1. g \in Grains
    BY <1>1, <1>4 DEF GoodJob, StoreOrder, Grains
  <2>2. job[v].value \in Nat /\ job[v].value <= Seen(counted, g, k)
    BY <1>1, <1>4 DEF GoodJob, Jobs
  <2> HIDE DEF g, k
  <2>3. Seen(counted, g, k) \in Nat /\ Seen(counted', g, k) \in Nat /\ Seen(counted, g, k) <= Seen(counted', g, k)
    BY <1>1, <2>1, SeenIs, SeenGrows DEF HeapLater
  <2>4. QED
    BY <2>2, <2>3 DEF g, k
<1>5. QED
  BY <1>1, <1>2, <1>3, <1>4 DEF GoodJob

LEMMA HeapSame ==
  ASSUME CountInv, heap' = heap, counted' = counted PROVE HeapLater(Calcs)
<1>1. Grows(counted, counted) /\ Tally(counted)
  <2>1. Tally(counted)
    BY DEF CountInv, TypedStats
  <2>2. \A g \in Grains : \A k \in KeysOf(g) : counted[g][k] \in Nat
    BY <2>1 DEF Tally
  <2>3. QED
    BY <2>1, <2>2 DEF Grows
<1>2. QED
  BY <1>1 DEF HeapLater, CountInv, TypedStats

\* A list whose bean alone is another.
LEMMA HeapBeans ==
  ASSUME CountInv, NEW c \in Calcs, NEW g \in Grains, NEW b \in Beans \cup {None},
         heap' = [heap EXCEPT ![c][g].bean = b], counted' = counted
  PROVE  HeapLater(Calcs)
<1>1. Grows(counted, counted) /\ Tally(counted)
  <2>1. Tally(counted)
    BY DEF CountInv, TypedStats
  <2>2. \A x \in Grains : \A k \in KeysOf(x) : counted[x][k] \in Nat
    BY <2>1 DEF Tally
  <2>3. QED
    BY <2>1, <2>2 DEF Grows
<1>2. heap \in [Calcs -> [Grains -> Lists]]
  BY DEF CountInv, TypedStats
<1>3. \A d \in Calcs, x \in Grains :
        /\ heap'[d][x] \in Lists
        /\ heap'[d][x].bucket = heap[d][x].bucket /\ heap'[d][x].mem = heap[d][x].mem
  <2> TAKE d \in Calcs, x \in Grains
  <2>1. heap[d][x] \in Lists
    BY <1>2
  <2>2. heap'[d][x] = IF d = c /\ x = g THEN [heap[d][x] EXCEPT !.bean = b] ELSE heap[d][x]
    BY <1>2
  <2> DEFINE l == heap[d][x]
  <2>3. l \in Lists
    BY <2>1
  <2> HIDE DEF l
  <2>4. [l EXCEPT !.bean = b] \in Lists /\ [l EXCEPT !.bean = b].bucket = l.bucket /\ [l EXCEPT !.bean = b].mem = l.mem
    BY <2>3 DEF Lists
  <2>5. QED
    BY <2>2, <2>3, <2>4 DEF l
<1>4. heap' \in [Calcs -> [Grains -> Lists]]
  <2>1. heap' = [d \in Calcs |-> heap'[d]] /\ \A d \in Calcs : heap'[d] = [x \in Grains |-> heap'[d][x]]
    BY <1>2
  <2>2. QED
    BY <1>3, <2>1
<1>5. QED
  BY <1>1, <1>3, <1>4 DEF HeapLater, CountInv, GoodList, BucketOf

\* The lists of one calculator are others, which go on from what it had.
LEMMA HeapAt ==
  ASSUME CountInv, NEW c \in Calcs, NEW new, new \in [Grains -> Lists], heap' = [heap EXCEPT ![c] = new],
         Tally(counted'), Grows(counted, counted'),
         \A g \in Grains : GoodList(new[g], g, counted'),
         \A g \in Grains : \A i, k : BucketOf(heap[c][g], g, i, k, counted) => BucketOf(new[g], g, i, k, counted')
  PROVE  HeapLater(Calcs)
<1>1. heap \in [Calcs -> [Grains -> Lists]] /\ Tally(counted)
  BY DEF CountInv, TypedStats
<1>2. heap'[c] = new /\ \A d \in Calcs : d # c => heap'[d] = heap[d]
  BY <1>1
<1>3. heap' \in [Calcs -> [Grains -> Lists]]
  BY <1>1
<1>4. ASSUME NEW d \in Calcs, NEW g \in Grains
      PROVE  /\ GoodList(heap'[d][g], g, counted')
             /\ \A i, k : BucketOf(heap[d][g], g, i, k, counted) => BucketOf(heap'[d][g], g, i, k, counted')
  <2>1. CASE d = c
    BY <1>2, <2>1
  <2>2. CASE d # c
    <3>1. heap'[d] = heap[d] /\ heap[d][g] \in Lists /\ GoodList(heap[d][g], g, counted)
      BY <1>1, <1>2, <2>2 DEF CountInv
    <3>2. GoodList(heap[d][g], g, counted')
      BY <1>1, <3>1, GoodStays
    <3>3. \A i, k : BucketOf(heap[d][g], g, i, k, counted) => BucketOf(heap[d][g], g, i, k, counted')
      BY <1>1, <3>1, BucketStays, ExtendsItself
    <3>4. QED
      BY <3>1, <3>2, <3>3
  <2>3. QED
    BY <2>1, <2>2
<1>5. QED
  BY <1>3, <1>4 DEF HeapLater

\* A reader's or recorder's use of a calculator.
LEMMA UseGood ==
  ASSUME StatsAssumption, CountInv, NEW u \in Users, NEW c \in Calcs, NEW calc,
         calc \in [Grains -> Lists],
         \A g \in Grains : GoodList(calc[g], g, counted) /\ Extends(heap[c][g], calc[g]),
         Use(u, c, calc), clock' = clock
  PROVE  /\ HeapLater(Calcs)
         /\ job' = [job EXCEPT ![u] = job'[u]] /\ job'[u] \in Jobs /\ GoodJob(u)'
         /\ failed' \in BOOLEAN
<1>1. /\ heap \in [Calcs -> [Grains -> Lists]] /\ Tally(counted) /\ clock \in Minutes
      /\ job \in [Users -> Jobs] /\ failed \in BOOLEAN
  BY DEF CountInv, TypedStats
<1>2. \A g \in Grains : Key(g, clock) \in Nat /\ Key(g, clock) \in KeysOf(g)
                        /\ Limit[g] \in Nat \ {0} /\ \A k : 0 <= Seen(counted, g, k)
  BY <1>1, KeysOfDates, SeenIs DEF StatsAssumption
<1>3. ASSUME NEW g \in Grains
      PROVE  LET p == Ensure(calc[g], g, Key(g, clock))
             IN p \in Lists /\ GoodList(p, g, counted) /\ Extends(heap[c][g], p)
  <2> DEFINE p == Ensure(calc[g], g, Key(g, clock))
  <2>1. calc[g] \in Lists /\ heap[c][g] \in Lists
    BY <1>1
  <2>2. p \in Lists /\ GoodList(p, g, counted) /\ Extends(calc[g], p)
    BY <1>2, <2>1, EnsureGood
  <2> HIDE DEF p
  <2>3. Extends(heap[c][g], p)
    BY <2>1, <2>2, ExtendsOn
  <2>4. QED
    BY <2>2, <2>3 DEF p
<1>4. CASE u \in Recorders
  <2> DEFINE ready == Ready(calc, clock)
             reached == Reached(ready, clock)
             new == [g \in Grains |->
                       IF g \in reached THEN Increment(ready[g], Key(g, clock)) ELSE ready[g]]
             started == [Idle EXCEPT !.step = "bean", !.calc = c, !.at = 1, !.date = clock, !.current = clock,
                              !.held = [g \in Grains |-> ready[g].mem[Key(g, clock)]]]
  <2>1. /\ heap' = [heap EXCEPT ![c] = new]
        /\ job' = [job EXCEPT ![u] = IF reached = Grains THEN started ELSE Idle]
        /\ failed' = (failed \/ reached # Grains)
        /\ counted' = Add(counted, reached, clock)
    BY <1>4 DEF Use
  <2>2. \A g \in Grains : ready[g] \in Lists /\ GoodList(ready[g], g, counted) /\ Extends(heap[c][g], ready[g])
    BY <1>3 DEF Ready
  <2>3. \A g \in reached : g \in Grains /\ Key(g, clock) \in DOMAIN ready[g].mem
    BY DEF Reached
  <2> HIDE DEF reached, ready
  <2>4. /\ Tally(counted') /\ Grows(counted, counted')
        /\ \A g \in Grains : \A k \in KeysOf(g) :
             counted'[g][k] = counted[g][k] + (IF g \in reached /\ k = Key(g, clock) THEN 1 ELSE 0)
    BY <1>1, <2>1, AddIs
  <2>5. ASSUME NEW g \in reached
        PROVE  LET l == ready[g]
                   p == Increment(l, Key(g, clock))
               IN /\ p \in Lists /\ GoodList(p, g, counted')
                  /\ BucketOf(p, g, l.mem[Key(g, clock)], Key(g, clock), counted')
                  /\ \A i, k : BucketOf(l, g, i, k, counted) => BucketOf(p, g, i, k, counted')
    <3>1. g \in Grains
      BY <2>3
    <3>2. Seen(counted, g, Key(g, clock)) + 1 <= Seen(counted', g, Key(g, clock))
      <4>1. counted[g][Key(g, clock)] \in Nat
        BY <1>1, <1>2, <3>1 DEF Tally
      <4>2. QED
        BY <1>2, <2>4, <3>1, <4>1 DEF Seen
    <3>3. QED
      BY <1>1, <2>2, <2>3, <2>4, <3>1, <3>2, IncrementGood
  <2>6. \A g \in Grains : \A i, k :
          BucketOf(heap[c][g], g, i, k, counted) => BucketOf(ready[g], g, i, k, counted)
    <3>1. Grows(counted, counted)
      BY <1>1 DEF Grows, Tally
    <3>2. QED
      BY <1>1, <2>2, <3>1, BucketStays
  <2>7. ASSUME NEW g \in Grains
        PROVE  /\ new[g] \in Lists /\ GoodList(new[g], g, counted')
               /\ \A i, k : BucketOf(heap[c][g], g, i, k, counted) => BucketOf(new[g], g, i, k, counted')
    <3>1. CASE g \in reached
      BY <2>5, <2>6, <3>1
    <3>2. CASE g \notin reached
      <4>1. new[g] = ready[g]
        BY <3>2
      <4>2. GoodList(ready[g], g, counted')
        BY <1>1, <2>2, <2>4, GoodStays
      <4>3. \A i, k : BucketOf(heap[c][g], g, i, k, counted) => BucketOf(ready[g], g, i, k, counted')
        BY <1>1, <2>2, <2>4, BucketStays
      <4>4. QED
        BY <2>2, <4>1, <4>2, <4>3
    <3>3. QED
      BY <3>1, <3>2
  <2>8. new \in [Grains -> Lists]
    BY <2>7
  <2>9. reached = Grains => \A g \in Grains :
          BucketOf(new[g], g, ready[g].mem[Key(g, clock)], Key(g, clock), counted')
    BY <2>5
  <2> HIDE DEF new
  <2>10. HeapLater(Calcs)
    BY <2>1, <2>4, <2>7, <2>8, HeapAt
  <2>11. job' = [job EXCEPT ![u] = job'[u]] /\ job'[u] = IF reached = Grains THEN started ELSE Idle
    BY <1>1, <2>1
  <2>12. heap'[c] = new
    BY <1>1, <2>1
  <2>13. CASE reached = Grains
    <3>1. \A g \in Grains : ready[g].mem[Key(g, clock)] \in Nat
      <4>1. \A g \in Grains : Key(g, clock) \in DOMAIN ready[g].mem /\ ready[g].mem \in Mems
        BY <2>2, <2>3, <2>13 DEF Lists
      <4>2. QED
        BY <4>1, MemsAre
    <3>2. started \in Jobs
      <4> DEFINE held == [g \in Grains |-> ready[g].mem[Key(g, clock)]]
      <4>1. held \in [Grains -> Nat]
        BY <3>1
      <4>2. started = [Idle EXCEPT !.step = "bean", !.calc = c, !.at = 1, !.date = clock, !.current = clock,
                                   !.held = held]
        OBVIOUS
      <4> HIDE DEF held, started
      <4>3. started = [step |-> "bean", calc |-> c, at |-> 1, date |-> clock, current |-> clock,
                       held |-> held, bean |-> None, value |-> 0]
        BY <4>2 DEF Idle
      <4>4. clock \in Minutes
        BY <1>1
      <4>5. QED
        BY <4>1, <4>3, <4>4 DEF Jobs
    <3>3. /\ started.step = "bean" /\ started.calc = c /\ started.at = 1 /\ started.date = clock
          /\ started.held = [g \in Grains |-> ready[g].mem[Key(g, clock)]]
      BY DEF Idle
    <3> HIDE DEF started
    <3>4. HoldsOwn(u)'
      BY <2>9, <2>11, <2>12, <2>13, <3>3 DEF HoldsOwn
    <3>5. clock <= clock'
      BY <1>1, MinutesAreNat
    <3>6. GoodJob(u)'
      BY <2>11, <2>13, <3>3, <3>4, <3>5 DEF GoodJob
    <3>7. QED
      BY <1>1, <2>1, <2>10, <2>11, <2>13, <3>2, <3>6
  <2>14. CASE reached # Grains
    <3>1. job'[u] = Idle
      BY <2>11, <2>14
    <3>2. GoodJob(u)'
      BY <3>1, IdleIsJob DEF GoodJob
    <3>3. QED
      BY <1>1, <2>1, <2>10, <2>11, <3>1, <3>2, IdleIsJob
  <2>15. QED
    BY <2>13, <2>14
<1>5. CASE u \notin Recorders
  <2>1. PICK g \in Grains : heap' = [heap EXCEPT ![c] = [calc EXCEPT ![g] = Ensure(@, g, Key(g, clock))]]
    BY <1>5 DEF Use
  <2>2. job' = [job EXCEPT ![u] = Idle] /\ counted' = counted /\ failed' = failed
    BY <1>5 DEF Use
  <2> DEFINE p == Ensure(calc[g], g, Key(g, clock))
             new == [calc EXCEPT ![g] = p]
  <2>3. heap' = [heap EXCEPT ![c] = new]
    BY <2>1
  <2>4. p \in Lists /\ GoodList(p, g, counted) /\ Extends(heap[c][g], p)
    BY <1>3
  <2> HIDE DEF p
  <2>5. new \in [Grains -> Lists] /\ new[g] = p /\ \A x \in Grains : x # g => new[x] = calc[x]
    BY <2>4
  <2> HIDE DEF new
  <2>6. Grows(counted, counted)
    BY <1>1 DEF Grows, Tally
  <2>7. \A x \in Grains : new[x] \in Lists /\ GoodList(new[x], x, counted) /\ Extends(heap[c][x], new[x])
    BY <2>4, <2>5
  <2>8. \A x \in Grains : \A i, k : BucketOf(heap[c][x], x, i, k, counted) => BucketOf(new[x], x, i, k, counted)
    BY <1>1, <2>6, <2>7, BucketStays
  <2>9. HeapLater(Calcs)
    <3>1. /\ Tally(counted') /\ Grows(counted, counted')
          /\ \A x \in Grains : GoodList(new[x], x, counted')
          /\ \A x \in Grains : \A i, k : BucketOf(heap[c][x], x, i, k, counted) => BucketOf(new[x], x, i, k, counted')
      BY <1>1, <2>2, <2>6, <2>7, <2>8
    <3>2. QED
      BY <2>3, <2>5, <3>1, HeapAt
  <2>10. job'[u] = Idle /\ job' = [job EXCEPT ![u] = job'[u]]
    BY <1>1, <2>2
  <2>11. GoodJob(u)'
    BY <2>10, IdleIsJob DEF GoodJob
  <2>12. QED
    BY <1>1, <2>2, <2>9, <2>10, <2>11, IdleIsJob
<1>6. QED
  BY <1>4, <1>5

LEMMA RowsAre ==
  ASSUME NEW t \in Tables, NEW k \in DOMAIN t
  PROVE  k \in Int /\ t[k] \in [row : Nat, n : Nat] /\ t[k].row \in Nat /\ t[k].n \in Nat
<1>1. PICK D \in SUBSET Int : t \in [D -> [row : Nat, n : Nat]]
  BY DEF Tables
<1>2. QED
  BY <1>1

\* A job that begins to load.
Begun(c, t) == [Idle EXCEPT !.step = "load", !.calc = c, !.at = 1, !.date = t]

LEMMA LoadingJob ==
  ASSUME StatsAssumption, NEW c \in Calcs, NEW t \in Minutes
  PROVE  LET j == Begun(c, t)
         IN /\ j \in Jobs /\ j.step = "load" /\ j.calc = c /\ j.at = 1 /\ j.date = t
            /\ j.current = 0 /\ j.bean = None
<1> DEFINE j == Begun(c, t)
<1>1. Idle \in Jobs /\ Idle.current = 0 /\ Idle.bean = None
  BY IdleIsJob DEF Idle
<1>2. PICK n \in 0..3, s \in {"idle", "load", "bean", "store", "expire", "beat"} : n = 1 /\ s = "load"
  OBVIOUS
<1>3. j = [Idle EXCEPT !.step = s, !.calc = c, !.at = n, !.date = t]
  BY <1>2 DEF Begun
<1> HIDE DEF j
<1>4. j \in Jobs
  BY <1>1, <1>3 DEF Jobs
<1>5. j.step = s /\ j.calc = c /\ j.at = n /\ j.date = t /\ j.current = Idle.current /\ j.bean = Idle.bean
  BY <1>1, <1>3 DEF Jobs
<1>6. QED
  BY <1>1, <1>2, <1>4, <1>5 DEF j

\* The rows of a table, with no count above one that has grown since.
LEMMA RowsLater ==
  ASSUME Tally(counted), Tally(counted'), Grows(counted, counted'), rows' \in [Grains -> Tables],
         \A g \in Grains : \A k \in DOMAIN rows'[g] : rows'[g][k].n <= Seen(counted, g, k)
  PROVE  \A g \in Grains : \A k \in DOMAIN rows'[g] : rows'[g][k].n <= Seen(counted', g, k)
<1> SUFFICES ASSUME NEW g \in Grains, NEW k \in DOMAIN rows'[g] PROVE rows'[g][k].n <= Seen(counted', g, k)
  OBVIOUS
<1>1. rows'[g][k].n \in Nat
  <2>1. rows'[g] \in Tables
    OBVIOUS
  <2>2. QED
    BY <2>1, RowsAre
<1>2. Seen(counted, g, k) \in Nat /\ Seen(counted', g, k) \in Nat /\ Seen(counted, g, k) <= Seen(counted', g, k)
  BY SeenIs, SeenGrows
<1>3. QED
  BY <1>1, <1>2

\* A step of one recorder or reader.
LEMMA StepOf ==
  ASSUME StatsAssumption, CountInv, NEW u \in Users, NEW C, HeapLater(C),
         clock' = clock, clear' = clear, era' = era,
         list' \in Calcs \cup {None}, failed' \in BOOLEAN, Tally(beats'),
         job' = [job EXCEPT ![u] = job'[u]], job'[u] \in Jobs, GoodJob(u)',
         \A v \in Users : v # u /\ job[v].step \in {"bean", "store"} => job[v].calc \in C,
         rows' \in [Grains -> Tables],
         \A g \in Grains : \A k \in DOMAIN rows'[g] : rows'[g][k].n <= Seen(counted, g, k)
  PROVE  CountInv'
<1>1. TypedStats
  BY DEF CountInv
<1>2. job' \in [Users -> Jobs] /\ \A v \in Users : v # u => job'[v] = job[v]
  <2>1. job \in [Users -> Jobs]
    BY <1>1 DEF TypedStats
  <2> DEFINE j == job'[u]
  <2>2. job' = [job EXCEPT ![u] = j] /\ j \in Jobs
    OBVIOUS
  <2> HIDE DEF j
  <2>3. QED
    BY <2>1, <2>2
<1>3. TypedStats'
  BY <1>1, <1>2 DEF TypedStats, HeapLater, Minutes, Grains, Users
<1>4. clock' \in Minutes /\ clock <= clock'
  BY <1>1, MinutesAreNat DEF TypedStats
<1>5. \A v \in Users : GoodJob(v)'
  <2> TAKE v \in Users
  <2>1. CASE v = u
    BY <2>1
  <2>2. CASE v # u
    BY <1>2, <1>4, <2>2, OthersStay
  <2>3. QED
    BY <2>1, <2>2
<1>6. \A g \in Grains : \A k \in DOMAIN rows'[g] : rows'[g][k].n <= Seen(counted', g, k)
  BY <1>1, RowsLater DEF HeapLater, TypedStats
<1>7. QED
  BY <1>3, <1>5, <1>6 DEF CountInv, HeapLater

LEMMA AskCounts ==
  ASSUME StatsAssumption, CountInv, NEW u \in Users, Ask(u) PROVE CountInv'
<1>1. list \in Calcs /\ Use(u, list, heap[list]) /\ list' = list /\ rows' = rows /\ Unchanged(u)
  BY DEF Ask, CountInv, TypedStats
<1>2. heap[list] \in [Grains -> Lists] /\ Tally(beats) /\ rows \in [Grains -> Tables]
  BY <1>1 DEF CountInv, TypedStats
<1>3. \A g \in Grains : GoodList(heap[list][g], g, counted) /\ Extends(heap[list][g], heap[list][g])
  BY <1>1, <1>2, ExtendsItself DEF CountInv
<1>4. clock' = clock /\ clear' = clear /\ era' = era /\ beats' = beats
  BY <1>1 DEF Unchanged
<1>5. /\ HeapLater(Calcs)
      /\ job' = [job EXCEPT ![u] = job'[u]] /\ job'[u] \in Jobs /\ GoodJob(u)' /\ failed' \in BOOLEAN
  BY <1>1, <1>2, <1>3, <1>4, UseGood
<1>6. \A v \in Users : job[v].step \in {"bean", "store"} => job[v].calc \in Calcs
  BY DEF CountInv, GoodJob
<1>7. \A g \in Grains : \A k \in DOMAIN rows'[g] : rows'[g][k].n <= Seen(counted, g, k)
  BY <1>1 DEF CountInv
<1>8. QED
  BY <1>1, <1>2, <1>4, <1>5, <1>6, <1>7, StepOf

LEMMA AskFirstCounts ==
  ASSUME StatsAssumption, CountInv, NEW u \in Users, AskFirst(u) PROVE CountInv'
<1>1. PICK c \in {x \in Calcs : ~InUse(x)} :
       /\ list' = c
       /\ heap' = [heap EXCEPT ![c] =
                     [g \in Grains |-> IF g = LoadOrder[1]
                                       THEN Ensure(Empty, g, Since(g, clock)) ELSE Empty]]
       /\ job' = [job EXCEPT ![u] = [Idle EXCEPT !.step = "load", !.calc = c, !.at = 1, !.date = clock]]
  BY DEF AskFirst
<1>2. rows' = rows /\ counted' = counted /\ failed' = failed /\ clock' = clock /\ clear' = clear /\ era' = era /\ beats' = beats
  BY DEF AskFirst, Unchanged
<1>3. /\ heap \in [Calcs -> [Grains -> Lists]] /\ Tally(counted) /\ Tally(beats) /\ clock \in Minutes
      /\ job \in [Users -> Jobs] /\ failed \in BOOLEAN /\ rows \in [Grains -> Tables]
  BY DEF CountInv, TypedStats
<1> DEFINE new == [g \in Grains |-> IF g = LoadOrder[1]
                                    THEN Ensure(Empty, g, Since(g, clock)) ELSE Empty]
<1>4. \A g \in Grains : new[g] \in Lists /\ GoodList(new[g], g, counted)
  <2> TAKE g \in Grains
  <2>1. Since(g, clock) \in Int /\ Limit[g] \in Nat \ {0} /\ 0 <= Seen(counted, g, Since(g, clock))
    BY <1>3, KeysOfDates, SeenIs DEF StatsAssumption
  <2> DEFINE p == Ensure(Empty, g, Since(g, clock))
  <2>2. p \in Lists /\ GoodList(p, g, counted)
    BY <2>1, EmptyIsList, EnsureGood
  <2> HIDE DEF p
  <2>3. Empty \in Lists /\ GoodList(Empty, g, counted)
    BY EmptyIsList
  <2>4. new[g] = IF g = LoadOrder[1] THEN p ELSE Empty
    BY DEF p
  <2> HIDE DEF new
  <2>5. QED
    BY <2>2, <2>3, <2>4
<1>5. new \in [Grains -> Lists]
  BY <1>4
<1> HIDE DEF new
<1>6. heap' = [heap EXCEPT ![c] = new]
  BY <1>1 DEF new
<1>7. HeapLater(Calcs \ {c})
  <2>1. heap' \in [Calcs -> [Grains -> Lists]] /\ heap'[c] = new /\ \A d \in Calcs : d # c => heap'[d] = heap[d]
    BY <1>3, <1>5, <1>6
  <2>2. Tally(counted') /\ Grows(counted, counted')
    BY <1>2, <1>3 DEF Grows, Tally
  <2>3. \A d \in Calcs, g \in Grains : GoodList(heap'[d][g], g, counted')
    <3> TAKE d \in Calcs, g \in Grains
    <3>1. CASE d = c
      BY <1>2, <1>4, <2>1, <3>1
    <3>2. CASE d # c
      BY <1>2, <2>1, <3>2 DEF CountInv
    <3>3. QED
      BY <3>1, <3>2
  <2>4. QED
    BY <1>2, <2>1, <2>2, <2>3 DEF HeapLater
<1> DEFINE started == Begun(c, clock)
<1>8. started \in Jobs /\ started.step = "load" /\ started.calc = c /\ started.at = 1 /\ started.date = clock
  <2>1. c \in Calcs /\ clock \in Minutes
    BY <1>3
  <2>2. QED
    BY <2>1, LoadingJob
<1>9. job' = [job EXCEPT ![u] = started]
  BY <1>1 DEF Begun
<1> HIDE DEF started
<1>10. job'[u] = started /\ job' = [job EXCEPT ![u] = job'[u]]
  BY <1>3, <1>9
<1>11. GoodJob(u)'
  <2>1. clock <= clock'
    BY <1>2, <1>3, MinutesAreNat
  <2>2. QED
    BY <1>8, <1>10, <2>1 DEF GoodJob
<1>12. \A v \in Users : v # u /\ job[v].step \in {"bean", "store"} => job[v].calc \in Calcs \ {c}
  BY DEF CountInv, GoodJob, InUse
<1>13. \A g \in Grains : \A k \in DOMAIN rows'[g] : rows'[g][k].n <= Seen(counted, g, k)
  BY <1>2 DEF CountInv
<1>14. QED
  BY <1>1, <1>2, <1>3, <1>7, <1>8, <1>10, <1>11, <1>12, <1>13, StepOf

LEMMA LoadCounts ==
  ASSUME StatsAssumption, CountInv, NEW u \in Users, Load(u) PROVE CountInv'
<1> DEFINE j == job[u]
           calc == [g \in Grains |->
                      IF g = LoadOrder[j.at] THEN LoadRows(heap[j.calc][g], g, j.date)
                      ELSE IF j.at < Len(LoadOrder) /\ g = LoadOrder[j.at + 1]
                      THEN Ensure(heap[j.calc][g], g, Since(g, j.date))
                      ELSE heap[j.calc][g]]
<1>1. /\ list' = list /\ rows' = rows /\ clock' = clock /\ clear' = clear /\ era' = era /\ beats' = beats
      /\ j.step = "load"
  BY DEF Load, Unchanged
<1>2. /\ heap \in [Calcs -> [Grains -> Lists]] /\ Tally(counted) /\ Tally(beats) /\ clock \in Minutes
      /\ list \in Calcs \cup {None}
      /\ job \in [Users -> Jobs] /\ failed \in BOOLEAN /\ rows \in [Grains -> Tables]
  BY DEF CountInv, TypedStats
<1>3. j \in Jobs /\ j.calc \in Calcs /\ j.date \in Minutes /\ j.date <= clock /\ j.at \in 1..3
  <2>1. j \in Jobs
    BY <1>2
  <2>2. QED
    BY <1>1, <2>1 DEF CountInv, GoodJob, Jobs
<1>4. \/ /\ j.at < 3 /\ heap' = [heap EXCEPT ![j.calc] = calc] /\ job' = [job EXCEPT ![u].at = @ + 1]
         /\ counted' = counted /\ failed' = failed
      \/ /\ list = None /\ heap' = [heap EXCEPT ![j.calc] = calc] /\ job' = [job EXCEPT ![u] = Idle]
         /\ counted' = counted /\ failed' = failed
      \/ /\ list # None /\ Use(u, list, IF list = j.calc THEN calc ELSE heap[list])
  <2> HIDE DEF calc
  <2>1. Len(LoadOrder) = 3
    BY DEF LoadOrder
  <2>2. QED
    BY <2>1 DEF Load, calc
<1>5. ASSUME NEW g \in Grains
      PROVE  calc[g] \in Lists /\ GoodList(calc[g], g, counted) /\ Extends(heap[j.calc][g], calc[g])
  <2> DEFINE l == heap[j.calc][g]
  <2>1. l \in Lists /\ GoodList(l, g, counted)
    BY <1>2, <1>3 DEF CountInv
  <2> HIDE DEF l, j
  <2>2. /\ LoadRows(l, g, j.date) \in Lists /\ GoodList(LoadRows(l, g, j.date), g, counted)
        /\ Extends(l, LoadRows(l, g, j.date))
    <3>1. \A k \in DOMAIN rows[g] : rows[g][k].n <= Seen(counted, g, k)
      BY DEF CountInv
    <3>2. QED
      BY <1>2, <1>3, <2>1, <3>1, LoadGood
  <2>3. Since(g, j.date) \in Int /\ Limit[g] \in Nat \ {0} /\ 0 <= Seen(counted, g, Since(g, j.date))
    BY <1>2, <1>3, KeysOfDates, SeenIs DEF StatsAssumption
  <2>4. /\ Ensure(l, g, Since(g, j.date)) \in Lists
        /\ GoodList(Ensure(l, g, Since(g, j.date)), g, counted)
        /\ Extends(l, Ensure(l, g, Since(g, j.date)))
    BY <2>1, <2>3, EnsureGood
  <2>5. Extends(l, l)
    BY <2>1, ExtendsItself
  <2>6. calc[g] \in {l, LoadRows(l, g, j.date), Ensure(l, g, Since(g, j.date))}
    BY DEF l
  <2> HIDE DEF calc
  <2>7. QED
    BY <2>1, <2>2, <2>4, <2>5, <2>6 DEF l
<1>6. calc \in [Grains -> Lists]
  BY <1>5
<1> HIDE DEF calc
<1>7. \A v \in Users : job[v].step \in {"bean", "store"} => job[v].calc \in Calcs
  BY DEF CountInv, GoodJob
<1>8. \A g \in Grains : \A k \in DOMAIN rows'[g] : rows'[g][k].n <= Seen(counted, g, k)
  BY <1>1 DEF CountInv
<1>9. ASSUME heap' = [heap EXCEPT ![j.calc] = calc], counted' = counted PROVE HeapLater(Calcs)
  <2>1. Tally(counted') /\ Grows(counted, counted')
    BY <1>2, <1>9 DEF Grows, Tally
  <2>2. \A g \in Grains : GoodList(calc[g], g, counted')
    BY <1>5, <1>9
  <2>3. \A g \in Grains : \A i, k : BucketOf(heap[j.calc][g], g, i, k, counted) => BucketOf(calc[g], g, i, k, counted')
    <3>1. \A g \in Grains : heap[j.calc][g] \in Lists
      BY <1>2, <1>3
    <3>2. QED
      BY <1>2, <1>5, <2>1, <3>1, BucketStays
  <2> HIDE DEF j
  <2>4. QED
    BY <1>3, <1>6, <1>9, <2>1, <2>2, <2>3, HeapAt
<1>10. CASE j.at < 3 /\ heap' = [heap EXCEPT ![j.calc] = calc] /\ job' = [job EXCEPT ![u].at = @ + 1]
            /\ counted' = counted /\ failed' = failed
  <2>1. job'[u] = [j EXCEPT !.at = @ + 1] /\ job' = [job EXCEPT ![u] = job'[u]]
    BY <1>2, <1>10
  <2>2. /\ job'[u] \in Jobs /\ job'[u].step = "load" /\ job'[u].calc = j.calc /\ job'[u].date = j.date
        /\ job'[u].at = j.at + 1
    <3> HIDE DEF j
    <3>1. QED
      BY <1>1, <1>3, <1>10, <2>1 DEF Jobs
  <2>3. GoodJob(u)'
    <3> HIDE DEF j
    <3>1. QED
      BY <1>1, <1>3, <1>10, <2>2 DEF GoodJob
  <2>4. QED
    BY <1>1, <1>2, <1>7, <1>8, <1>9, <1>10, <2>1, <2>2, <2>3, StepOf
<1>11. CASE list = None /\ heap' = [heap EXCEPT ![j.calc] = calc] /\ job' = [job EXCEPT ![u] = Idle]
            /\ counted' = counted /\ failed' = failed
  <2>1. job'[u] = Idle /\ job' = [job EXCEPT ![u] = job'[u]]
    BY <1>2, <1>11
  <2>2. job'[u] \in Jobs /\ GoodJob(u)'
    BY <2>1, IdleIsJob DEF GoodJob
  <2>3. QED
    BY <1>1, <1>2, <1>7, <1>8, <1>9, <1>11, <2>1, <2>2, StepOf
<1>12. CASE list # None /\ Use(u, list, IF list = j.calc THEN calc ELSE heap[list])
  <2> DEFINE used == IF list = j.calc THEN calc ELSE heap[list]
  <2>1. list \in Calcs
    BY <1>2, <1>12
  <2>2. used \in [Grains -> Lists]
    BY <1>2, <1>6, <2>1
  <2>3. \A g \in Grains : GoodList(used[g], g, counted) /\ Extends(heap[list][g], used[g])
    <3> TAKE g \in Grains
    <3>1. CASE list = j.calc
      BY <1>5, <3>1
    <3>2. CASE list # j.calc
      <4>1. heap[list][g] \in Lists /\ GoodList(heap[list][g], g, counted)
        BY <1>2, <2>1 DEF CountInv
      <4>2. QED
        BY <3>2, <4>1, ExtendsItself
    <3>3. QED
      BY <3>1, <3>2
  <2>4. Use(u, list, used)
    BY <1>12
  <2> HIDE DEF used, j
  <2>5. /\ HeapLater(Calcs)
        /\ job' = [job EXCEPT ![u] = job'[u]] /\ job'[u] \in Jobs /\ GoodJob(u)' /\ failed' \in BOOLEAN
    BY <1>1, <2>1, <2>2, <2>3, <2>4, UseGood
  <2>6. QED
    BY <1>1, <1>2, <1>7, <1>8, <2>5, StepOf
<1>13. QED
  BY <1>4, <1>10, <1>11, <1>12

LEMMA HoldsLater ==
  ASSUME NEW u \in Users, HoldsOwn(u), HeapLater(Calcs), job[u].calc \in Calcs,
         job'[u].calc = job[u].calc, job'[u].held = job[u].held, job'[u].date = job[u].date
  PROVE  HoldsOwn(u)'
BY DEF HoldsOwn, HeapLater

\* A job with a bean to store, one whose bean is stored, and one with all of them stored.
Issued(j, b, n) == [j EXCEPT !.step = "store", !.bean = b, !.value = n]
NextBean(j, t)  == [j EXCEPT !.step = "bean", !.at = @ + 1, !.bean = None, !.current = t]
AllStored(j)    == [j EXCEPT !.step = "expire", !.at = 1, !.bean = None]

LEMMA IssuedJob ==
  ASSUME NEW j \in Jobs, NEW b \in Beans, NEW n \in Nat
  PROVE  LET i == Issued(j, b, n)
         IN /\ i \in Jobs /\ i.step = "store" /\ i.bean = b /\ i.value = n
            /\ i.calc = j.calc /\ i.at = j.at /\ i.date = j.date /\ i.held = j.held /\ i.current = j.current
<1> DEFINE i == Issued(j, b, n)
<1>1. PICK s \in {"idle", "load", "bean", "store", "expire", "beat"} : s = "store"
  OBVIOUS
<1>2. i = [j EXCEPT !.step = s, !.bean = b, !.value = n]
  BY <1>1 DEF Issued
<1> HIDE DEF i
<1>3. i \in Jobs
  BY <1>2 DEF Jobs
<1>4. /\ i.step = s /\ i.bean = b /\ i.value = n
      /\ i.calc = j.calc /\ i.at = j.at /\ i.date = j.date /\ i.held = j.held /\ i.current = j.current
  BY <1>2 DEF Jobs
<1>5. QED
  BY <1>1, <1>3, <1>4 DEF i

LEMMA NextBeanJob ==
  ASSUME NEW j \in Jobs, j.at < 3, NEW t \in Minutes
  PROVE  LET i == NextBean(j, t)
         IN /\ i \in Jobs /\ i.step = "bean" /\ i.at = j.at + 1 /\ i.current = t /\ i.bean = None
            /\ i.calc = j.calc /\ i.date = j.date /\ i.held = j.held
<1> DEFINE i == NextBean(j, t)
<1>0. j.at + 1 \in 0..3
  BY DEF Jobs
<1>1. PICK n \in 0..3, s \in {"idle", "load", "bean", "store", "expire", "beat"} : n = j.at + 1 /\ s = "bean"
  BY <1>0
<1>2. i = [j EXCEPT !.step = s, !.at = n, !.bean = None, !.current = t]
  BY <1>1 DEF NextBean
<1> HIDE DEF i
<1>3. i \in Jobs
  BY <1>2 DEF Jobs
<1>4. /\ i.step = s /\ i.at = n /\ i.current = t /\ i.bean = None
      /\ i.calc = j.calc /\ i.date = j.date /\ i.held = j.held
  BY <1>2 DEF Jobs
<1>5. QED
  BY <1>1, <1>3, <1>4 DEF i

LEMMA AllStoredJob ==
  ASSUME NEW j \in Jobs
  PROVE  LET i == AllStored(j)
         IN /\ i \in Jobs /\ i.step = "expire" /\ i.at = 1 /\ i.bean = None
            /\ i.calc = j.calc /\ i.date = j.date /\ i.held = j.held /\ i.current = j.current
<1> DEFINE i == AllStored(j)
<1>1. PICK n \in 0..3, s \in {"idle", "load", "bean", "store", "expire", "beat"} : n = 1 /\ s = "expire"
  OBVIOUS
<1>2. i = [j EXCEPT !.step = s, !.at = n, !.bean = None]
  BY <1>1 DEF AllStored
<1> HIDE DEF i
<1>3. i \in Jobs
  BY <1>2 DEF Jobs
<1>4. /\ i.step = s /\ i.at = n /\ i.bean = None
      /\ i.calc = j.calc /\ i.date = j.date /\ i.held = j.held /\ i.current = j.current
  BY <1>2 DEF Jobs
<1>5. QED
  BY <1>1, <1>3, <1>4 DEF i

\* The bean a recorder finds for a period, cached or not.
Found(u, g) ==
  [key |-> Key(g, job[u].date), by |-> u,
   row |-> IF Key(g, job[u].date) \in DOMAIN rows[g] THEN rows[g][Key(g, job[u].date)].row ELSE None]
IsCached(u, g) ==
  /\ heap[job[u].calc][g].bean # None
  /\ heap[job[u].calc][g].bean.key = Key(g, job[u].date)
Bean(u, g) == IF IsCached(u, g) THEN heap[job[u].calc][g].bean ELSE Found(u, g)

LEMMA SameBean ==
  ASSUME heap \in [Calcs -> [Grains -> Lists]], NEW c \in Calcs, NEW g \in Grains
  PROVE  heap = [heap EXCEPT ![c][g].bean = heap[c][g].bean]
<1> DEFINE h == heap[c]
           l == h[g]
<1>1. h \in [Grains -> Lists] /\ l \in Lists
  OBVIOUS
<1>2. l = [l EXCEPT !.bean = l.bean]
  <2> HIDE DEF l
  <2>1. QED
    BY <1>1 DEF Lists
<1>3. h = [h EXCEPT ![g] = [l EXCEPT !.bean = l.bean]]
  <2>1. h = [h EXCEPT ![g] = l]
    BY <1>1
  <2>2. QED
    BY <1>2, <2>1
<1>4. heap = [heap EXCEPT ![c] = h]
  OBVIOUS
<1>5. QED
  BY <1>3, <1>4

\* What GetBean does.
LEMMA GetBeanIs ==
  ASSUME StatsAssumption, CountInv, NEW u \in Users, GetBean(u)
  PROVE  LET j == job[u]
             g == StoreOrder[j.at]
         IN /\ j \in Jobs /\ j.step = "bean" /\ j.calc \in Calcs /\ j.at \in 1..3 /\ j.date \in Minutes
            /\ g \in Grains
            /\ Bean(u, g) \in Beans /\ Bean(u, g).key = Key(g, j.date)
            /\ HeldCount(u, g) \in Nat /\ HeldCount(u, g) <= Seen(counted, g, Key(g, j.date))
            /\ heap' = [heap EXCEPT ![j.calc][g].bean = Bean(u, g)]
            /\ job' = [job EXCEPT ![u] = Issued(j, Bean(u, g), HeldCount(u, g))]
            /\ list' = list /\ rows' = rows /\ counted' = counted /\ failed' = failed /\ clock' = clock
            /\ clear' = clear /\ era' = era /\ beats' = beats /\ crashes' = crashes
<1> DEFINE j == job[u]
           g == StoreOrder[j.at]
           k == Key(g, j.date)
<1>1. /\ heap \in [Calcs -> [Grains -> Lists]] /\ job \in [Users -> Jobs] /\ rows \in [Grains -> Tables]
      /\ Tally(counted)
  BY DEF CountInv, TypedStats
<1>2. /\ list' = list /\ rows' = rows /\ counted' = counted /\ failed' = failed /\ clock' = clock
      /\ clear' = clear /\ era' = era /\ beats' = beats /\ crashes' = crashes /\ j.step = "bean"
  BY DEF GetBean, Unchanged
<1>3. /\ j \in Jobs /\ j.calc \in Calcs /\ j.at \in 1..3 /\ j.date \in Minutes /\ HoldsOwn(u)
      /\ g \in Grains
  <2>1. j \in Jobs
    BY <1>1
  <2>2. j.calc \in Calcs /\ j.at \in 1..3 /\ HoldsOwn(u) /\ j.date \in Minutes
    BY <1>2, <2>1 DEF CountInv, GoodJob, Jobs
  <2>3. QED
    BY <2>1, <2>2 DEF StoreOrder, Grains
<1>4. k \in Nat
  BY <1>3, KeysOfDates
<1>5. HeldCount(u, g) \in Nat /\ HeldCount(u, g) <= Seen(counted, g, k)
  <2> HIDE DEF g
  <2>1. heap[j.calc][g] \in Lists /\ BucketOf(heap[j.calc][g], g, j.held[g], k, counted)
    BY <1>1, <1>3 DEF HoldsOwn
  <2>2. heap[j.calc][g].bucket \in Seq(Nat)
    BY <2>1 DEF Lists
  <2>3. QED
    BY <2>1, <2>2, ElementOfSeq DEF BucketOf, HeldCount
<1>6. Found(u, g) \in Beans /\ Found(u, g).key = k
  <2> DEFINE r == IF k \in DOMAIN rows[g] THEN rows[g][k].row ELSE None
  <2> HIDE DEF g
  <2>1. rows[g] \in Tables
    BY <1>1, <1>3
  <2>2. r \in Nat \cup {None}
    BY <2>1, RowsAre
  <2>3. Found(u, g) = [key |-> k, by |-> u, row |-> r]
    BY DEF Found
  <2> HIDE DEF r, k
  <2>4. QED
    BY <1>4, <2>2, <2>3 DEF Beans
<1>7. Bean(u, g) \in Beans /\ Bean(u, g).key = k
  <2>1. heap[j.calc][g].bean \in Beans \cup {None}
    BY <1>1, <1>3 DEF Lists
  <2> HIDE DEF g
  <2>2. QED
    BY <1>6, <2>1 DEF Bean, IsCached
<1>8. /\ heap' = [heap EXCEPT ![j.calc][g].bean = Bean(u, g)]
      /\ job' = [job EXCEPT ![u] = Issued(j, Bean(u, g), HeldCount(u, g))]
  <2>1. CASE IsCached(u, g)
    <3>1. Issue(u, heap[j.calc][g].bean) /\ heap' = heap
      BY <2>1 DEF GetBean, IsCached
    <3>2. Bean(u, g) = heap[j.calc][g].bean
      BY <2>1 DEF Bean
    <3>3. job' = [job EXCEPT ![u] = Issued(j, Bean(u, g), HeldCount(u, g))]
      BY <1>1, <3>1, <3>2 DEF Issue, Issued
    <3>4. heap = [heap EXCEPT ![j.calc][g].bean = heap[j.calc][g].bean]
      BY <1>1, <1>3, SameBean
    <3>5. QED
      BY <3>1, <3>2, <3>3, <3>4
  <2>2. CASE ~IsCached(u, g)
    <3>1. Issue(u, Found(u, g)) /\ heap' = [heap EXCEPT ![j.calc][g].bean = Found(u, g)]
      BY <2>2 DEF GetBean, IsCached, Found
    <3>2. Bean(u, g) = Found(u, g)
      BY <2>2 DEF Bean
    <3>3. QED
      BY <1>1, <3>1, <3>2 DEF Issue, Issued
  <2>3. QED
    BY <2>1, <2>2
<1>9. QED
  BY <1>2, <1>3, <1>5, <1>7, <1>8

LEMMA GetBeanCounts ==
  ASSUME StatsAssumption, CountInv, NEW u \in Users, GetBean(u) PROVE CountInv'
<1> DEFINE j == job[u]
           g == StoreOrder[j.at]
           k == Key(g, j.date)
           b == Bean(u, g)
           n == HeldCount(u, g)
<1>1. /\ j \in Jobs /\ j.step = "bean" /\ j.calc \in Calcs /\ j.at \in 1..3 /\ g \in Grains
      /\ b \in Beans /\ b.key = k /\ n \in Nat /\ n <= Seen(counted, g, k)
      /\ heap' = [heap EXCEPT ![j.calc][g].bean = b] /\ job' = [job EXCEPT ![u] = Issued(j, b, n)]
      /\ list' = list /\ rows' = rows /\ counted' = counted /\ failed' = failed /\ clock' = clock
      /\ clear' = clear /\ era' = era /\ beats' = beats
  BY GetBeanIs
<1>2. /\ job \in [Users -> Jobs] /\ TypedStats /\ HoldsOwn(u) /\ j.date <= clock
  BY <1>1 DEF CountInv, TypedStats, GoodJob
<1> HIDE DEF b, n
<1>3. HeapLater(Calcs)
  <2>1. b \in Beans \cup {None}
    BY <1>1
  <2> HIDE DEF g, j
  <2>2. QED
    BY <1>1, <2>1, HeapBeans
<1>4. job'[u] = Issued(j, b, n) /\ job' = [job EXCEPT ![u] = job'[u]]
  BY <1>1, <1>2
<1>5. /\ job'[u] \in Jobs /\ job'[u].step = "store" /\ job'[u].bean = b /\ job'[u].value = n
      /\ job'[u].calc = j.calc /\ job'[u].at = j.at /\ job'[u].date = j.date /\ job'[u].held = j.held
  BY <1>1, <1>4, IssuedJob
<1>6. HoldsOwn(u)'
  BY <1>1, <1>2, <1>3, <1>5, HoldsLater
<1>8. GoodJob(u)'
  BY <1>1, <1>2, <1>5, <1>6 DEF GoodJob
<1>9. \A v \in Users : job[v].step \in {"bean", "store"} => job[v].calc \in Calcs
  BY DEF CountInv, GoodJob
<1>10. \A x \in Grains : \A y \in DOMAIN rows'[x] : rows'[x][y].n <= Seen(counted, x, y)
  BY <1>1 DEF CountInv
<1>11. QED
  BY <1>1, <1>2, <1>3, <1>4, <1>5, <1>8, <1>9, <1>10, StepOf DEF TypedStats

\* What StoreBean does: R.store() fails, or the bean's row is the count, if it is there at all.
StoreFails(u) ==
  /\ job[u].bean.row = None /\ job[u].bean.key \in DOMAIN rows[StoreOrder[job[u].at]]
StoreWrites(u, g) ==
  \/ job[u].bean.row = None
  \/ job[u].bean.key \in DOMAIN rows[g] /\ rows[g][job[u].bean.key].row = job[u].bean.row
NewRow(u, g) == [row |-> IF job[u].bean.row = None THEN era[g] ELSE job[u].bean.row, n |-> job[u].value]
WithKey(t, k, r) == [x \in DOMAIN t \cup {k} |-> IF x # k THEN t[x] ELSE r]
StoredBean(u, g) ==
  IF job[u].bean.row = None /\ heap[job[u].calc][g].bean = job[u].bean
  THEN [job[u].bean EXCEPT !.row = era[g]] ELSE heap[job[u].calc][g].bean
AfterStore(u) ==
  IF job[u].at < 3 THEN NextBean(job[u], IF job[u].at = 1 THEN clock ELSE job[u].current) ELSE AllStored(job[u])

LEMMA WithKeyIs ==
  ASSUME NEW t \in Tables, NEW k \in Int, NEW r \in [row : Nat, n : Nat]
  PROVE  /\ WithKey(t, k, r) \in Tables /\ DOMAIN WithKey(t, k, r) = DOMAIN t \cup {k}
         /\ WithKey(t, k, r)[k] = r
         /\ \A x \in DOMAIN t : x # k => WithKey(t, k, r)[x] = t[x]
<1>1. PICK D \in SUBSET Int : t \in [D -> [row : Nat, n : Nat]]
  BY DEF Tables
<1>2. WithKey(t, k, r) \in [D \cup {k} -> [row : Nat, n : Nat]]
  BY <1>1 DEF WithKey
<1>3. D \cup {k} \in SUBSET Int
  OBVIOUS
<1>4. QED
  BY <1>1, <1>2, <1>3 DEF Tables, WithKey

LEMMA WithoutIs ==
  ASSUME NEW t \in Tables, NEW ks
  PROVE  /\ Without(t, ks) \in Tables /\ DOMAIN Without(t, ks) = DOMAIN t \ ks
         /\ \A x \in DOMAIN t \ ks : Without(t, ks)[x] = t[x]
<1>1. PICK D \in SUBSET Int : t \in [D -> [row : Nat, n : Nat]]
  BY DEF Tables
<1>2. Without(t, ks) \in [D \ ks -> [row : Nat, n : Nat]] /\ D \ ks \in SUBSET Int
  BY <1>1 DEF Without
<1>3. QED
  BY <1>1, <1>2 DEF Tables, Without

LEMMA StoreBeanIs ==
  ASSUME StatsAssumption, CountInv, NEW u \in Users, StoreBean(u)
  PROVE  LET j == job[u]
             g == StoreOrder[j.at]
         IN /\ j \in Jobs /\ j.step = "store" /\ j.calc \in Calcs /\ j.at \in 1..3 /\ g \in Grains
            /\ j.bean \in Beans /\ j.bean.key = Key(g, j.date)
            /\ NewRow(u, g) \in [row : Nat, n : Nat] /\ StoredBean(u, g) \in Beans \cup {None}
            /\ j.value \in Nat /\ j.value <= Seen(counted, g, j.bean.key)
            /\ list' = list /\ counted' = counted /\ clock' = clock
            /\ clear' = clear /\ era' = era /\ beats' = beats /\ crashes' = crashes
            /\ \/ /\ StoreFails(u)
                  /\ job' = [job EXCEPT ![u] = Idle] /\ failed' = TRUE /\ rows' = rows /\ heap' = heap
               \/ /\ ~StoreFails(u)
                  /\ job' = [job EXCEPT ![u] = AfterStore(u)] /\ failed' = failed
                  /\ heap' = [heap EXCEPT ![j.calc][g].bean = StoredBean(u, g)]
                  /\ rows' = IF StoreWrites(u, g) THEN [rows EXCEPT ![g] = WithKey(@, j.bean.key, NewRow(u, g))] ELSE rows
<1> DEFINE j == job[u]
           g == StoreOrder[j.at]
           insert == j.bean.row = None
           present == j.bean.key \in DOMAIN rows[g]
<1>1. /\ heap \in [Calcs -> [Grains -> Lists]] /\ job \in [Users -> Jobs] /\ rows \in [Grains -> Tables]
      /\ era \in [Grains -> Nat]
  BY DEF CountInv, TypedStats
<1>2. /\ list' = list /\ counted' = counted /\ clock' = clock
      /\ clear' = clear /\ era' = era /\ beats' = beats /\ crashes' = crashes /\ j.step = "store"
  BY DEF StoreBean
<1>3. /\ j \in Jobs /\ j.calc \in Calcs /\ j.at \in 1..3 /\ g \in Grains
      /\ j.bean \in Beans /\ j.bean.key = Key(g, j.date) /\ j.value \in Nat /\ j.value <= Seen(counted, g, j.bean.key)
  <2>1. j \in Jobs
    BY <1>1
  <2>2. /\ j.calc \in Calcs /\ j.at \in 1..3 /\ j.bean \in Beans /\ j.bean.key = Key(g, j.date)
        /\ j.value \in Nat /\ j.value <= Seen(counted, g, j.bean.key)
    BY <1>2, <2>1 DEF CountInv, GoodJob, Jobs
  <2>3. QED
    BY <2>1, <2>2 DEF StoreOrder, Grains
<1>4. j.bean.row \in Nat \cup {None} /\ j.bean.key \in Int
  BY <1>3 DEF Beans
<1>5. NewRow(u, g) \in [row : Nat, n : Nat]
  <2> HIDE DEF g
  <2>1. (IF insert THEN era[g] ELSE j.bean.row) \in Nat
    BY <1>1, <1>3, <1>4
  <2>2. QED
    BY <1>3, <2>1 DEF NewRow
<1>6. StoredBean(u, g) \in Beans \cup {None}
  <2> HIDE DEF g
  <2>1. heap[j.calc][g] \in Lists /\ era[g] \in Nat
    BY <1>1, <1>3
  <2>2. heap[j.calc][g].bean \in Beans \cup {None}
    BY <2>1 DEF Lists
  <2>3. [j.bean EXCEPT !.row = era[g]] \in Beans
    BY <1>3, <2>1 DEF Beans
  <2>4. QED
    BY <2>2, <2>3 DEF StoredBean
<1>7. CASE insert /\ present
  <2>1. job' = [job EXCEPT ![u] = Idle] /\ failed' = TRUE /\ rows' = rows /\ heap' = heap
    BY <1>7 DEF StoreBean
  <2>2. StoreFails(u)
    BY <1>7 DEF StoreFails
  <2>3. QED
    BY <1>2, <1>3, <1>5, <1>6, <2>1, <2>2
<1>8. CASE ~(insert /\ present)
  <2>1. /\ rows' = IF insert \/ (present /\ rows[g][j.bean.key].row = j.bean.row)
                     THEN [rows EXCEPT ![g] =
                             [x \in DOMAIN @ \cup {j.bean.key} |->
                                IF x # j.bean.key THEN @[x]
                                ELSE [row |-> IF insert THEN era[g] ELSE j.bean.row, n |-> j.value]]]
                     ELSE rows
        /\ heap' = IF insert /\ heap[j.calc][g].bean = j.bean
                     THEN [heap EXCEPT ![j.calc][g].bean = [j.bean EXCEPT !.row = era[g]]] ELSE heap
        /\ job' = [job EXCEPT ![u] =
                     IF j.at < Len(StoreOrder)
                     THEN [j EXCEPT !.step = "bean", !.at = @ + 1,
                                    !.bean = None, !.current = IF j.at = 1 THEN clock ELSE @]
                     ELSE [j EXCEPT !.step = "expire", !.at = 1, !.bean = None]]
        /\ failed' = failed
    BY <1>8 DEF StoreBean
  <2>2. ~StoreFails(u)
    BY <1>8 DEF StoreFails
  <2>3. rows' = IF StoreWrites(u, g) THEN [rows EXCEPT ![g] = WithKey(@, j.bean.key, NewRow(u, g))] ELSE rows
    <3> HIDE DEF g
    <3>1. QED
      BY <2>1, Zenon DEF StoreWrites, WithKey, NewRow
  <2>4. heap' = [heap EXCEPT ![j.calc][g].bean = StoredBean(u, g)]
    <3> HIDE DEF g
    <3>1. CASE insert /\ heap[j.calc][g].bean = j.bean
      BY <2>1, <3>1 DEF StoredBean
    <3>2. CASE ~(insert /\ heap[j.calc][g].bean = j.bean)
      <4>1. heap' = heap /\ StoredBean(u, g) = heap[j.calc][g].bean
        BY <2>1, <3>2 DEF StoredBean
      <4>2. heap = [heap EXCEPT ![j.calc][g].bean = heap[j.calc][g].bean]
        BY <1>1, <1>3, SameBean
      <4>3. QED
        BY <4>1, <4>2
    <3>3. QED
      BY <3>1, <3>2
  <2>5. job' = [job EXCEPT ![u] = AfterStore(u)]
    <3>1. Len(StoreOrder) = 3
      BY DEF StoreOrder
    <3>2. CASE j.at < 3
      BY <2>1, <3>1, <3>2, Zenon DEF AfterStore, NextBean
    <3>3. CASE ~(j.at < 3)
      BY <2>1, <3>1, <3>3, Zenon DEF AfterStore, AllStored
    <3>4. QED
      BY <3>2, <3>3
  <2>6. QED
    BY <1>2, <1>3, <1>5, <1>6, <2>1, <2>2, <2>3, <2>4, <2>5
<1>9. QED
  BY <1>7, <1>8

LEMMA StoreBeanCounts ==
  ASSUME StatsAssumption, CountInv, NEW u \in Users, StoreBean(u) PROVE CountInv'
<1> DEFINE j == job[u]
           g == StoreOrder[j.at]
<1>1. /\ j \in Jobs /\ j.step = "store" /\ j.calc \in Calcs /\ j.at \in 1..3 /\ g \in Grains
      /\ j.bean \in Beans
      /\ NewRow(u, g) \in [row : Nat, n : Nat] /\ StoredBean(u, g) \in Beans \cup {None}
      /\ j.value \in Nat /\ j.value <= Seen(counted, g, j.bean.key)
      /\ list' = list /\ counted' = counted /\ clock' = clock
      /\ clear' = clear /\ era' = era /\ beats' = beats
      /\ \/ /\ job' = [job EXCEPT ![u] = Idle] /\ failed' = TRUE /\ rows' = rows /\ heap' = heap
         \/ /\ job' = [job EXCEPT ![u] = AfterStore(u)] /\ failed' = failed
            /\ heap' = [heap EXCEPT ![j.calc][g].bean = StoredBean(u, g)]
            /\ rows' = IF StoreWrites(u, g) THEN [rows EXCEPT ![g] = WithKey(@, j.bean.key, NewRow(u, g))] ELSE rows
  BY StoreBeanIs
<1>2. /\ job \in [Users -> Jobs] /\ rows \in [Grains -> Tables] /\ Tally(beats) /\ clock \in Minutes
      /\ list \in Calcs \cup {None} /\ failed \in BOOLEAN /\ HoldsOwn(u) /\ j.date <= clock
  BY <1>1 DEF CountInv, TypedStats, GoodJob
<1>3. \A v \in Users : job[v].step \in {"bean", "store"} => job[v].calc \in Calcs
  BY DEF CountInv, GoodJob
<1>4. \A x \in Grains : \A y \in DOMAIN rows[x] : rows[x][y].n <= Seen(counted, x, y)
  BY DEF CountInv
<1> HIDE DEF g
<1>5. CASE job' = [job EXCEPT ![u] = Idle] /\ failed' = TRUE /\ rows' = rows /\ heap' = heap
  <2>1. HeapLater(Calcs)
    BY <1>1, <1>5, HeapSame
  <2>2. job'[u] = Idle /\ job' = [job EXCEPT ![u] = job'[u]]
    BY <1>2, <1>5
  <2>3. job'[u] \in Jobs /\ GoodJob(u)'
    BY <2>2, IdleIsJob DEF GoodJob
  <2>4. QED
    BY <1>1, <1>2, <1>3, <1>4, <1>5, <2>1, <2>2, <2>3, StepOf
<1>6. CASE /\ job' = [job EXCEPT ![u] = AfterStore(u)] /\ failed' = failed
           /\ heap' = [heap EXCEPT ![j.calc][g].bean = StoredBean(u, g)]
           /\ rows' = IF StoreWrites(u, g) THEN [rows EXCEPT ![g] = WithKey(@, j.bean.key, NewRow(u, g))] ELSE rows
  <2>1. HeapLater(Calcs)
    <3> HIDE DEF j
    <3>1. QED
      BY <1>1, <1>6, HeapBeans
  <2>2. job'[u] = AfterStore(u) /\ job' = [job EXCEPT ![u] = job'[u]]
    BY <1>2, <1>6
  <2>3. /\ job'[u] \in Jobs /\ job'[u].calc = j.calc /\ job'[u].date = j.date /\ job'[u].held = j.held
        /\ \/ job'[u].step = "bean" /\ job'[u].at = j.at + 1 /\ j.at < 3
           \/ job'[u].step = "expire" /\ job'[u].at = 1
    <3>1. CASE j.at < 3
      <4>1. (IF j.at = 1 THEN clock ELSE j.current) \in Minutes
        BY <1>1, <1>2 DEF Jobs
      <4>2. AfterStore(u) = NextBean(j, IF j.at = 1 THEN clock ELSE j.current)
        BY <3>1 DEF AfterStore
      <4> HIDE DEF j
      <4>3. QED
        BY <1>1, <2>2, <3>1, <4>1, <4>2, NextBeanJob
    <3>2. CASE ~(j.at < 3)
      <4>1. AfterStore(u) = AllStored(j)
        BY <3>2 DEF AfterStore
      <4> HIDE DEF j
      <4>2. QED
        BY <1>1, <2>2, <4>1, AllStoredJob
    <3>3. QED
      BY <3>1, <3>2
  <2>4. HoldsOwn(u)'
    BY <1>1, <1>2, <2>1, <2>3, HoldsLater
  <2>5. GoodJob(u)'
    BY <1>1, <1>2, <2>3, <2>4 DEF GoodJob
  <2>6. /\ rows' \in [Grains -> Tables]
        /\ \A x \in Grains : \A y \in DOMAIN rows'[x] : rows'[x][y].n <= Seen(counted, x, y)
    <3>1. CASE ~StoreWrites(u, g)
      BY <1>2, <1>4, <1>6, <3>1
    <3>2. CASE StoreWrites(u, g)
      <4> DEFINE t == WithKey(rows[g], j.bean.key, NewRow(u, g))
                 k == j.bean.key
      <4>1. rows' = [rows EXCEPT ![g] = t]
        BY <1>6, <3>2
      <4>2. rows[g] \in Tables /\ k \in Int /\ NewRow(u, g).n = j.value
        BY <1>1, <1>2 DEF Beans, NewRow
      <4>3. t \in Tables /\ DOMAIN t = DOMAIN rows[g] \cup {k} /\ t[k] = NewRow(u, g)
            /\ \A x \in DOMAIN rows[g] : x # k => t[x] = rows[g][x]
        <5>1. NewRow(u, g) \in [row : Nat, n : Nat]
          BY <1>1
        <5> HIDE DEF j, k
        <5>2. t = WithKey(rows[g], k, NewRow(u, g))
          BY DEF k
        <5> HIDE DEF t
        <5> DEFINE r == NewRow(u, g)
                   s == rows[g]
        <5>3. r \in [row : Nat, n : Nat] /\ s \in Tables /\ k \in Int
          BY <4>2, <5>1
        <5>4. t = WithKey(s, k, r)
          BY <5>2
        <5> HIDE DEF r, s
        <5>5. /\ WithKey(s, k, r) \in Tables /\ DOMAIN WithKey(s, k, r) = DOMAIN s \cup {k}
              /\ WithKey(s, k, r)[k] = r
              /\ \A x \in DOMAIN s : x # k => WithKey(s, k, r)[x] = s[x]
          BY <5>3, WithKeyIs
        <5>6. t \in Tables /\ DOMAIN t = DOMAIN s \cup {k} /\ t[k] = r
              /\ \A x \in DOMAIN s : x # k => t[x] = s[x]
          BY <5>4, <5>5
        <5>7. QED
          BY <5>6 DEF r, s
      <4> HIDE DEF t
      <4>4. rows' \in [Grains -> Tables] /\ rows'[g] = t /\ \A x \in Grains : x # g => rows'[x] = rows[x]
        BY <1>1, <1>2, <4>1, <4>3
      <4>5. \A y \in DOMAIN t : t[y].n <= Seen(counted, g, y)
        BY <1>1, <1>4, <4>2, <4>3
      <4>6. QED
        BY <1>4, <4>4, <4>5
    <3>3. QED
      BY <3>1, <3>2
  <2>7. QED
    BY <1>1, <1>2, <1>3, <1>6, <2>1, <2>2, <2>3, <2>5, <2>6, StepOf
<1>7. QED
  BY <1>1, <1>5, <1>6

\* What Expire does.
NextExpiry(j) == IF j.at = 1 THEN [j EXCEPT !.at = 2] ELSE [j EXCEPT !.step = "beat"]

LEMMA NextExpiryJob ==
  ASSUME NEW j \in Jobs, j.step = "expire"
  PROVE  LET i == NextExpiry(j)
         IN /\ i \in Jobs /\ i.calc = j.calc /\ i.date = j.date /\ i.current = j.current
            /\ \/ i.step = "expire" /\ i.at = 2
               \/ i.step = "beat"
<1>1. [j EXCEPT !.at = 2] \in Jobs
  BY DEF Jobs
<1>2. [j EXCEPT !.step = "beat"] \in Jobs
  BY DEF Jobs
<1>3. CASE j.at = 1
  BY <1>1, <1>3 DEF NextExpiry, Jobs
<1>4. CASE j.at # 1
  BY <1>2, <1>4 DEF NextExpiry, Jobs
<1>5. QED
  BY <1>3, <1>4

LEMMA ExpireIs ==
  ASSUME StatsAssumption, CountInv, NEW u \in Users, Expire(u)
  PROVE  LET j == job[u]
             g == <<"minute", "hour">>[j.at]
         IN /\ j \in Jobs /\ j.step = "expire" /\ j.calc \in Calcs /\ j.at \in 1..2 /\ g \in Grains
            /\ rows' = [rows EXCEPT ![g] = Without(rows[g], {k \in DOMAIN rows[g] : k < Since(g, j.current)})]
            /\ job' = [job EXCEPT ![u] = NextExpiry(j)]
            /\ list' = list /\ heap' = heap /\ counted' = counted /\ clock' = clock /\ failed' = failed
            /\ clear' = clear /\ era' = era /\ beats' = beats /\ crashes' = crashes
<1> DEFINE j == job[u]
           g == <<"minute", "hour">>[j.at]
<1>1. /\ job \in [Users -> Jobs] /\ rows \in [Grains -> Tables]
  BY DEF CountInv, TypedStats
<1>2. /\ list' = list /\ heap' = heap /\ counted' = counted /\ clock' = clock /\ failed' = failed
      /\ clear' = clear /\ era' = era /\ beats' = beats /\ crashes' = crashes /\ j.step = "expire"
  BY DEF Expire, Unchanged
<1>3. j \in Jobs /\ j.calc \in Calcs /\ j.at \in 1..2
  BY <1>1, <1>2 DEF CountInv, GoodJob
<1>4. g \in Grains
  BY <1>3 DEF Grains
<1>5. job' = [job EXCEPT ![u] = NextExpiry(j)]
  BY DEF Expire, NextExpiry
<1>6. rows' = [rows EXCEPT ![g] = Without(rows[g], {k \in DOMAIN rows[g] : k < Since(g, j.current)})]
  BY DEF Expire
<1>7. QED
  BY <1>2, <1>3, <1>4, <1>5, <1>6

LEMMA ExpireCounts ==
  ASSUME StatsAssumption, CountInv, NEW u \in Users, Expire(u) PROVE CountInv'
<1> DEFINE j == job[u]
           g == <<"minute", "hour">>[j.at]
           ks == {k \in DOMAIN rows[g] : k < Since(g, j.current)}
<1>1. /\ j \in Jobs /\ j.step = "expire" /\ j.calc \in Calcs /\ g \in Grains
      /\ rows' = [rows EXCEPT ![g] = Without(rows[g], ks)]
      /\ job' = [job EXCEPT ![u] = NextExpiry(j)]
      /\ list' = list /\ heap' = heap /\ counted' = counted /\ clock' = clock /\ failed' = failed
      /\ clear' = clear /\ era' = era /\ beats' = beats
  BY ExpireIs
<1>2. /\ job \in [Users -> Jobs] /\ rows \in [Grains -> Tables] /\ Tally(beats) /\ clock \in Minutes
      /\ list \in Calcs \cup {None} /\ failed \in BOOLEAN /\ j.date <= clock
  BY <1>1 DEF CountInv, TypedStats, GoodJob
<1>3. \A v \in Users : job[v].step \in {"bean", "store"} => job[v].calc \in Calcs
  BY DEF CountInv, GoodJob
<1>4. HeapLater(Calcs)
  BY <1>1, HeapSame
<1> HIDE DEF g, ks
<1>5. job'[u] = NextExpiry(j) /\ job' = [job EXCEPT ![u] = job'[u]]
  BY <1>1, <1>2
<1>6. /\ job'[u] \in Jobs /\ job'[u].calc = j.calc /\ job'[u].date = j.date
      /\ \/ job'[u].step = "expire" /\ job'[u].at = 2
         \/ job'[u].step = "beat"
  BY <1>1, <1>5, NextExpiryJob
<1>7. GoodJob(u)'
  BY <1>1, <1>2, <1>6 DEF GoodJob
<1>8. /\ rows' \in [Grains -> Tables]
      /\ \A x \in Grains : \A y \in DOMAIN rows'[x] : rows'[x][y].n <= Seen(counted, x, y)
  <2> DEFINE t == Without(rows[g], ks)
  <2>1. rows[g] \in Tables
    BY <1>1, <1>2
  <2>2. t \in Tables /\ DOMAIN t = DOMAIN rows[g] \ ks /\ \A x \in DOMAIN rows[g] \ ks : t[x] = rows[g][x]
    BY <2>1, WithoutIs
  <2>3. rows' = [rows EXCEPT ![g] = t]
    BY <1>1
  <2> HIDE DEF t
  <2>4. rows' \in [Grains -> Tables] /\ rows'[g] = t /\ \A x \in Grains : x # g => rows'[x] = rows[x]
    BY <1>1, <1>2, <2>2, <2>3
  <2>5. QED
    BY <1>1, <2>2, <2>4 DEF CountInv
<1>9. QED
  BY <1>1, <1>2, <1>3, <1>4, <1>5, <1>6, <1>7, <1>8, StepOf

LEMMA StoreBeatCounts ==
  ASSUME StatsAssumption, CountInv, NEW u \in Users, StoreBeat(u) PROVE CountInv'
<1>1. /\ beats' = Add(beats, Grains, job[u].date) /\ job' = [job EXCEPT ![u] = Idle]
      /\ list' = list /\ heap' = heap /\ counted' = counted /\ clock' = clock /\ failed' = failed
      /\ clear' = clear /\ era' = era /\ rows' = rows
  BY DEF StoreBeat
<1>2. /\ job \in [Users -> Jobs] /\ rows \in [Grains -> Tables] /\ Tally(beats)
      /\ list \in Calcs \cup {None} /\ failed \in BOOLEAN
  BY DEF CountInv, TypedStats
<1>3. job[u].date \in Minutes
  BY <1>2 DEF Jobs
<1>4. Tally(beats')
  BY <1>1, <1>2, <1>3, AddIs
<1>5. job'[u] = Idle /\ job' = [job EXCEPT ![u] = job'[u]]
  BY <1>1, <1>2
<1>6. job'[u] \in Jobs /\ GoodJob(u)'
  BY <1>5, IdleIsJob DEF GoodJob
<1>7. \A v \in Users : job[v].step \in {"bean", "store"} => job[v].calc \in Calcs
  BY DEF CountInv, GoodJob
<1>8. \A x \in Grains : \A y \in DOMAIN rows'[x] : rows'[x][y].n <= Seen(counted, x, y)
  BY <1>1 DEF CountInv
<1>9. HeapLater(Calcs)
  BY <1>1, HeapSame
<1>10. QED
  BY <1>1, <1>2, <1>4, <1>5, <1>6, <1>7, <1>8, <1>9, StepOf

\* A step of nobody's.
LEMMA OtherStep ==
  ASSUME StatsAssumption, CountInv, heap' = heap, counted' = counted, job' = job, failed' = failed,
         clock' \in Minutes, clock <= clock', list' \in Calcs \cup {None}, clear' \in 0..3,
         era' \in [Grains -> Nat], Tally(beats'), rows' \in [Grains -> Tables],
         \A g \in Grains : \A k \in DOMAIN rows'[g] : rows'[g][k].n <= Seen(counted, g, k)
  PROVE  CountInv'
<1>1. TypedStats
  BY DEF CountInv
<1>2. HeapLater(Calcs)
  BY HeapSame
<1>3. TypedStats'
  BY <1>1, <1>2 DEF TypedStats, HeapLater, Minutes, Grains, Users
<1>4. \A v \in Users : GoodJob(v)'
  <2> TAKE v \in Users
  <2>1. job'[v] = job[v] /\ (job[v].step \in {"bean", "store"} => job[v].calc \in Calcs)
    BY DEF CountInv, GoodJob
  <2>2. QED
    BY <1>2, <2>1, OthersStay
<1>5. QED
  BY <1>2, <1>3, <1>4 DEF CountInv, HeapLater

LEMMA ZeroIs == ASSUME StatsAssumption PROVE Tally(Zero)
BY DEF Zero, Tally

LEMMA NoRows == [k \in {} |-> 0] \in Tables /\ NoKeys \in Tables /\ DOMAIN NoKeys = {}
<1>1. NoKeys \in [{} -> [row : Nat, n : Nat]] /\ [k \in {} |-> 0] = NoKeys
  BY DEF NoKeys
<1>2. QED
  BY <1>1 DEF Tables

LEMMA CountInit == ASSUME StatsAssumption, Init PROVE CountInv
<1>0. list \in Calcs \cup {None} /\ clear \in 0..3 /\ failed \in BOOLEAN
  <2>1. list = None /\ clear = 0 /\ failed = FALSE
    BY DEF Init
  <2>2. failed \in BOOLEAN
    BY <2>1, Zenon
  <2>3. list \in Calcs \cup {None} /\ clear \in 0..3
    BY <2>1
  <2>4. QED
    BY <2>2, <2>3
<1>1. /\ clock = 0 /\ list = None /\ heap = [c \in Calcs |-> [g \in Grains |-> Empty]]
      /\ rows = [g \in Grains |-> NoKeys] /\ beats = Zero
      /\ job = [u \in Users |-> Idle] /\ clear = 0 /\ era = [g \in Grains |-> 0]
      /\ counted = Zero /\ failed = FALSE
  BY DEF Init
<1>2. /\ heap \in [Calcs -> [Grains -> Lists]] /\ rows \in [Grains -> Tables]
      /\ job \in [Users -> Jobs] /\ era \in [Grains -> Nat] /\ clock \in Minutes
      /\ Tally(beats) /\ Tally(counted)
  BY <1>1, EmptyIsList, IdleIsJob, NoRows, ZeroIs
<1>3. TypedStats
  BY <1>0, <1>2 DEF TypedStats
<1>4. \A c \in Calcs, g \in Grains : GoodList(heap[c][g], g, counted)
  BY <1>1, EmptyIsList
<1>5. \A u \in Users : GoodJob(u)
  BY <1>1, IdleIsJob DEF GoodJob
<1>6. \A g \in Grains : DOMAIN rows[g] = {}
  BY <1>1, NoRows
<1>7. QED
  BY <1>3, <1>4, <1>5, <1>6 DEF CountInv

LEMMA ClearCounts ==
  ASSUME StatsAssumption, CountInv, BeginClear \/ ClearNext PROVE CountInv'
<1>1. /\ clock \in Minutes /\ clock <= clock /\ list \in Calcs \cup {None} /\ clear \in 0..3
      /\ era \in [Grains -> Nat] /\ Tally(beats) /\ rows \in [Grains -> Tables]
  BY MinutesAreNat DEF CountInv, TypedStats
<1>2. \A g \in Grains : \A k \in DOMAIN rows[g] : rows[g][k].n <= Seen(counted, g, k)
  BY DEF CountInv
<1>3. CASE BeginClear
  <2>1. /\ clear' = 1 /\ beats' = Zero /\ heap' = heap /\ counted' = counted /\ job' = job /\ failed' = failed
        /\ clock' = clock /\ list' = list /\ era' = era /\ rows' = rows
    BY <1>3 DEF BeginClear
  <2>2. QED
    BY <1>1, <1>2, <2>1, ZeroIs, OtherStep
<1>4. CASE ClearNext
  <2> DEFINE g == ClearOrder[clear]
  <2>1. /\ clear > 0 /\ rows' = [rows EXCEPT ![g] = NoKeys] /\ era' = [era EXCEPT ![g] = @ + 1]
        /\ heap' = heap /\ counted' = counted /\ job' = job /\ failed' = failed /\ clock' = clock /\ beats' = beats
        /\ IF clear < 3 THEN clear' = clear + 1 /\ list' = list ELSE clear' = 0 /\ list' = None
    BY <1>4 DEF ClearNext, ClearOrder
  <2>2. g \in Grains
    BY <1>1, <2>1 DEF ClearOrder, Grains
  <2> HIDE DEF g
  <2>3. clear' \in 0..3 /\ list' \in Calcs \cup {None}
    BY <1>1, <2>1
  <2>4. /\ era' \in [Grains -> Nat] /\ rows' \in [Grains -> Tables] /\ rows'[g] = NoKeys
        /\ \A x \in Grains : x # g => rows'[x] = rows[x]
    BY <1>1, <2>1, <2>2, NoRows
  <2>5. \A x \in Grains : \A k \in DOMAIN rows'[x] : rows'[x][k].n <= Seen(counted, x, k)
    BY <1>2, <2>4, NoRows
  <2>6. QED
    BY <1>1, <2>1, <2>3, <2>4, <2>5, OtherStep
<1>5. QED
  BY <1>3, <1>4

LEMMA TickCounts ==
  ASSUME StatsAssumption, CountInv, Tick PROVE CountInv'
<1>1. /\ clock \in Minutes /\ list \in Calcs \cup {None} /\ clear \in 0..3
      /\ era \in [Grains -> Nat] /\ Tally(beats) /\ rows \in [Grains -> Tables]
      /\ \A g \in Grains : \A k \in DOMAIN rows[g] : rows[g][k].n <= Seen(counted, g, k)
  BY DEF CountInv, TypedStats
<1>2. /\ clock < MaxClock /\ clock' = clock + 1
      /\ heap' = heap /\ counted' = counted /\ job' = job /\ failed' = failed
      /\ list' = list /\ era' = era /\ rows' = rows /\ beats' = beats /\ clear' = clear
  BY DEF Tick
<1>3. clock' \in Minutes /\ clock <= clock'
  BY <1>1, <1>2 DEF Minutes, StatsAssumption
<1>4. QED
  BY <1>1, <1>2, <1>3, OtherStep

LEMMA CrashCounts ==
  ASSUME StatsAssumption, CountInv, Crash PROVE CountInv'
<1>1. TypedStats
  BY DEF CountInv
<1>2. /\ list' = None /\ heap' = [c \in Calcs |-> [g \in Grains |-> Empty]]
      /\ job' = [u \in Users |-> Idle] /\ clear' = 0
      /\ clock' = clock /\ rows' = rows /\ beats' = beats /\ era' = era /\ counted' = counted /\ failed' = failed
  BY DEF Crash
<1>3. heap' \in [Calcs -> [Grains -> Lists]] /\ job' \in [Users -> Jobs]
  BY <1>2, EmptyIsList, IdleIsJob
<1>4. TypedStats'
  BY <1>1, <1>2, <1>3 DEF TypedStats
<1>5. \A c \in Calcs, g \in Grains : GoodList(heap'[c][g], g, counted')
  BY <1>2, EmptyIsList
<1>6. \A u \in Users : GoodJob(u)'
  BY <1>2, IdleIsJob DEF GoodJob
<1>7. QED
  BY <1>2, <1>4, <1>5, <1>6 DEF CountInv

\* Every step keeps the counts.
LEMMA CountStep ==
  ASSUME StatsAssumption, CountInv, [Next]_vars PROVE CountInv'
<1>1. CASE \E u \in Users :
             \/ Ask(u) \/ AskFirst(u) \/ Load(u)
             \/ GetBean(u) \/ StoreBean(u) \/ Expire(u) \/ StoreBeat(u)
  BY <1>1, AskCounts, AskFirstCounts, LoadCounts, GetBeanCounts, StoreBeanCounts, ExpireCounts, StoreBeatCounts
<1>2. CASE BeginClear \/ ClearNext
  BY <1>2, ClearCounts
<1>3. CASE Tick
  BY <1>3, TickCounts
<1>4. CASE Crash
  BY <1>4, CrashCounts
<1>5. CASE UNCHANGED vars
  <2>1. /\ clock' = clock /\ list' = list /\ heap' = heap /\ rows' = rows /\ beats' = beats /\ job' = job
        /\ clear' = clear /\ era' = era /\ counted' = counted /\ failed' = failed
    BY <1>5 DEF vars
  <2>2. /\ clock \in Minutes /\ clock <= clock /\ list \in Calcs \cup {None} /\ clear \in 0..3
        /\ era \in [Grains -> Nat] /\ Tally(beats) /\ rows \in [Grains -> Tables]
        /\ \A g \in Grains : \A k \in DOMAIN rows[g] : rows[g][k].n <= Seen(counted, g, k)
    BY MinutesAreNat DEF CountInv, TypedStats
  <2>3. QED
    BY <2>1, <2>2, OtherStep
<1>6. QED
  BY <1>1, <1>2, <1>3, <1>4, <1>5 DEF Next

\* Whatever overlaps, fails or is cleared, no bucket, no bean on its way to a table and no row has more
\* heartbeats than were counted of its period.
THEOREM CountInvariant == StatsAssumption => (Spec => []CountInv)
<1> SUFFICES ASSUME StatsAssumption PROVE Spec => []CountInv
  OBVIOUS
<1>1. Init => CountInv
  BY CountInit
<1>2. CountInv /\ [Next]_vars => CountInv'
  BY CountStep
<1>3. QED
  BY <1>1, <1>2, PTL DEF Spec

\* No heartbeat is counted twice in the tables, for any recorders, readers and calculators, with
\* calculators used before they are loaded, statistics cleared and the process dying at any time.
THEOREM StatsCountOnce == StatsAssumption => (Spec => []NothingCountedTwice)
<1> SUFFICES ASSUME StatsAssumption PROVE Spec => []NothingCountedTwice
  OBVIOUS
<1>1. CountInv => NothingCountedTwice
  <2> SUFFICES ASSUME CountInv, NEW g \in Grains, NEW k \in KeysOf(g)
               PROVE  Stored(g, k) <= counted[g][k]
    BY DEF NothingCountedTwice
  <2>1. counted[g][k] \in Nat /\ Seen(counted, g, k) = counted[g][k]
    BY DEF CountInv, TypedStats, Tally, Seen
  <2>2. QED
    BY <2>1 DEF CountInv, Stored
<1>2. Spec => []CountInv
  BY CountInvariant
<1>3. QED
  BY <1>1, <1>2, PTL
-------------------------------------------------------------------------------
(* Lists in the order of time.                                                  *)

\* A key later than all others keeps a list in the order of time, and drops only a key that has left the window.
LEMMA PushOrdered ==
  ASSUME NEW g, NEW l \in Lists, NEW key \in Int, NEW n \in Nat, Limit[g] \in Nat \ {0},
         Ordered(l, g, key - 1), NEW p, Pushed(l, g, key, n, p)
  PROVE  /\ Ordered(p, g, key) /\ key \in DOMAIN p.mem
         /\ \A k \in DOMAIN l.mem : k > key - Limit[g] => k \in DOMAIN p.mem
<1> DEFINE s == l.stack
           t == Append(s, key)
           m == Len(s)
<1>1. s \in Seq(Int) /\ m \in Nat /\ m <= Limit[g] /\ \A i \in 1..m : s[i] \in Int
  BY LenProperties, ElementOfSeq DEF Ordered, Lists
<1>2. t \in Seq(Int) /\ Len(t) = m + 1 /\ t[m + 1] = key /\ \A i \in 1..m : t[i] = s[i]
  BY <1>1, AppendProperties
<1>3. /\ \A i \in 1..m : s[i] <= key - 1
      /\ \A i, j \in 1..m : i <= j => s[j] - s[i] >= j - i
      /\ DOMAIN l.mem = {s[i] : i \in 1..m}
  BY DEF Ordered
<1>4. /\ p.stack = IF m + 1 > Limit[g] THEN Tail(t) ELSE t
      /\ DOMAIN p.mem = (DOMAIN l.mem \cup {key}) \ (IF m + 1 > Limit[g] THEN {t[1]} ELSE {})
  BY DEF Pushed
<1> HIDE DEF s, t, m
<1>5. \A i \in 1..(m + 1) : t[i] \in Int /\ t[i] <= key
  <2> TAKE i \in 1..(m + 1)
  <2>1. CASE i = m + 1
    BY <1>2, <2>1
  <2>2. CASE i \in 1..m
    <3>1. t[i] = s[i] /\ s[i] \in Int /\ s[i] <= key - 1
      BY <1>1, <1>2, <1>3, <2>2
    <3>2. QED
      BY <3>1
  <2>3. QED
    BY <1>1, <2>1, <2>2
<1>6. \A i, j \in 1..(m + 1) : i <= j => t[j] - t[i] >= j - i
  <2> SUFFICES ASSUME NEW i \in 1..(m + 1), NEW j \in 1..(m + 1), i <= j PROVE t[j] - t[i] >= j - i
    OBVIOUS
  <2>1. CASE j \in 1..m
    <3>1. i \in 1..m /\ t[i] = s[i] /\ t[j] = s[j]
      BY <1>1, <1>2, <2>1
    <3>2. QED
      BY <1>3, <2>1, <3>1
  <2>2. CASE j = m + 1 /\ i = m + 1
    BY <1>1, <1>5, <2>2
  <2>3. CASE j = m + 1 /\ i \in 1..m
    <3>1. m \in 1..m /\ i <= m
      BY <1>1, <2>3
    <3>2. s[m] - s[i] >= m - i /\ s[m] <= key - 1 /\ s[m] \in Int /\ s[i] \in Int
      BY <1>1, <1>3, <2>3, <3>1
    <3>3. t[i] = s[i] /\ t[j] = key
      BY <1>2, <2>3
    <3>4. QED
      BY <1>1, <2>3, <3>2, <3>3
  <2>4. QED
    BY <1>1, <2>1, <2>2, <2>3
<1>7. DOMAIN l.mem \cup {key} = {t[i] : i \in 1..(m + 1)}
  <2>1. ASSUME NEW x, x \in DOMAIN l.mem \cup {key} PROVE \E i \in 1..(m + 1) : x = t[i]
    <3>1. CASE x = key
      BY <1>1, <1>2, <3>1
    <3>2. CASE x \in DOMAIN l.mem
      <4>1. PICK i \in 1..m : x = s[i]
        BY <1>3, <3>2
      <4>2. i \in 1..(m + 1) /\ x = t[i]
        BY <1>1, <1>2, <4>1
      <4>3. QED
        BY <4>2
    <3>3. QED
      BY <2>1, <3>1, <3>2
  <2>2. ASSUME NEW i \in 1..(m + 1) PROVE t[i] \in DOMAIN l.mem \cup {key}
    <3>1. CASE i = m + 1
      BY <1>2, <3>1
    <3>2. CASE i # m + 1
      <4>1. i \in 1..m
        BY <1>1, <3>2
      <4>2. QED
        BY <1>2, <1>3, <4>1
    <3>3. QED
      BY <3>1, <3>2
  <2>3. QED
    BY <2>1, <2>2
<1>8. CASE m + 1 <= Limit[g]
  <2>1. p.stack = t /\ DOMAIN p.mem = DOMAIN l.mem \cup {key}
    BY <1>1, <1>4, <1>8
  <2>2. Ordered(p, g, key)
    BY <1>2, <1>5, <1>6, <1>7, <1>8, <2>1 DEF Ordered
  <2>3. QED
    BY <2>1, <2>2
<1>9. CASE m + 1 > Limit[g]
  <2>1. m = Limit[g] /\ m >= 1
    BY <1>1, <1>9
  <2> DEFINE r == Tail(t)
  <2>2. p.stack = r /\ DOMAIN p.mem = (DOMAIN l.mem \cup {key}) \ {t[1]}
    BY <1>4, <1>9
  <2>3. Len(r) = m /\ \A i \in 1..m : r[i] = t[i + 1]
    <3>1. t # <<>>
      BY <1>1, <1>2, EmptySeq
    <3>2. Len(r) = Len(t) - 1 /\ \A i \in 1..Len(r) : r[i] = t[i + 1]
      BY <1>2, <3>1, HeadTailProperties
    <3>3. QED
      BY <1>1, <1>2, <3>2
  <2> HIDE DEF r
  <2>4. \A i \in 1..m : i + 1 \in 1..(m + 1) /\ t[i + 1] - t[1] >= i /\ t[i + 1] \in Int /\ t[1] \in Int /\ t[i + 1] # t[1]
    <3> TAKE i \in 1..m
    <3>1. 1 \in 1..(m + 1) /\ i + 1 \in 1..(m + 1) /\ 1 <= i + 1
      BY <1>1
    <3>2. t[i + 1] - t[1] >= (i + 1) - 1 /\ t[i + 1] \in Int /\ t[1] \in Int
      BY <1>5, <1>6, <3>1
    <3>3. QED
      BY <3>1, <3>2
  <2>5. DOMAIN p.mem = {r[i] : i \in 1..m}
    <3>1. ASSUME NEW x, x \in DOMAIN p.mem PROVE \E i \in 1..m : x = r[i]
      <4>1. x \in {t[i] : i \in 1..(m + 1)} /\ x # t[1]
        BY <1>7, <2>2, <3>1
      <4>2. PICK i \in 1..(m + 1) : x = t[i] /\ i # 1
        BY <4>1
      <4>3. i - 1 \in 1..m /\ (i - 1) + 1 = i
        BY <1>1, <4>2
      <4>4. r[i - 1] = t[(i - 1) + 1]
        BY <2>3, <4>3
      <4>5. QED
        BY <4>2, <4>3, <4>4
    <3>2. ASSUME NEW i \in 1..m PROVE r[i] \in DOMAIN p.mem
      <4>1. r[i] = t[i + 1] /\ i + 1 \in 1..(m + 1) /\ t[i + 1] # t[1]
        BY <2>3, <2>4
      <4>2. t[i + 1] \in DOMAIN l.mem \cup {key}
        BY <1>7, <4>1
      <4>3. QED
        BY <2>2, <4>1, <4>2
    <3>3. QED
      BY <3>1, <3>2
  <2>6. \A i \in 1..m : r[i] <= key
    BY <1>5, <2>3, <2>4
  <2>7. \A i, j \in 1..m : i <= j => r[j] - r[i] >= j - i
    <3> SUFFICES ASSUME NEW i \in 1..m, NEW j \in 1..m, i <= j PROVE r[j] - r[i] >= j - i
      OBVIOUS
    <3>1. i + 1 \in 1..(m + 1) /\ j + 1 \in 1..(m + 1) /\ i + 1 <= j + 1
      BY <1>1
    <3>2. t[j + 1] - t[i + 1] >= (j + 1) - (i + 1)
      BY <1>6, <3>1
    <3>3. r[i] = t[i + 1] /\ r[j] = t[j + 1]
      BY <2>3
    <3>4. QED
      BY <3>2, <3>3
  <2>8. Ordered(p, g, key)
    <3>1. p.stack = r /\ Len(r) = m /\ m <= Limit[g]
      BY <2>1, <2>2, <2>3
    <3>2. QED
      BY <2>5, <2>6, <2>7, <3>1 DEF Ordered
  <2>9. t[1] <= key - Limit[g] /\ t[1] \in Int
    <3>1. m \in 1..m
      BY <2>1, <1>1
    <3>2. t[m + 1] - t[1] >= m /\ t[1] \in Int
      BY <2>4, <3>1
    <3>3. QED
      BY <1>2, <2>1, <3>2
  <2>10. key # t[1]
    BY <2>1, <2>9
  <2>11. QED
    BY <2>2, <2>8, <2>9, <2>10
<1>10. QED
  BY <1>1, <1>8, <1>9

\* Of the periods from the key back, p has the counts of l, in the buckets l has them in.
Keeps(l, p, g, key) ==
  \A k \in Int : k > key - Limit[g] =>
    /\ InBucket(p, k) = InBucket(l, k)
    /\ k \in DOMAIN l.mem => k \in DOMAIN p.mem /\ p.mem[k] = l.mem[k]

\* Such a push changes no other bucket of the window.
LEMMA PushKeeps ==
  ASSUME NEW g, NEW f, NEW l \in Lists, NEW key \in Int, NEW n \in Nat, Limit[g] \in Nat \ {0},
         Ordered(l, g, key - 1), GoodList(l, g, f), NEW p, p = Push(l, g, key, n)
  PROVE  /\ p \in Lists /\ Ordered(p, g, key) /\ key \in DOMAIN p.mem /\ p.bean = l.bean
         /\ InBucket(p, key) = n /\ key \notin DOMAIN l.mem
         /\ \A k \in Int : k # key /\ k > key - Limit[g] =>
              /\ InBucket(p, k) = InBucket(l, k)
              /\ k \in DOMAIN l.mem => k \in DOMAIN p.mem /\ p.mem[k] = l.mem[k]
<1>1. Pushed(l, g, key, n, p)
  BY PushIs
<1>2. /\ p \in Lists /\ p.bean = l.bean /\ p.bucket = Append(l.bucket, n)
      /\ DOMAIN p.mem \subseteq DOMAIN l.mem \cup {key}
      /\ \A k \in DOMAIN p.mem : p.mem[k] = IF k = key THEN Len(l.bucket) + 1 ELSE l.mem[k]
  BY <1>1 DEF Pushed
<1>3. /\ Ordered(p, g, key) /\ key \in DOMAIN p.mem
      /\ \A k \in DOMAIN l.mem : k > key - Limit[g] => k \in DOMAIN p.mem
  BY <1>1, PushOrdered
<1>4. l.bucket \in Seq(Nat) /\ Len(l.bucket) \in Nat
  BY LenProperties DEF Lists
<1>5. p.bucket[Len(l.bucket) + 1] = n /\ \A i \in 1..Len(l.bucket) : p.bucket[i] = l.bucket[i]
  BY <1>2, <1>4, AppendProperties
<1>6. InBucket(p, key) = n
  BY <1>2, <1>3, <1>5 DEF InBucket
<1>7. key \notin DOMAIN l.mem
  <2>1. l.stack \in Seq(Int)
    BY DEF Lists
  <2>2. \A i \in 1..Len(l.stack) : l.stack[i] \in Int /\ l.stack[i] <= key - 1
    BY <2>1, ElementOfSeq DEF Ordered
  <2>3. QED
    BY <2>2 DEF Ordered
<1>8. ASSUME NEW k \in Int, k # key, k > key - Limit[g]
      PROVE  /\ InBucket(p, k) = InBucket(l, k)
             /\ k \in DOMAIN l.mem => k \in DOMAIN p.mem /\ p.mem[k] = l.mem[k]
  <2>1. CASE k \in DOMAIN l.mem
    <3>1. k \in DOMAIN p.mem /\ p.mem[k] = l.mem[k] /\ l.mem[k] \in 1..Len(l.bucket)
      BY <1>2, <1>3, <1>8, <2>1 DEF GoodList
    <3>2. QED
      BY <1>5, <2>1, <3>1 DEF InBucket
  <2>2. CASE k \notin DOMAIN l.mem
    BY <1>2, <1>8, <2>2 DEF InBucket
  <2>3. QED
    BY <2>1, <2>2
<1>9. QED
  BY <1>2, <1>3, <1>6, <1>7, <1>8

LEMMA OrderedBelow ==
  ASSUME NEW g, NEW l \in Lists, NEW key \in Int, Ordered(l, g, key)
  PROVE  /\ \A top \in Int : key <= top => Ordered(l, g, top)
         /\ key \notin DOMAIN l.mem => Ordered(l, g, key - 1)
         /\ \A k \in Int : k > key => k \notin DOMAIN l.mem
<1>1. l.stack \in Seq(Int)
  BY DEF Lists
<1>2. \A i \in 1..Len(l.stack) : l.stack[i] \in Int /\ l.stack[i] <= key
  BY <1>1, ElementOfSeq DEF Ordered
<1>3. key \notin DOMAIN l.mem => \A i \in 1..Len(l.stack) : l.stack[i] <= key - 1
  <2>1. ASSUME key \notin DOMAIN l.mem, NEW i \in 1..Len(l.stack) PROVE l.stack[i] # key
    BY <2>1 DEF Ordered
  <2>2. QED
    BY <1>2, <2>1
<1>4. QED
  BY <1>2, <1>3 DEF Ordered

\* Nor does get*Key() with the latest key.
LEMMA EnsureKeeps ==
  ASSUME NEW g, NEW f, NEW l \in Lists, NEW key \in Int, Limit[g] \in Nat \ {0},
         Ordered(l, g, key), GoodList(l, g, f), NEW p, p = Ensure(l, g, key)
  PROVE  /\ p \in Lists /\ Ordered(p, g, key) /\ key \in DOMAIN p.mem /\ p.bean = l.bean
         /\ Keeps(l, p, g, key)
<1>1. CASE key \in DOMAIN l.mem
  <2>1. p = l
    BY <1>1 DEF Ensure
  <2>2. QED
    BY <1>1, <2>1 DEF Keeps
<1>2. CASE key \notin DOMAIN l.mem
  <2>1. p = Push(l, g, key, 0)
    BY <1>2 DEF Ensure
  <2>2. Ordered(l, g, key - 1)
    BY <1>2, OrderedBelow
  <2>3. /\ p \in Lists /\ Ordered(p, g, key) /\ key \in DOMAIN p.mem /\ p.bean = l.bean
        /\ InBucket(p, key) = 0
        /\ \A k \in Int : k # key /\ k > key - Limit[g] =>
              /\ InBucket(p, k) = InBucket(l, k)
              /\ k \in DOMAIN l.mem => k \in DOMAIN p.mem /\ p.mem[k] = l.mem[k]
    BY <2>1, <2>2, PushKeeps
  <2>4. InBucket(l, key) = 0
    BY <1>2 DEF InBucket
  <2>5. Keeps(l, p, g, key)
    BY <1>2, <2>3, <2>4 DEF Keeps
  <2>6. QED
    BY <2>3, <2>5
<1>3. QED
  BY <1>1, <1>2

\* init() leaves a list in the order of time that has the rows of the window and nothing else there.
LEMMA LoadKeeps ==
  ASSUME StatsAssumption, NEW g \in Grains, NEW f, NEW l \in Lists, GoodList(l, g, f),
         rows \in [Grains -> Tables], \A k \in DOMAIN rows[g] : rows[g][k].n <= Seen(f, g, k),
         \A k \in DOMAIN rows[g] : k <= Key(g, clock),
         clock \in Minutes, NEW now \in Minutes, now <= clock,
         Ordered(l, g, Since(g, now)),
         NEW p, p = LoadRows(l, g, now)
  PROVE  /\ Ordered(p, g, Key(g, clock)) /\ p.bean = l.bean
         /\ \A k \in Int : InWindow(g, k) => InBucket(p, k) = Stored(g, k)
<1> DEFINE since == Since(g, now)
           top == Key(g, clock)
           Good(q, k) ==
             /\ q \in Lists /\ GoodList(q, g, f) /\ Ordered(q, g, k) /\ q.bean = l.bean
             /\ \A x \in Int : x > since /\ x > k - Limit[g] =>
                  InBucket(q, x) = IF x <= k THEN Stored(g, x) ELSE 0
<1>1. since \in Int /\ top \in Int /\ since < top /\ Limit[g] \in Nat \ {0}
      /\ Since(g, clock) = top - Limit[g] /\ since <= top - Limit[g]
  <2>1. now \in Minutes /\ clock \in Minutes
    OBVIOUS
  <2>2. Since(g, now) <= Since(g, clock)
    BY <2>1, KeysOfDates
  <2>3. QED
    BY <2>2, KeysOfDates DEF StatsAssumption, Since
<1>2. PICK h : Loaded(h, l, g, since, top) /\ LoadRows(l, g, now) = h[top]
  BY <1>1, LoadRowsIs
<1>3. \A k \in since..top : h[k] = IF k = since THEN l ELSE WithRow(h[k - 1], g, k)
  BY <1>2 DEF Loaded
<1>4. Ordered(l, g, since)
  OBVIOUS
<1>5. \A k \in DOMAIN rows[g] : k <= top
  OBVIOUS
<1> HIDE DEF since, top
<1>6. ASSUME NEW q, NEW k \in Int, Good(q, k - 1) PROVE Good(WithRow(q, g, k), k)
  <2>1. CASE k \notin DOMAIN rows[g]
    <3>1. WithRow(q, g, k) = q /\ Stored(g, k) = 0
      BY <2>1 DEF WithRow, Stored
    <3>2. Ordered(q, g, k)
      BY <1>6, OrderedBelow
    <3>3. \A x \in Int : x > since /\ x > k - Limit[g] =>
            InBucket(q, x) = IF x <= k THEN Stored(g, x) ELSE 0
      <4> SUFFICES ASSUME NEW x \in Int, x > since, x > k - Limit[g]
                   PROVE  InBucket(q, x) = IF x <= k THEN Stored(g, x) ELSE 0
        OBVIOUS
      <4>1. InBucket(q, x) = IF x <= k - 1 THEN Stored(g, x) ELSE 0
        BY <1>1, <1>6
      <4>2. QED
        BY <3>1, <4>1
    <3>4. QED
      BY <1>6, <3>1, <3>2, <3>3
  <2>2. CASE k \in DOMAIN rows[g]
    <3>1. rows[g][k].n \in Nat
      BY <2>2 DEF Tables
    <3> DEFINE r == Push(q, g, k, rows[g][k].n)
    <3>2. WithRow(q, g, k) = r /\ Stored(g, k) = rows[g][k].n
      BY <2>2 DEF WithRow, Stored
    <3>3. /\ Ordered(r, g, k) /\ r.bean = q.bean /\ InBucket(r, k) = rows[g][k].n
          /\ \A x \in Int : x # k /\ x > k - Limit[g] => InBucket(r, x) = InBucket(q, x)
      BY <1>1, <1>6, <3>1, PushKeeps
    <3>4. r \in Lists /\ GoodList(r, g, f)
      BY <1>1, <1>6, <2>2, <3>1, PushGood
    <3> HIDE DEF r
    <3>5. \A x \in Int : x > since /\ x > k - Limit[g] =>
            InBucket(r, x) = IF x <= k THEN Stored(g, x) ELSE 0
      <4> SUFFICES ASSUME NEW x \in Int, x > since, x > k - Limit[g]
                   PROVE  InBucket(r, x) = IF x <= k THEN Stored(g, x) ELSE 0
        OBVIOUS
      <4>1. CASE x = k
        BY <3>2, <3>3, <4>1
      <4>2. CASE x # k
        <5>1. InBucket(q, x) = IF x <= k - 1 THEN Stored(g, x) ELSE 0
          BY <1>1, <1>6
        <5>2. QED
          BY <3>3, <4>2, <5>1
      <4>3. QED
        BY <4>1, <4>2
    <3>6. QED
      BY <1>6, <3>2, <3>3, <3>4, <3>5
  <2>3. QED
    BY <2>1, <2>2
<1>7. Good(l, since)
  <2>1. \A x \in Int : x > since => x \notin DOMAIN l.mem
    BY <1>1, <1>4, OrderedBelow
  <2>2. \A x \in Int : x > since => InBucket(l, x) = 0
    BY <2>1 DEF InBucket
  <2>3. QED
    BY <1>1, <1>4, <2>2
<1> HIDE DEF Good
<1> DEFINE S == {n \in Nat : since + n <= top => Good(h[since + n], since + n)}
<1>8. 0 \in S
  <2>1. since + 0 = since /\ h[since] = l
    BY <1>1, <1>3
  <2>2. QED
    BY <1>7, <2>1
<1>9. ASSUME NEW n \in Nat, n \in S PROVE n + 1 \in S
  <2>1. CASE since + (n + 1) <= top
    <3> DEFINE k == since + (n + 1)
    <3>1. k \in since..top /\ k # since /\ k - 1 = since + n /\ since + n <= top /\ k \in Int
      BY <1>1, <2>1
    <3> HIDE DEF k
    <3>2. h[k] = WithRow(h[k - 1], g, k)
      BY <1>3, <3>1
    <3>3. Good(h[k - 1], k - 1)
      BY <1>9, <3>1
    <3>4. Good(h[k], k)
      BY <1>6, <3>1, <3>2, <3>3
    <3>5. QED
      BY <3>4 DEF k
  <2>2. QED
    BY <2>1
<1>10. top - since \in Nat /\ since + (top - since) = top
  BY <1>1
<1>11. top - since \in S
  <2> HIDE DEF S
  <2>1. QED
    BY <1>8, <1>9, <1>10, Stepwise
<1>12. Good(h[top], top)
  BY <1>1, <1>10, <1>11
<1>13. p = h[top]
  BY <1>2
<1>14. ASSUME NEW k \in Int, InWindow(g, k) PROVE InBucket(p, k) = Stored(g, k)
  <2>1. k > top - Limit[g] /\ k > since
    BY <1>1, <1>14 DEF InWindow
  <2>2. InBucket(p, k) = IF k <= top THEN Stored(g, k) ELSE 0
    BY <1>12, <1>13, <2>1 DEF Good
  <2>3. k > top => Stored(g, k) = 0
    BY <1>1, <1>5 DEF Stored
  <2>4. QED
    BY <1>1, <2>2, <2>3
<1>15. QED
  BY <1>12, <1>13, <1>14 DEF Good, top
-------------------------------------------------------------------------------
(* One recorder at a time.                                                      *)

\* Who has counted and not finished.
AtWork(u) == job[u].step \notin {"idle", "load"}

\* A calculator with all lists loaded.
Fine(calc) ==
  \A g \in Grains :
    /\ Ordered(calc[g], g, Key(g, clock))
    /\ \A k \in Int : InWindow(g, k) => InBucket(calc[g], k) = Stored(g, k) + Ahead(g, k)

\* What the types say in the second half.
LEMMA SerialTypes ==
  ASSUME StatsAssumption, SerialInv
  PROVE  /\ heap \in [Calcs -> [Grains -> Lists]] /\ rows \in [Grains -> Tables]
         /\ job \in [Users -> Jobs] /\ clock \in Minutes /\ list \in Calcs \cup {None}
         /\ Tally(beats) /\ Tally(counted) /\ None \notin Calcs
         /\ \A c \in Calcs, g \in Grains : GoodList(heap[c][g], g, counted)
         /\ \A g \in Grains : /\ Limit[g] \in Nat \ {0} /\ Key(g, clock) \in Nat
                              /\ Since(g, clock) = Key(g, clock) - Limit[g]
         /\ Recorders \subseteq Users
BY KeysOfDates DEF SerialInv, CountInv, TypedStats, StatsAssumption, Since, Users

LEMMA KeysAreInt ==
  ASSUME StatsAssumption, NEW g \in Grains, NEW k \in KeysOf(g) PROVE k \in Int
<1>1. PICK t \in Minutes : k = Key(g, t)
  BY DEF KeysOf
<1>2. Key(g, t) \in Nat
  BY KeysOfDates
<1>3. QED
  BY <1>1, <1>2

\* Only one recorder is at work.
LEMMA OnlyOne ==
  ASSUME InTurn, SerialInv, NEW u \in Users, NEW v \in Users, AtWork(u), v \in Recorders
  PROVE  u \in Recorders /\ v = u
BY DEF InTurn, SerialInv, Turns, AtWork

LEMMA NothingPending ==
  ASSUME StatsAssumption, \A u \in Recorders : ~AtWork(u)
  PROVE  \A g, k : Ahead(g, k) = 0 /\ Behind(g, k) = 0
BY DEF AtWork, Ahead, Behind, Owes, Paid

\* Increment() adds one to the key alone.
LEMMA IncrementIs ==
  ASSUME NEW g \in Grains, NEW f, NEW l \in Lists, GoodList(l, g, f), NEW key \in DOMAIN l.mem,
         NEW p, p = Increment(l, key)
  PROVE  /\ p.stack = l.stack /\ p.mem = l.mem /\ p.bean = l.bean
         /\ \A k : InBucket(p, k) = InBucket(l, k) + (IF k = key THEN 1 ELSE 0)
<1> DEFINE m == l.mem[key]
           bucket == [l.bucket EXCEPT ![m] = @ + 1]
<1>1. l.bucket \in Seq(Nat) /\ Len(l.bucket) \in Nat /\ DOMAIN l.bucket = 1..Len(l.bucket)
      /\ m \in 1..Len(l.bucket) /\ \A i \in 1..Len(l.bucket) : l.bucket[i] \in Nat
  BY LenProperties, ElementOfSeq DEF Lists, GoodList
<1>2. \A i \in 1..Len(l.bucket) : bucket[i] = l.bucket[i] + (IF i = m THEN 1 ELSE 0)
  BY <1>1
<1>3. p = [l EXCEPT !.bucket = bucket]
  BY DEF Increment
<1> HIDE DEF bucket
<1>4. p.stack = l.stack /\ p.mem = l.mem /\ p.bean = l.bean /\ p.bucket = bucket
  BY <1>3 DEF Lists
<1>5. ASSUME NEW k PROVE InBucket(p, k) = InBucket(l, k) + (IF k = key THEN 1 ELSE 0)
  <2>1. CASE k \in DOMAIN l.mem
    <3>1. l.mem[k] \in 1..Len(l.bucket) /\ (l.mem[k] = m => k = key)
      BY <2>1 DEF GoodList
    <3>2. p.bucket[p.mem[k]] = l.bucket[l.mem[k]] + (IF k = key THEN 1 ELSE 0)
      BY <1>2, <1>4, <3>1
    <3>3. QED
      BY <1>4, <2>1, <3>2 DEF InBucket
  <2>2. CASE k \notin DOMAIN l.mem
    BY <1>4, <2>2 DEF InBucket
  <2>3. QED
    BY <2>1, <2>2
<1>6. QED
  BY <1>4, <1>5

\* A recorder counts.
LEMMA RecorderUses ==
  ASSUME StatsAssumption, InTurn, SerialInv, CountInv',
         NEW u \in Recorders, list # None, ~AtWork(u), \A v \in Users : v # u => ~IsLoading(v),
         NEW calc, calc \in [Grains -> Lists], \A g \in Grains : GoodList(calc[g], g, counted),
         Fine(calc), \A g \in Grains : calc[g].bean = heap[list][g].bean,
         Use(u, list, calc),
         list' = list, rows' = rows, clock' = clock, beats' = beats, era' = era, clear' = clear
  PROVE  SerialInv'
<1>0. /\ heap \in [Calcs -> [Grains -> Lists]] /\ job \in [Users -> Jobs]
      /\ clock \in Minutes /\ list \in Calcs /\ None \notin Calcs
      /\ u \in Users /\ Recorders \subseteq Users
      /\ \A g \in Grains : /\ Limit[g] \in Nat \ {0} /\ Key(g, clock) \in Nat
                           /\ Since(g, clock) = Key(g, clock) - Limit[g]
  BY SerialTypes
<1>1. \A v \in Users : ~AtWork(v)
  BY <1>0, OnlyOne
<1>2. \A g, k : Ahead(g, k) = 0 /\ Behind(g, k) = 0
  BY <1>0, <1>1, NothingPending
<1> DEFINE ready == Ready(calc, clock)
           reached == Reached(ready, clock)
           new == [g \in Grains |-> Increment(ready[g], Key(g, clock))]
           started == [Idle EXCEPT !.step = "bean", !.calc = list, !.at = 1, !.date = clock, !.current = clock,
                            !.held = [g \in Grains |-> ready[g].mem[Key(g, clock)]]]
<1>3. ASSUME NEW g \in Grains
      PROVE  /\ ready[g] \in Lists /\ GoodList(ready[g], g, counted) /\ ready[g].bean = calc[g].bean
             /\ Ordered(ready[g], g, Key(g, clock)) /\ Key(g, clock) \in DOMAIN ready[g].mem
             /\ Keeps(calc[g], ready[g], g, Key(g, clock))
  <2> DEFINE p == Ensure(calc[g], g, Key(g, clock))
             key == Key(g, clock)
  <2>1. ready[g] = p
    BY DEF Ready
  <2>2. calc[g] \in Lists /\ Ordered(calc[g], g, key) /\ GoodList(calc[g], g, counted) /\ 0 <= Seen(counted, g, key)
        /\ key \in Int
    BY <1>0, SeenIs, SerialTypes DEF Fine
  <2>3. p \in Lists /\ GoodList(p, g, counted)
    BY <1>0, <2>2, EnsureGood
  <2> HIDE DEF p
  <2>4. p = Ensure(calc[g], g, key)
    BY DEF p
  <2> HIDE DEF key
  <2>5. Ordered(p, g, key) /\ key \in DOMAIN p.mem /\ p.bean = calc[g].bean /\ Keeps(calc[g], p, g, key)
    BY <1>0, <2>2, <2>4, EnsureKeeps
  <2>6. QED
    BY <2>1, <2>3, <2>5 DEF key
<1>4. reached = Grains
  <2> HIDE DEF ready
  <2>1. QED
    BY <1>3 DEF Reached
<1>5. /\ heap' = [heap EXCEPT ![list] =
             [g \in Grains |-> IF g \in reached THEN Increment(ready[g], Key(g, clock)) ELSE ready[g]]]
      /\ job' = [job EXCEPT ![u] = IF reached = Grains THEN started ELSE Idle]
      /\ failed' = (failed \/ reached # Grains)
  BY DEF Use
<1> HIDE DEF ready, reached, started
<1>6. heap'[list] = new /\ \A c \in Calcs : c # list => heap'[c] = heap[c]
  BY <1>0, <1>4, <1>5
<1>7. job'[u] = started /\ \A v \in Users : v # u => job'[v] = job[v]
  BY <1>0, <1>4, <1>5
<1>8. ~failed'
  BY <1>4, <1>5 DEF SerialInv, Turns
<1>9. /\ started.step = "bean" /\ started.calc = list /\ started.at = 1 /\ started.date = clock /\ started.current = clock
      /\ started.held = [g \in Grains |-> ready[g].mem[Key(g, clock)]]
  BY DEF Idle, started
<1>10. ASSUME NEW g \in Grains
       PROVE  /\ new[g].stack = ready[g].stack /\ new[g].mem = ready[g].mem /\ new[g].bean = heap[list][g].bean
              /\ Ordered(new[g], g, Key(g, clock))
              /\ \A k \in Int : InWindow(g, k) =>
                   InBucket(new[g], k) = Stored(g, k) + (IF k = Key(g, clock) THEN 1 ELSE 0)
  <2>1. new[g] = Increment(ready[g], Key(g, clock))
    OBVIOUS
  <2> HIDE DEF new
  <2>2. /\ new[g].stack = ready[g].stack /\ new[g].mem = ready[g].mem /\ new[g].bean = ready[g].bean
        /\ \A k : InBucket(new[g], k) = InBucket(ready[g], k) + (IF k = Key(g, clock) THEN 1 ELSE 0)
    BY <1>3, <2>1, IncrementIs
  <2>3. Ordered(new[g], g, Key(g, clock))
    BY <1>3, <2>2 DEF Ordered
  <2>4. \A k \in Int : InWindow(g, k) => InBucket(ready[g], k) = Stored(g, k) + 0
    BY <1>0, <1>2, <1>3 DEF Fine, Keeps, InWindow
  <2>5. \A k \in Int : Stored(g, k) \in Nat
    <3>1. rows[g] \in Tables
      BY SerialTypes
    <3>2. QED
      BY <3>1, RowsAre DEF Stored
  <2>6. QED
    BY <1>3, <2>2, <2>3, <2>4, <2>5
<1> HIDE DEF new
<1>11. \A v \in Users : v # u => job'[v].step = "idle"
  BY <1>1, <1>7 DEF AtWork, IsLoading
<1>12. \A g \in Grains, k \in Int :
         /\ InWindow(g, k)' <=> InWindow(g, k)
         /\ Stored(g, k)' = Stored(g, k)
  BY DEF InWindow, Stored
<1>13. \A g \in Grains, k \in Int :
         /\ Ahead(g, k)' = IF k = Key(g, clock) THEN 1 ELSE 0
         /\ Behind(g, k)' = 0
  <2>1. \A g \in Grains : Owes(u, g)' /\ ~Paid(u, g)'
    BY <1>7, <1>9 DEF Owes, Paid, StoreAt, Grains
  <2>2. \A v \in Recorders, g \in Grains : v # u => ~Owes(v, g)' /\ ~Paid(v, g)'
    BY <1>0, <1>11 DEF Owes, Paid
  <2>3. \A g, k : OfDate(u, g, k)' <=> Key(g, clock) = k
    BY <1>7, <1>9 DEF OfDate
  <2>4. QED
    BY <2>1, <2>2, <2>3 DEF Ahead, Behind
<1>14. Turns'
  <2>1. /\ job'[u].calc = list' /\ job'[u].date <= clock' /\ job'[u].current <= clock' /\ job'[u].step = "bean"
    BY <1>0, <1>7, <1>9, MinutesAreNat
  <2>2. \A c \in Calcs : c # list' => heap'[c] = [g \in Grains |-> Empty]
    BY <1>6 DEF SerialInv, Turns
  <2>3. era' = [g \in Grains |-> 0] /\ clear' = 0
    BY DEF SerialInv, Turns
  <2>4. QED
    BY <1>8, <1>11, <2>1, <2>2, <2>3 DEF Turns, IsLoading
<1>15. NotLoaded' /\ RowsInTime'
  <2>1. \A v \in Users : ~IsLoading(v)'
    BY <1>7, <1>9, <1>11 DEF IsLoading
  <2>2. RowsInTime'
    BY DEF SerialInv, RowsInTime
  <2>3. QED
    BY <2>1, <2>2 DEF NotLoaded
<1>16. \A g \in Grains : Agreeing(g)'
  BY <1>6, <1>10, <1>12, <1>13 DEF Agreeing
<1>17. BeatsIn'
  <2>1. \A g \in Grains : \A k \in KeysOf(g) : k \in Int
    BY KeysAreInt
  <2>2. BeatsIn
    BY DEF SerialInv
  <2>3. QED
    BY <1>2, <1>12, <1>13, <2>1, <2>2 DEF BeatsIn
<1>18. StoresRight'
  <2>1. \A g \in Grains : Key(g, job'[u].date) = Key(g, clock) /\ job'[u].held[g] = new[g].mem[Key(g, clock)]
                          /\ Key(g, clock) \in DOMAIN new[g].mem /\ job'[u].step = "bean"
    BY <1>3, <1>7, <1>9, <1>10
  <2>2. \A v \in Recorders : v = u
    BY DEF InTurn
  <2>3. QED
    BY <1>6, <2>1, <2>2 DEF StoresRight, StoreRight
<1>19. BeansHaveRows'
  <2>1. \A g \in Grains : heap'[list'][g].bean = heap[list][g].bean
    BY <1>6, <1>10
  <2>2. \A v \in Recorders : job[v].step # "store"
    BY <1>0, <1>1 DEF AtWork
  <2>3. \A g \in Grains : heap[list][g].bean \in Beans \cup {None}
    <3>1. \A g \in Grains : heap[list][g] \in Lists
      BY <1>0
    <3>2. QED
      BY <3>1 DEF Lists
  <2>4. \A g \in Grains : heap[list][g].bean # None => heap[list][g].bean.key \in Int
    BY <2>3 DEF Beans
  <2>5. BeansHaveRows
    BY DEF SerialInv
  <2>6. QED
    BY <1>12, <2>1, <2>2, <2>4, <2>5 DEF BeansHaveRows
<1>20. QED
  BY <1>14, <1>15, <1>16, <1>17, <1>18, <1>19 DEF SerialInv

\* A reader makes sure of one bucket.
LEMMA ReaderUses ==
  ASSUME StatsAssumption, InTurn, SerialInv, CountInv',
         NEW u \in Users, u \notin Recorders, list # None, \A v \in Users : v # u => ~IsLoading(v),
         NEW calc, calc \in [Grains -> Lists], \A g \in Grains : GoodList(calc[g], g, counted),
         Fine(calc), \A g \in Grains : calc[g].bean = heap[list][g].bean,
         (\E v \in Users : AtWork(v)) =>
           \A g \in Grains : Keeps(heap[list][g], calc[g], g, Key(g, clock)),
         Use(u, list, calc),
         list' = list, rows' = rows, clock' = clock, beats' = beats, era' = era, clear' = clear
  PROVE  SerialInv'
<1>0. /\ heap \in [Calcs -> [Grains -> Lists]] /\ job \in [Users -> Jobs]
      /\ clock \in Minutes /\ list \in Calcs /\ None \notin Calcs
      /\ Recorders \subseteq Users
      /\ \A g \in Grains : /\ Limit[g] \in Nat \ {0} /\ Key(g, clock) \in Nat
                           /\ Since(g, clock) = Key(g, clock) - Limit[g]
  BY SerialTypes
<1>1. PICK x \in Grains : heap' = [heap EXCEPT ![list] = [calc EXCEPT ![x] = Ensure(@, x, Key(x, clock))]]
  BY DEF Use
<1>2. job' = [job EXCEPT ![u] = Idle] /\ failed' = failed
  BY DEF Use
<1> DEFINE p == Ensure(calc[x], x, Key(x, clock))
           new == [calc EXCEPT ![x] = p]
           key == Key(x, clock)
<1>3. p \in Lists /\ Ordered(p, x, key) /\ p.bean = calc[x].bean /\ Keeps(calc[x], p, x, key)
  <2>1. calc[x] \in Lists /\ Ordered(calc[x], x, key) /\ GoodList(calc[x], x, counted) /\ key \in Int
    BY <1>0 DEF Fine
  <2> HIDE DEF p
  <2>2. p = Ensure(calc[x], x, key)
    BY DEF p
  <2> HIDE DEF key
  <2>3. QED
    BY <1>0, <2>1, <2>2, EnsureKeeps
<1>4. heap'[list] = new /\ \A c \in Calcs : c # list => heap'[c] = heap[c]
  BY <1>0, <1>1
<1> HIDE DEF p
<1>5. new[x] = p /\ \A g \in Grains : g # x => new[g] = calc[g]
  OBVIOUS
<1> HIDE DEF new
<1>6. ASSUME NEW g \in Grains
      PROVE  /\ Ordered(new[g], g, Key(g, clock)) /\ new[g].bean = heap[list][g].bean
             /\ \A k \in Int : InWindow(g, k) =>
                  /\ InBucket(new[g], k) = Stored(g, k) + Ahead(g, k)
                  /\ InBucket(new[g], k) = InBucket(calc[g], k)
                  /\ k \in DOMAIN calc[g].mem => k \in DOMAIN new[g].mem /\ new[g].mem[k] = calc[g].mem[k]
  <2>1. CASE g = x
    <3>1. \A k \in Int : InWindow(g, k) =>
             /\ InBucket(p, k) = InBucket(calc[g], k)
             /\ k \in DOMAIN calc[g].mem => k \in DOMAIN p.mem /\ p.mem[k] = calc[g].mem[k]
      BY <1>0, <1>3, <2>1 DEF Keeps, InWindow
    <3>2. QED
      BY <1>3, <1>5, <2>1, <3>1 DEF Fine
  <2>2. CASE g # x
    BY <1>5, <2>2 DEF Fine
  <2>3. QED
    BY <2>1, <2>2
<1>7. job'[u] = Idle /\ job'[u].step = "idle" /\ \A v \in Users : v # u => job'[v] = job[v]
  BY <1>0, <1>2, IdleIsJob
<1>8. ~AtWork(u)
  BY DEF SerialInv, Turns, AtWork
<1>9. \A g \in Grains, k \in Int :
         /\ InWindow(g, k)' <=> InWindow(g, k)
         /\ Stored(g, k)' = Stored(g, k)
         /\ k \in DOMAIN rows'[g] <=> k \in DOMAIN rows[g]
  BY DEF InWindow, Stored
<1>10. \A v \in Recorders : v \in Users /\ v # u /\ job'[v] = job[v]
  BY <1>0, <1>7
<1>11. \A g, k : Ahead(g, k)' = Ahead(g, k) /\ Behind(g, k)' = Behind(g, k)
  BY <1>10 DEF Ahead, Behind, Owes, Paid, OfDate
<1>12. Turns'
  <2>1. \A c \in Calcs : c # list' => heap'[c] = [g \in Grains |-> Empty]
    BY <1>4 DEF SerialInv, Turns
  <2>2. era' = [g \in Grains |-> 0] /\ clear' = 0 /\ ~failed'
    BY <1>2 DEF SerialInv, Turns
  <2>3. \A v \in Users : ~IsLoading(v)'
    BY <1>7 DEF IsLoading
  <2>4. \A v \in Users : /\ job'[v].step # "idle" => job'[v].calc = list' /\ job'[v].date <= clock' /\ job'[v].current <= clock'
                         /\ job'[v].step \notin {"idle", "load"} => v \in Recorders
    BY <1>7 DEF SerialInv, Turns
  <2>5. QED
    BY <2>1, <2>2, <2>3, <2>4 DEF Turns
<1>13. NotLoaded' /\ RowsInTime'
  <2>1. \A v \in Users : ~IsLoading(v)'
    BY <1>7 DEF IsLoading
  <2>2. RowsInTime'
    BY DEF SerialInv, RowsInTime
  <2>3. QED
    BY <2>1, <2>2 DEF NotLoaded
<1>14. \A g \in Grains : Agreeing(g)'
  BY <1>4, <1>6, <1>9, <1>11 DEF Agreeing
<1>15. BeatsIn'
  <2>1. \A g \in Grains : \A k \in KeysOf(g) : k \in Int
    BY KeysAreInt
  <2>2. BeatsIn
    BY DEF SerialInv
  <2>3. QED
    BY <1>9, <1>11, <2>1, <2>2 DEF BeatsIn
<1>16. StoresRight'
  <2> SUFFICES ASSUME NEW v \in Recorders, NEW g \in Grains
               PROVE  StoreRight(v, g)'
    BY DEF StoresRight
  <2> DEFINE k == Key(g, job[v].date)
  <2>1. job'[v] = job[v] /\ k \in Int /\ (Owes(v, g)' <=> Owes(v, g))
    <3>1. job[v].date \in Minutes /\ job'[v] = job[v]
      BY <1>0, <1>10 DEF Jobs
    <3>2. k \in Nat
      BY <3>1, KeysOfDates
    <3>3. QED
      BY <3>1, <3>2 DEF Owes
  <2>2. StoresRight
    BY DEF SerialInv
  <2>3. /\ Owes(v, g) /\ InWindow(g, k) => k \in DOMAIN heap[list][g].mem /\ heap[list][g].mem[k] = job[v].held[g]
        /\ job[v].step = "store" /\ job[v].at = StoreAt(g) =>
             /\ InWindow(g, k) => job[v].value = InBucket(heap[list][g], k)
             /\ job[v].bean.row \in {None, 0}
             /\ job[v].bean.row = None => k \notin DOMAIN rows[g]
             /\ job[v].bean.row = 0 /\ InWindow(g, k) => k \in DOMAIN rows[g]
    BY <2>2 DEF StoresRight, StoreRight
  <2> HIDE DEF k
  <2>4. Owes(v, g) \/ job[v].step = "store" => AtWork(v)
    BY DEF Owes, AtWork
  <2>5. AtWork(v) /\ InWindow(g, k) =>
          /\ InBucket(new[g], k) = InBucket(heap[list][g], k)
          /\ k \in DOMAIN heap[list][g].mem => k \in DOMAIN new[g].mem /\ new[g].mem[k] = heap[list][g].mem[k]
    <3> SUFFICES ASSUME AtWork(v), InWindow(g, k)
                 PROVE /\ InBucket(new[g], k) = InBucket(heap[list][g], k)
                       /\ k \in DOMAIN heap[list][g].mem => k \in DOMAIN new[g].mem /\ new[g].mem[k] = heap[list][g].mem[k]
      OBVIOUS
    <3>1. Keeps(heap[list][g], calc[g], g, Key(g, clock))
      BY <1>10
    <3>2. k > Key(g, clock) - Limit[g]
      BY <1>0 DEF InWindow
    <3>3. QED
      BY <1>6, <2>1, <3>1, <3>2 DEF Keeps
  <2>6. QED
    BY <1>4, <1>9, <2>1, <2>3, <2>4, <2>5 DEF k, StoreRight
<1>17. BeansHaveRows'
  <2>1. \A g \in Grains : heap'[list'][g].bean = heap[list][g].bean
    BY <1>4, <1>6
  <2>2. \A g \in Grains : heap[list][g].bean \in Beans \cup {None}
    <3>1. \A g \in Grains : heap[list][g] \in Lists
      BY <1>0
    <3>2. QED
      BY <3>1 DEF Lists
  <2>3. \A g \in Grains : heap[list][g].bean # None => heap[list][g].bean.key \in Int
    BY <2>2 DEF Beans
  <2>4. BeansHaveRows
    BY DEF SerialInv
  <2>5. QED
    BY <1>9, <1>10, <2>1, <2>3, <2>4 DEF BeansHaveRows
<1>18. QED
  BY <1>12, <1>13, <1>14, <1>15, <1>16, <1>17 DEF SerialInv

\* What each operation does to the agreement of calculator and tables.
LEMMA AskSerial ==
  ASSUME StatsAssumption, InTurn, SerialInv, CountInv', NEW u \in Users, Ask(u) PROVE SerialInv'
<1>0. /\ heap \in [Calcs -> [Grains -> Lists]] /\ list \in Calcs \cup {None}
      /\ \A c \in Calcs, g \in Grains : GoodList(heap[c][g], g, counted)
  BY SerialTypes
<1>1. /\ list # None /\ ~Loading(list) /\ Use(u, list, heap[list]) /\ job[u].step = "idle"
      /\ list' = list /\ rows' = rows /\ clock' = clock /\ beats' = beats /\ era' = era /\ clear' = clear
  BY DEF Ask, Unchanged, InTurn
<1>2. \A v \in Users : ~IsLoading(v)
  BY <1>1 DEF Loading, IsLoading, SerialInv, Turns
<1>3. Fine(heap[list])
  <2>1. \A g \in Grains : Agreeing(g) /\ IsLoaded(g)
    BY <1>1, <1>2 DEF SerialInv, IsLoaded
  <2>2. QED
    BY <2>1 DEF Agreeing, Fine
<1>4. \A g \in Grains : Keeps(heap[list][g], heap[list][g], g, Key(g, clock))
  BY DEF Keeps
<1>5. heap[list] \in [Grains -> Lists] /\ \A g \in Grains : GoodList(heap[list][g], g, counted)
  BY <1>0, <1>1
<1>6. CASE u \in Recorders
  <2>1. ~AtWork(u)
    BY <1>1 DEF AtWork
  <2>2. QED
    BY <1>1, <1>2, <1>3, <1>5, <1>6, <2>1, RecorderUses
<1>7. CASE u \notin Recorders
  BY <1>1, <1>2, <1>3, <1>4, <1>5, <1>7, ReaderUses
<1>8. QED
  BY <1>6, <1>7

\* A list that the query of the past begins with.
LEMMA SinceOnly ==
  ASSUME StatsAssumption, NEW g \in Grains, NEW key \in Int, NEW p, p = Ensure(Empty, g, key)
  PROVE  p \in Lists /\ Ordered(p, g, key) /\ p.bean = None
<1>1. Empty \in Lists /\ GoodList(Empty, g, counted) /\ DOMAIN Empty.mem = {}
      /\ Limit[g] \in Nat \ {0}
  BY EmptyIsList DEF StatsAssumption
<1>2. Empty.stack = <<>> /\ Empty.bean = None
  BY DEF Empty
<1>3. Ordered(Empty, g, key)
  <2>1. Len(Empty.stack) = 0
    BY <1>2, EmptySeq
  <2>2. QED
    BY <1>1, <2>1 DEF Ordered
<1>4. QED
  BY <1>1, <1>2, <1>3, EnsureKeeps

LEMMA AskFirstSerial ==
  ASSUME StatsAssumption, InTurn, SerialInv, CountInv', NEW u \in Users, AskFirst(u) PROVE SerialInv'
<1>0. /\ heap \in [Calcs -> [Grains -> Lists]] /\ job \in [Users -> Jobs] /\ None \notin Calcs
      /\ clock \in Minutes /\ Recorders \subseteq Users
  BY SerialTypes
<1>1. PICK c \in {x \in Calcs : ~InUse(x)} :
       /\ list' = c
       /\ heap' = [heap EXCEPT ![c] =
                     [g \in Grains |-> IF g = LoadOrder[1]
                                       THEN Ensure(Empty, g, Since(g, clock)) ELSE Empty]]
       /\ job' = [job EXCEPT ![u] = Begun(c, clock)]
  BY DEF AskFirst, Begun
<1>2. rows' = rows /\ failed' = failed /\ clock' = clock /\ clear' = clear /\ era' = era /\ beats' = beats /\ list = None
  BY DEF AskFirst, Unchanged
<1> DEFINE new == [g \in Grains |-> IF g = LoadOrder[1]
                                    THEN Ensure(Empty, g, Since(g, clock)) ELSE Empty]
<1>3. /\ c \in Calcs /\ heap'[c] = new
      /\ \A d \in Calcs : d # c => heap'[d] = [g \in Grains |-> Empty]
  BY <1>0, <1>1, <1>2 DEF SerialInv, Turns
<1>4. \A g \in Grains :
        /\ LoadAt(g) > 1 => new[g] = Empty
        /\ LoadAt(g) = 1 => new[g] = Ensure(Empty, g, Since(g, clock))
        /\ new[g].bean = None
  <2> TAKE g \in Grains
  <2>1. Empty.bean = None /\ (LoadAt(g) = 1 <=> g = LoadOrder[1]) /\ ~(LoadAt(g) > 1 /\ g = LoadOrder[1])
    BY DEF Empty, LoadAt, LoadOrder, Grains
  <2> DEFINE p == Ensure(Empty, g, Since(g, clock))
  <2>2. Since(g, clock) \in Int
    BY <1>0, KeysOfDates
  <2>3. p.bean = None
    BY <2>2, SinceOnly
  <2>4. new[g] = IF g = LoadOrder[1] THEN p ELSE Empty
    OBVIOUS
  <2> HIDE DEF new, p
  <2>5. QED
    BY <2>1, <2>3, <2>4 DEF p
<1> HIDE DEF new
<1>5. \A v \in Users : job[v].step = "idle"
  BY <1>2 DEF SerialInv, Turns
<1>6. /\ job'[u] = Begun(c, clock) /\ job'[u].step = "load" /\ job'[u].calc = c /\ job'[u].at = 1 /\ job'[u].date = clock
      /\ job'[u].current = 0
      /\ \A v \in Users : v # u => job'[v] = job[v] /\ job'[v].step = "idle"
  BY <1>0, <1>1, <1>3, <1>5, LoadingJob
<1>7. \A v \in Recorders, g \in Grains : /\ ~Owes(v, g) /\ ~Paid(v, g) /\ ~Owes(v, g)' /\ ~Paid(v, g)'
                                              /\ job'[v].step # "store" /\ job[v].step # "store"
  BY <1>0, <1>5, <1>6 DEF Owes, Paid
<1>8. Turns'
  <2>1. job'[u].date <= clock' /\ job'[u].current <= clock'
    BY <1>0, <1>2, <1>6, MinutesAreNat
  <2>2. list' # None
    BY <1>0, <1>1, <1>3
  <2>3. era' = [g \in Grains |-> 0] /\ clear' = 0 /\ ~failed'
    BY <1>2 DEF SerialInv, Turns
  <2>4. \A d \in Calcs : d # list' => heap'[d] = [g \in Grains |-> Empty]
    BY <1>1, <1>3
  <2>5. \A v \in Users :
          /\ job'[v].step # "idle" => job'[v].calc = list' /\ job'[v].date <= clock' /\ job'[v].current <= clock'
          /\ job'[v].step = "load" => \A w \in Users : w # v => job'[w].step = "idle"
          /\ job'[v].step \in {"idle", "load"}
    BY <1>1, <1>6, <2>1
  <2>6. QED
    BY <2>2, <2>3, <2>4, <2>5 DEF Turns, IsLoading
<1>9. NotLoaded'
  <2>1. \A v \in Users : IsLoading(v)' => v = u
    BY <1>6 DEF IsLoading
  <2>2. QED
    BY <1>1, <1>3, <1>4, <1>6, <2>1 DEF NotLoaded
<1>10. \A g \in Grains : Agreeing(g)'
  <2>1. \A g \in Grains : ~(LoadAt(g) < 1)
    BY DEF LoadAt, Grains
  <2>2. \A g \in Grains : ~IsLoaded(g)'
    BY <1>6, <2>1 DEF IsLoaded, IsLoading
  <2>3. QED
    BY <2>2 DEF Agreeing
<1>11. RowsInTime'
  BY <1>2 DEF SerialInv, RowsInTime
<1>12. BeatsIn'
  <2>1. \A g \in Grains : \A k : Behind(g, k) = 0 /\ Behind(g, k)' = 0
    BY <1>7 DEF Behind
  <2>2. BeatsIn
    BY DEF SerialInv
  <2>3. \A g \in Grains : \A k : /\ InWindow(g, k)' <=> InWindow(g, k)
                             /\ Stored(g, k)' = Stored(g, k)
    BY <1>2 DEF InWindow, Stored
  <2>4. QED
    BY <1>2, <2>1, <2>2, <2>3 DEF BeatsIn
<1>13. StoresRight'
  BY <1>7 DEF StoresRight, StoreRight
<1>14. BeansHaveRows'
  BY <1>1, <1>3, <1>4 DEF BeansHaveRows
<1>15. QED
  BY <1>8, <1>9, <1>10, <1>11, <1>12, <1>13, <1>14 DEF SerialInv

LEMMA LoadSerial ==
  ASSUME StatsAssumption, InTurn, SerialInv, CountInv', NEW u \in Users, Load(u) PROVE SerialInv'
<1> DEFINE j == job[u]
           calc == [g \in Grains |->
                      IF g = LoadOrder[j.at] THEN LoadRows(heap[j.calc][g], g, j.date)
                      ELSE IF j.at < Len(LoadOrder) /\ g = LoadOrder[j.at + 1]
                      THEN Ensure(heap[j.calc][g], g, Since(g, j.date))
                      ELSE heap[j.calc][g]]
<1>0. /\ heap \in [Calcs -> [Grains -> Lists]] /\ job \in [Users -> Jobs] /\ None \notin Calcs
      /\ clock \in Minutes /\ Recorders \subseteq Users /\ rows \in [Grains -> Tables]
      /\ \A c \in Calcs, g \in Grains : GoodList(heap[c][g], g, counted)
      /\ Tally(counted)
  BY SerialTypes
<1>1. /\ list' = list /\ rows' = rows /\ clock' = clock /\ clear' = clear /\ era' = era /\ beats' = beats
      /\ j.step = "load"
  BY DEF Load, Unchanged
<1>2. /\ j \in Jobs /\ j.calc = list /\ list \in Calcs /\ list # None /\ j.date \in Minutes /\ j.date <= clock
      /\ j.at \in 1..3 /\ IsLoading(u) /\ \A v \in Users : v # u => job[v].step = "idle"
  <2>1. j \in Jobs
    BY <1>0
  <2>2. j.calc \in Calcs /\ j.date \in Minutes /\ j.date <= clock /\ j.at \in 1..3
    BY <1>1, <2>1 DEF SerialInv, CountInv, GoodJob, Jobs
  <2>3. j.calc = list /\ IsLoading(u)
    BY <1>1 DEF SerialInv, Turns, IsLoading
  <2>4. \A v \in Users : v # u => job[v].step = "idle"
    BY <2>3 DEF SerialInv, Turns
  <2>5. QED
    BY <1>0, <2>1, <2>2, <2>3, <2>4
<1>3. Len(LoadOrder) = 3
  BY DEF LoadOrder
<1>4. ASSUME NEW g \in Grains
      PROVE  /\ calc[g] \in Lists /\ GoodList(calc[g], g, counted) /\ calc[g].bean = heap[list][g].bean
             /\ LoadAt(g) < j.at => calc[g] = heap[list][g]
             /\ LoadAt(g) = j.at => calc[g] = LoadRows(heap[list][g], g, j.date)
             /\ LoadAt(g) = j.at + 1 => calc[g] = Ensure(Empty, g, Since(g, j.date))
             /\ LoadAt(g) > j.at + 1 => calc[g] = Empty
  <2> DEFINE l == heap[list][g]
  <2>1. l \in Lists /\ GoodList(l, g, counted)
    BY <1>0, <1>2
  <2>2. /\ LoadAt(g) \in 1..3 /\ (g = LoadOrder[j.at] <=> LoadAt(g) = j.at)
        /\ (j.at < 3 /\ g = LoadOrder[j.at + 1] <=> LoadAt(g) = j.at + 1)
    BY <1>2 DEF LoadAt, Grains, LoadOrder
  <2>3. LoadAt(g) > j.at => l = Empty
    BY <1>2 DEF SerialInv, NotLoaded
  <2>4. calc[g] = IF LoadAt(g) = j.at THEN LoadRows(l, g, j.date)
                  ELSE IF LoadAt(g) = j.at + 1 THEN Ensure(l, g, Since(g, j.date)) ELSE l
    BY <1>2, <1>3, <2>2
  <2> HIDE DEF calc, l, j
  <2>5. \A k \in DOMAIN rows[g] : rows[g][k].n <= Seen(counted, g, k)
    BY DEF SerialInv, CountInv
  <2>6. /\ LoadRows(l, g, j.date) \in Lists /\ GoodList(LoadRows(l, g, j.date), g, counted)
        /\ LoadRows(l, g, j.date).bean = l.bean
    BY <1>0, <1>2, <2>1, <2>5, LoadGood
  <2>7. Since(g, j.date) \in Int /\ Limit[g] \in Nat \ {0} /\ 0 <= Seen(counted, g, Since(g, j.date))
    BY <1>0, <1>2, KeysOfDates, SeenIs DEF StatsAssumption
  <2>8. /\ Ensure(l, g, Since(g, j.date)) \in Lists
        /\ GoodList(Ensure(l, g, Since(g, j.date)), g, counted)
        /\ Ensure(l, g, Since(g, j.date)).bean = l.bean
    BY <2>1, <2>7, EnsureGood
  <2>9. calc[g] \in Lists /\ GoodList(calc[g], g, counted) /\ calc[g].bean = l.bean
    BY <2>1, <2>4, <2>6, <2>8
  <2>10. j.at \in Int /\ LoadAt(g) \in Int
    BY <1>2, <2>2
  <2>11. QED
    BY <2>3, <2>4, <2>9, <2>10 DEF l
<1>5. calc \in [Grains -> Lists]
  BY <1>4
<1> HIDE DEF calc
<1>6. \A v \in Users : ~AtWork(v)
  BY <1>1, <1>2 DEF AtWork
<1>7. \A g, k : Ahead(g, k) = 0 /\ Behind(g, k) = 0
  BY <1>0, <1>6, NothingPending
<1>8. ASSUME NEW g \in Grains, LoadAt(g) <= j.at
      PROVE  /\ Ordered(calc[g], g, Key(g, clock))
             /\ \A k \in Int : InWindow(g, k) =>
                  InBucket(calc[g], k) = Stored(g, k) + Ahead(g, k)
  <2>1. LoadAt(g) \in 1..3
    BY DEF LoadAt, Grains
  <2>2. CASE LoadAt(g) < j.at
    <3>1. IsLoaded(g)
      BY <1>2, <2>2 DEF IsLoaded, IsLoading
    <3>2. Agreeing(g)
      BY DEF SerialInv
    <3>3. QED
      BY <1>4, <2>2, <3>1, <3>2 DEF Agreeing
  <2>3. CASE LoadAt(g) = j.at
    <3> DEFINE l == heap[list][g]
    <3>1. l \in Lists /\ GoodList(l, g, counted)
      BY <1>0, <1>2
    <3>2. l = Ensure(Empty, g, Since(g, j.date))
      BY <1>2, <2>3 DEF SerialInv, NotLoaded
    <3>3. Since(g, j.date) \in Int
      BY <1>2, KeysOfDates
    <3> HIDE DEF l
    <3>4. Ordered(l, g, Since(g, j.date))
      BY <3>2, <3>3, SinceOnly
    <3>5. /\ \A k \in DOMAIN rows[g] : rows[g][k].n <= Seen(counted, g, k)
          /\ \A k \in DOMAIN rows[g] : k <= Key(g, clock)
      BY DEF SerialInv, CountInv, RowsInTime
    <3>6. calc[g] = LoadRows(l, g, j.date)
      BY <1>4, <2>3 DEF l
    <3> HIDE DEF j
    <3>7. /\ Ordered(calc[g], g, Key(g, clock))
          /\ \A k \in Int : InWindow(g, k) => InBucket(calc[g], k) = Stored(g, k)
      BY <1>0, <1>2, <3>1, <3>4, <3>5, <3>6, LoadKeeps
    <3>8. \A k \in Int : Stored(g, k) \in Nat
      <4>1. rows[g] \in Tables
        BY <1>0
      <4>2. QED
        BY <4>1, RowsAre DEF Stored
    <3>9. QED
      BY <1>7, <3>7, <3>8
  <2>4. QED
    BY <1>2, <1>8, <2>1, <2>2, <2>3
<1>9. CASE j.at < 3
  <2>1. heap' = [heap EXCEPT ![list] = calc] /\ job' = [job EXCEPT ![u].at = @ + 1] /\ failed' = failed
    BY <1>2, <1>3, <1>9 DEF Load, calc
  <2>2. heap'[list] = calc /\ \A c \in Calcs : c # list => heap'[c] = heap[c]
    BY <1>0, <1>2, <2>1
  <2>3. job'[u] = [j EXCEPT !.at = @ + 1] /\ \A v \in Users : v # u => job'[v] = job[v]
    BY <1>0, <2>1
  <2>4. /\ job'[u].step = "load" /\ job'[u].calc = list /\ job'[u].date = j.date /\ job'[u].current = j.current
        /\ job'[u].at = j.at + 1
    <3>1. j.step = "load"
      BY <1>1
    <3> HIDE DEF j
    <3>2. QED
      BY <1>2, <2>3, <3>1 DEF Jobs
  <2>5. \A v \in Users : v # u => job'[v].step = "idle"
    BY <1>2, <2>3
  <2>6. \A v \in Recorders, g \in Grains : /\ ~Owes(v, g) /\ ~Paid(v, g) /\ ~Owes(v, g)' /\ ~Paid(v, g)'
                                                /\ job'[v].step # "store" /\ job[v].step # "store"
    BY <1>0, <1>1, <1>2, <2>4, <2>5 DEF Owes, Paid
  <2>7. Turns'
    <3>1. era' = [g \in Grains |-> 0] /\ clear' = 0 /\ ~failed'
      BY <1>1, <2>1 DEF SerialInv, Turns
    <3>2. \A d \in Calcs : d # list' => heap'[d] = [g \in Grains |-> Empty]
      BY <1>1, <2>2 DEF SerialInv, Turns
    <3>3. j.date <= clock /\ j.current <= clock
      BY <1>1 DEF SerialInv, Turns
    <3>4. \A v \in Users :
            /\ job'[v].step # "idle" => job'[v].calc = list' /\ job'[v].date <= clock' /\ job'[v].current <= clock'
            /\ job'[v].step = "load" => \A w \in Users : w # v => job'[w].step = "idle"
            /\ job'[v].step \in {"idle", "load"}
      BY <1>1, <2>4, <2>5, <3>3
    <3>5. QED
      BY <1>1, <1>2, <3>1, <3>2, <3>4 DEF Turns, IsLoading
  <2>8. NotLoaded'
    <3>1. \A v \in Users : IsLoading(v)' => v = u
      BY <2>5 DEF IsLoading
    <3>2. \A g \in Grains : /\ LoadAt(g) > j.at + 1 => calc[g] = Empty
                            /\ LoadAt(g) = j.at + 1 => calc[g] = Ensure(Empty, g, Since(g, j.date))
      BY <1>4
    <3>3. QED
      BY <1>1, <2>2, <2>4, <3>1, <3>2 DEF NotLoaded
  <2>9. \A g \in Grains, k \in Int : /\ InWindow(g, k)' <=> InWindow(g, k)
                                     /\ Stored(g, k)' = Stored(g, k)
                                     /\ k \in DOMAIN rows'[g] <=> k \in DOMAIN rows[g]
    BY <1>1 DEF InWindow, Stored
  <2>10. \A g \in Grains : \A k : Behind(g, k)' = 0 /\ Ahead(g, k)' = 0
    BY <2>6 DEF Behind, Ahead
  <2>11. \A g \in Grains : Agreeing(g)'
    <3> SUFFICES ASSUME NEW g \in Grains, IsLoaded(g)' PROVE Agreeing(g)'
      BY DEF Agreeing
    <3>1. LoadAt(g) < j.at + 1
      BY <2>4 DEF IsLoaded, IsLoading
    <3>2. LoadAt(g) \in 1..3 /\ j.at \in 1..3
      BY <1>2 DEF LoadAt, Grains
    <3>3. LoadAt(g) <= j.at
      BY <3>1, <3>2
    <3>4. QED
      BY <1>1, <1>7, <1>8, <2>2, <2>9, <2>10, <3>3 DEF Agreeing
  <2>12. RowsInTime'
    BY <1>1 DEF SerialInv, RowsInTime
  <2>13. BeatsIn'
    <3>1. \A g \in Grains : \A k \in KeysOf(g) : k \in Int
      BY KeysAreInt
    <3>2. BeatsIn
      BY DEF SerialInv
    <3>3. QED
      BY <1>1, <1>7, <2>9, <2>10, <3>1, <3>2 DEF BeatsIn
  <2>14. StoresRight'
    BY <2>6 DEF StoresRight, StoreRight
  <2>15. BeansHaveRows'
    <3>1. \A g \in Grains : heap'[list'][g].bean = heap[list][g].bean
      BY <1>1, <1>4, <2>2
    <3>2. \A g \in Grains : heap[list][g].bean # None => heap[list][g].bean.key \in Int
      <4>1. \A g \in Grains : heap[list][g] \in Lists
        BY <1>0, <1>2
      <4>2. \A g \in Grains : heap[list][g].bean \in Beans \cup {None}
        BY <4>1 DEF Lists
      <4>3. QED
        BY <4>2 DEF Beans
    <3>3. BeansHaveRows
      BY DEF SerialInv
    <3>4. QED
      BY <1>2, <2>6, <2>9, <3>1, <3>2, <3>3 DEF BeansHaveRows
  <2>16. QED
    BY <2>7, <2>8, <2>11, <2>12, <2>13, <2>14, <2>15 DEF SerialInv
<1>10. CASE j.at = 3
  <2>1. Use(u, list, IF list = j.calc THEN calc ELSE heap[list])
    BY <1>2, <1>3, <1>10 DEF Load, calc
  <2>2. Use(u, list, calc)
    BY <1>2, <2>1
  <2>3. Fine(calc)
    <3>1. \A g \in Grains : LoadAt(g) <= j.at
      BY <1>10 DEF LoadAt, Grains
    <3>2. QED
      BY <1>8, <3>1 DEF Fine
  <2>4. \A v \in Users : v # u => ~IsLoading(v)
    BY <1>2 DEF IsLoading
  <2>5. CASE u \in Recorders
    BY <1>1, <1>2, <1>4, <1>5, <1>6, <2>2, <2>3, <2>4, <2>5, RecorderUses
  <2>6. CASE u \notin Recorders
    BY <1>1, <1>2, <1>4, <1>5, <1>6, <2>2, <2>3, <2>4, <2>6, ReaderUses
  <2>7. QED
    BY <2>5, <2>6
<1>11. QED
  BY <1>2, <1>9, <1>10

LEMMA BeanAlone ==
  ASSUME heap \in [Calcs -> [Grains -> Lists]], NEW c \in Calcs, NEW g \in Grains, NEW b,
         heap' = [heap EXCEPT ![c][g].bean = b]
  PROVE  /\ \A d \in Calcs : d # c => heap'[d] = heap[d]
         /\ \A x \in Grains :
              /\ heap'[c][x].bucket = heap[c][x].bucket /\ heap'[c][x].mem = heap[c][x].mem
              /\ heap'[c][x].stack = heap[c][x].stack
              /\ heap'[c][x].bean = IF x = g THEN b ELSE heap[c][x].bean
<1>1. \A d \in Calcs : d # c => heap'[d] = heap[d]
  OBVIOUS
<1>2. ASSUME NEW x \in Grains
      PROVE  /\ heap'[c][x].bucket = heap[c][x].bucket /\ heap'[c][x].mem = heap[c][x].mem
             /\ heap'[c][x].stack = heap[c][x].stack
             /\ heap'[c][x].bean = IF x = g THEN b ELSE heap[c][x].bean
  <2> DEFINE l == heap[c][x]
  <2>1. l \in Lists
    OBVIOUS
  <2>2. heap'[c][x] = IF x = g THEN [l EXCEPT !.bean = b] ELSE l
    OBVIOUS
  <2> HIDE DEF l
  <2>3. /\ [l EXCEPT !.bean = b].bucket = l.bucket /\ [l EXCEPT !.bean = b].mem = l.mem
        /\ [l EXCEPT !.bean = b].stack = l.stack /\ [l EXCEPT !.bean = b].bean = b
    BY <2>1 DEF Lists
  <2>4. QED
    BY <2>2, <2>3 DEF l
<1>3. QED
  BY <1>1, <1>2

LEMMA StoreAtIs ==
  ASSUME NEW n \in 1..3, NEW g \in Grains
  PROVE  StoreAt(g) \in 1..3 /\ (StoreAt(g) = n <=> g = StoreOrder[n])
BY DEF StoreAt, StoreOrder, Grains

\* What is so while somebody stores what was counted.
LEMMA WhileAtWork ==
  ASSUME StatsAssumption, InTurn, SerialInv, NEW u \in Users, AtWork(u)
  PROVE  /\ u \in Recorders /\ \A v \in Recorders : v = u
         /\ \A v \in Users : ~IsLoading(v)
         /\ list \in Calcs /\ job[u].calc = list /\ job[u] \in Jobs /\ job[u].date \in Minutes
         /\ job[u].date <= clock /\ job[u].current <= clock /\ job[u].current \in Minutes
         /\ \A g \in Grains : IsLoaded(g)
<1>1. /\ job \in [Users -> Jobs] /\ list \in Calcs \cup {None} /\ Turns
  BY SerialTypes DEF SerialInv
<1>2. job[u] \in Jobs /\ job[u].date \in Minutes /\ job[u].current \in Minutes
  <2>1. job[u] \in Jobs
    BY <1>1
  <2>2. QED
    BY <2>1 DEF Jobs
<1>3. u \in Recorders /\ \A v \in Recorders : v = u
  BY <1>1 DEF Turns, AtWork, InTurn
<1>4. \A v \in Users : ~IsLoading(v)
  BY <1>1 DEF Turns, AtWork, IsLoading
<1>5. list # None
  BY <1>1 DEF Turns, AtWork
<1>6. job[u].calc = list /\ job[u].date <= clock /\ job[u].current <= clock
  BY <1>1 DEF Turns, AtWork
<1>7. \A g \in Grains : IsLoaded(g)
  BY <1>4, <1>5 DEF IsLoaded
<1>8. QED
  BY <1>1, <1>2, <1>3, <1>4, <1>5, <1>6, <1>7

\* Where the recorder is now, the others being where they were.
TurnOf(u) ==
  /\ \A v \in Users : v # u => job'[v] = job[v]
  /\ \/ job'[u].step = "idle"
     \/ /\ job'[u].step \in {"bean", "store", "expire", "beat"}
        /\ job'[u].calc = job[u].calc /\ job'[u].date = job[u].date
        /\ job'[u].current <= clock

LEMMA TurnsOn ==
  ASSUME StatsAssumption, InTurn, SerialInv, NEW u \in Users, AtWork(u), TurnOf(u),
         list' = list, clock' = clock, era' = era, clear' = clear, failed' = failed,
         \A c \in Calcs : c # list => heap'[c] = heap[c]
  PROVE  Turns' /\ NotLoaded' /\ \A v \in Users : ~IsLoading(v)'
<1>1. /\ u \in Recorders /\ \A v \in Users : ~IsLoading(v)
      /\ list \in Calcs /\ job[u].calc = list /\ job[u].date <= clock
  BY WhileAtWork
<1>2. \A v \in Users : ~IsLoading(v)'
  BY <1>1 DEF TurnOf, IsLoading
<1>3. era' = [g \in Grains |-> 0] /\ clear' = 0 /\ ~failed' /\ list' # None
  BY <1>1, SerialTypes DEF SerialInv, Turns
<1>4. \A c \in Calcs : c # list' => heap'[c] = [g \in Grains |-> Empty]
  BY DEF SerialInv, Turns
<1>5. \A v \in Users :
          /\ job'[v].step # "idle" => job'[v].calc = list' /\ job'[v].date <= clock' /\ job'[v].current <= clock'
          /\ job'[v].step \notin {"idle", "load"} => v \in Recorders
  BY <1>1 DEF SerialInv, Turns, TurnOf
<1>6. Turns'
  BY <1>2, <1>3, <1>4, <1>5 DEF Turns
<1>7. QED
  BY <1>2, <1>6 DEF NotLoaded

LEMMA GetBeanSerial ==
  ASSUME StatsAssumption, InTurn, SerialInv, CountInv', NEW u \in Users, GetBean(u) PROVE SerialInv'
<1> DEFINE j == job[u]
           h == StoreOrder[j.at]
           b == Bean(u, h)
           n == HeldCount(u, h)
           key == Key(h, j.date)
<1>1. /\ j \in Jobs /\ j.step = "bean" /\ j.at \in 1..3 /\ j.date \in Minutes
      /\ h \in Grains /\ b \in Beans /\ b.key = key /\ n \in Nat
      /\ heap' = [heap EXCEPT ![j.calc][h].bean = b] /\ job' = [job EXCEPT ![u] = Issued(j, b, n)]
      /\ list' = list /\ rows' = rows /\ failed' = failed /\ clock' = clock
      /\ clear' = clear /\ era' = era /\ beats' = beats
  BY GetBeanIs DEF SerialInv
<1>2. AtWork(u)
  BY <1>1 DEF AtWork
<1>3. /\ u \in Recorders /\ (\A v \in Recorders : v = u) /\ list \in Calcs /\ j.calc = list /\ j.date <= clock
      /\ j.current <= clock /\ \A g \in Grains : IsLoaded(g)
  BY <1>2, WhileAtWork
<1>4. /\ heap \in [Calcs -> [Grains -> Lists]] /\ job \in [Users -> Jobs] /\ None \notin Calcs
      /\ clock \in Minutes /\ rows \in [Grains -> Tables] /\ Recorders \subseteq Users
  BY SerialTypes
<1>5. key \in Nat
  BY <1>1, KeysOfDates
<1>6. StoreRight(u, h) /\ Owes(u, h) /\ StoreAt(h) = j.at /\ \A g \in Grains : StoreAt(g) = j.at => g = h
  <2>1. StoreAt(h) = j.at /\ \A g \in Grains : StoreAt(g) = j.at => g = h
    BY <1>1, StoreAtIs
  <2>2. j.at <= StoreAt(h)
    BY <1>1, <2>1
  <2>3. Owes(u, h)
    BY <1>1, <2>2 DEF Owes
  <2>4. QED
    BY <1>1, <1>3, <2>1, <2>3 DEF SerialInv, StoresRight
<1>7. InWindow(h, key) => n = InBucket(heap[list][h], key)
  <2>1. InWindow(h, key) => key \in DOMAIN heap[list][h].mem /\ heap[list][h].mem[key] = j.held[h]
    BY <1>6 DEF StoreRight
  <2>2. n = heap[list][h].bucket[j.held[h]]
    BY <1>3 DEF HeldCount
  <2>3. QED
    BY <2>1, <2>2 DEF InBucket
\* a cached bean without a row would be on its way to the table, and nobody but u stores
<1>8. /\ b.row \in {None, 0}
      /\ b.row = None => key \notin DOMAIN rows[h]
      /\ b.row = 0 /\ InWindow(h, key) => key \in DOMAIN rows[h]
  <2>1. BeansHaveRows /\ RowsInTime
    BY DEF SerialInv
  <2>2. None # 0
    BY DEF StatsAssumption
  <2>3. CASE IsCached(u, h)
    <3> DEFINE cached == heap[list][h].bean
    <3>1. cached # None /\ cached.key = key /\ b = cached
      BY <1>3, <2>3 DEF IsCached, Bean
    <3>2. cached.row # None
      <4>1. SUFFICES ASSUME cached.row = None PROVE FALSE
        OBVIOUS
      <4>2. list # None
        BY <1>3, <1>4
      <4> HIDE DEF j
      <4>3. \E v \in Recorders : job[v].step = "store"
        BY <1>1, <2>1, <3>1, <4>1, <4>2 DEF BeansHaveRows
      <4>4. QED
        BY <1>1, <1>3, <4>3 DEF j
    <3>3. cached.row \in {None, 0} /\ (cached.row = 0 /\ InWindow(h, cached.key) => cached.key \in DOMAIN rows[h])
      BY <1>1, <1>3, <1>4, <2>1, <3>1 DEF BeansHaveRows
    <3> HIDE DEF cached, b, key
    <3>4. QED
      BY <3>1, <3>2, <3>3
  <2>4. CASE ~IsCached(u, h)
    <3>1. b = Found(u, h)
      BY <2>4 DEF Bean
    <3>2. b.row = IF key \in DOMAIN rows[h] THEN rows[h][key].row ELSE None
      BY <3>1 DEF Found
    <3>3. key \in DOMAIN rows[h] => rows[h][key].row = 0
      BY <1>1, <2>1 DEF RowsInTime
    <3> HIDE DEF b, key
    <3>4. QED
      BY <2>2, <3>2, <3>3
  <2>5. QED
    BY <2>3, <2>4
<1> HIDE DEF b, n
<1>9. /\ \A c \in Calcs : c # list => heap'[c] = heap[c]
      /\ \A x \in Grains :
           /\ heap'[list][x].bucket = heap[list][x].bucket /\ heap'[list][x].mem = heap[list][x].mem
           /\ heap'[list][x].stack = heap[list][x].stack
           /\ heap'[list][x].bean = IF x = h THEN b ELSE heap[list][x].bean
  <2>1. heap' = [heap EXCEPT ![list][h].bean = b]
    BY <1>1, <1>3
  <2> HIDE DEF h, j
  <2>2. QED
    BY <1>1, <1>3, <1>4, <2>1, BeanAlone
<1>10. job'[u] = Issued(j, b, n) /\ \A v \in Users : v # u => job'[v] = job[v]
  BY <1>1, <1>4
<1>11. /\ job'[u].step = "store" /\ job'[u].bean = b /\ job'[u].value = n /\ job'[u].current = j.current
       /\ job'[u].calc = j.calc /\ job'[u].at = j.at /\ job'[u].date = j.date /\ job'[u].held = j.held
  BY <1>1, <1>10, IssuedJob
<1>12. Turns' /\ NotLoaded'
  <2>1. TurnOf(u)
    BY <1>3, <1>10, <1>11 DEF TurnOf
  <2>2. QED
    BY <1>1, <1>2, <1>9, <2>1, TurnsOn
<1>13. \A g \in Grains : \A k : Ahead(g, k)' = Ahead(g, k) /\ Behind(g, k)' = Behind(g, k)
  <2>1. \A g : (Owes(u, g)' <=> Owes(u, g)) /\ (Paid(u, g)' <=> Paid(u, g))
    BY <1>1, <1>11 DEF Owes, Paid
  <2>2. \A g, k : OfDate(u, g, k)' <=> OfDate(u, g, k)
    BY <1>11 DEF OfDate
  <2>3. QED
    BY <1>3, <2>1, <2>2 DEF Ahead, Behind
<1>14. \A g \in Grains, k \in Int :
         /\ InWindow(g, k)' <=> InWindow(g, k)
         /\ Stored(g, k)' = Stored(g, k)
         /\ k \in DOMAIN rows'[g] <=> k \in DOMAIN rows[g]
         /\ InBucket(heap'[list'][g], k) = InBucket(heap[list][g], k)
  <2> HIDE DEF j, h, key
  <2>1. SUFFICES ASSUME NEW g \in Grains, NEW k \in Int
                 PROVE  /\ InWindow(g, k)' <=> InWindow(g, k)
                        /\ Stored(g, k)' = Stored(g, k)
                        /\ k \in DOMAIN rows'[g] <=> k \in DOMAIN rows[g]
                        /\ InBucket(heap'[list'][g], k) = InBucket(heap[list][g], k)
    OBVIOUS
  <2>2. (InWindow(g, k)' <=> InWindow(g, k)) /\ Stored(g, k)' = Stored(g, k)
    BY <1>1 DEF InWindow, Stored
  <2>3. heap'[list'][g].bucket = heap[list][g].bucket /\ heap'[list'][g].mem = heap[list][g].mem
    BY <1>1, <1>9
  <2>4. InBucket(heap'[list'][g], k) = InBucket(heap[list][g], k)
    BY <2>3 DEF InBucket
  <2>5. QED
    BY <1>1, <2>2, <2>4
<1>15. \A g \in Grains : Agreeing(g)'
  <2> SUFFICES ASSUME NEW g \in Grains PROVE Agreeing(g)'
    OBVIOUS
  <2>1. Agreeing(g) /\ IsLoaded(g)
    BY <1>3 DEF SerialInv
  <2>2. Ordered(heap[list][g], g, Key(g, clock))
    BY <2>1 DEF Agreeing
  <2>3. Ordered(heap'[list'][g], g, Key(g, clock'))
    <3>1. heap'[list'][g].stack = heap[list][g].stack /\ heap'[list'][g].mem = heap[list][g].mem
      BY <1>1, <1>9
    <3>2. clock' = clock
      BY <1>1
    <3>3. QED
      BY <2>2, <3>1, <3>2 DEF Ordered
  <2>4. QED
    BY <1>13, <1>14, <2>1, <2>3 DEF Agreeing
<1>16. RowsInTime'
  BY <1>1 DEF SerialInv, RowsInTime
<1>17. BeatsIn'
  <2>1. \A g \in Grains : \A k \in KeysOf(g) : k \in Int
    BY KeysAreInt
  <2>2. BeatsIn
    BY DEF SerialInv
  <2>3. QED
    BY <1>1, <1>13, <1>14, <2>1, <2>2 DEF BeatsIn
<1>18. StoresRight'
  <2> SUFFICES ASSUME NEW g \in Grains PROVE StoreRight(u, g)'
    BY <1>3 DEF StoresRight
  <2> DEFINE k == Key(g, j.date)
  <2>1. k \in Nat /\ k = Key(g, job'[u].date)
    BY <1>1, <1>11, KeysOfDates
  <2>2. Owes(u, g)' <=> Owes(u, g)
    BY <1>1, <1>11 DEF Owes
  <2>3. Owes(u, g) /\ InWindow(g, k) => k \in DOMAIN heap[list][g].mem /\ heap[list][g].mem[k] = j.held[g]
    BY <1>3 DEF SerialInv, StoresRight, StoreRight
  <2>4. InWindow(g, k)' <=> InWindow(g, k)
    BY <1>1, <1>11 DEF InWindow
  <2>5. job'[u].at = StoreAt(g) => g = h /\ k = key
    BY <1>6, <1>11
  <2>6. InBucket(heap'[list'][g], k) = InBucket(heap[list][g], k)
    BY <1>14, <2>1
  <2> HIDE DEF k, key, h, j
  <2>7. Owes(u, g)' /\ InWindow(g, k) => k \in DOMAIN heap'[list'][g].mem /\ heap'[list'][g].mem[k] = job'[u].held[g]
    BY <1>1, <1>9, <1>11, <2>2, <2>3
  <2>8. job'[u].at = StoreAt(g) =>
          /\ InWindow(g, k) => job'[u].value = InBucket(heap'[list'][g], k)
          /\ job'[u].bean.row \in {None, 0}
          /\ job'[u].bean.row = None => k \notin DOMAIN rows'[g]
          /\ job'[u].bean.row = 0 /\ InWindow(g, k) => k \in DOMAIN rows'[g]
    BY <1>1, <1>7, <1>8, <1>11, <2>5, <2>6
  <2>9. InWindow(g, Key(g, job[u].date))' <=> InWindow(g, k)
    BY <2>4 DEF k, j
  <2>10. QED
    BY <2>1, <2>7, <2>8, <2>9 DEF StoreRight
<1>19. BeansHaveRows'
  <2> SUFFICES ASSUME NEW g \in Grains, heap'[list'][g].bean # None
               PROVE  /\ heap'[list'][g].bean.row \in {None, 0}
                      /\ heap'[list'][g].bean.row = 0 /\ InWindow(g, heap[list][g].bean.key)' =>
                           heap'[list'][g].bean.key \in DOMAIN rows'[g]
                      /\ heap'[list'][g].bean.row = None =>
                           \E v \in Recorders : job'[v].step = "store" /\ job'[v].at = StoreAt(g) /\ job'[v].bean = heap'[list'][g].bean
    BY DEF BeansHaveRows
  <2>1. CASE g = h
    <3>1. heap'[list'][g].bean = b
      BY <1>1, <1>9, <2>1
    <3>2. InWindow(g, heap[list][g].bean.key)' <=> InWindow(h, key)
      BY <1>1, <2>1, <3>1 DEF InWindow
    <3>3. job'[u].step = "store" /\ job'[u].at = StoreAt(g) /\ job'[u].bean = heap'[list'][g].bean
      BY <1>6, <1>11, <2>1, <3>1
    <3>4. b.key = key
      BY <1>1
    <3> HIDE DEF key, h
    <3>5. QED
      BY <1>1, <1>3, <1>8, <2>1, <3>1, <3>2, <3>3, <3>4
  <2>2. CASE g # h
    <3> DEFINE c == heap[list][g].bean
    <3>1. heap'[list'][g].bean = c /\ c # None
      BY <1>1, <1>9, <2>2
    <3>2. BeansHaveRows
      BY DEF SerialInv
    <3>3. c.row \in {None, 0} /\ c.row # None /\ (c.row = 0 /\ InWindow(g, c.key) => c.key \in DOMAIN rows[g])
      BY <1>1, <1>3, <1>4, <3>1, <3>2 DEF BeansHaveRows
    <3>4. InWindow(g, heap[list][g].bean.key)' <=> InWindow(g, c.key)
      BY <1>1, <3>1 DEF InWindow
    <3> HIDE DEF c
    <3>5. QED
      BY <1>1, <3>1, <3>3, <3>4
  <2>3. QED
    BY <2>1, <2>2
<1>20. QED
  BY <1>12, <1>15, <1>16, <1>17, <1>18, <1>19 DEF SerialInv

LEMMA AfterStoreIs ==
  ASSUME NEW u, job[u] \in Jobs, job[u].at \in 1..3, clock \in Minutes
  PROVE  LET i == AfterStore(u)
         IN /\ i.calc = job[u].calc /\ i.date = job[u].date /\ i.held = job[u].held
            /\ i.current = clock \/ i.current = job[u].current
            /\ \/ i.step = "bean" /\ i.at = job[u].at + 1 /\ job[u].at < 3
               \/ i.step = "expire" /\ i.at = 1 /\ job[u].at = 3
<1> DEFINE j == job[u]
<1>1. CASE j.at < 3
  <2>1. PICK t \in Minutes : t = (IF j.at = 1 THEN clock ELSE j.current)
    BY DEF Jobs
  <2>2. AfterStore(u) = NextBean(j, t)
    BY <1>1, <2>1 DEF AfterStore
  <2> HIDE DEF j
  <2>3. j \in Jobs /\ (t = clock \/ t = j.current)
    BY <2>1 DEF j
  <2>4. QED
    BY <1>1, <2>2, <2>3, NextBeanJob DEF j
<1>2. CASE ~(j.at < 3)
  <2>1. AfterStore(u) = AllStored(j) /\ j.at = 3
    BY <1>2 DEF AfterStore
  <2> HIDE DEF j
  <2>2. j \in Jobs
    BY DEF j
  <2>3. QED
    BY <2>1, <2>2, AllStoredJob DEF j
<1>3. QED
  BY <1>1, <1>2

\* One table gets, or had and keeps, a row for the key; the bean's row is the only one of its kind.
Rewritten(h, k, n) ==
  /\ \A x \in Grains : x # h => rows'[x] = rows[x]
  /\ \A y \in Int : y # k => /\ y \in DOMAIN rows'[h] <=> y \in DOMAIN rows[h]
                             /\ y \in DOMAIN rows[h] => rows'[h][y] = rows[h][y]
  /\ k \in DOMAIN rows'[h] => rows'[h][k].row = 0
  /\ InWindow(h, k) => k \in DOMAIN rows'[h] /\ rows'[h][k].n = n

LEMMA RewrittenBy ==
  ASSUME StatsAssumption, rows \in [Grains -> Tables], NEW u, NEW h \in Grains, NEW k \in Int,
         job[u].bean.key = k, job[u].bean.row \in {None, 0}, NewRow(u, h) \in [row : Nat, n : Nat],
         era[h] = 0, RowsInTime,
         job[u].bean.row = 0 /\ InWindow(h, k) => k \in DOMAIN rows[h],
         rows' = IF StoreWrites(u, h) THEN [rows EXCEPT ![h] = WithKey(rows[h], k, NewRow(u, h))] ELSE rows
  PROVE  Rewritten(h, k, job[u].value)
<1>1. \A x \in DOMAIN rows[h] : rows[h][x].row = 0
  BY DEF RowsInTime
<1>2. CASE StoreWrites(u, h)
  <2> DEFINE t == WithKey(rows[h], k, NewRow(u, h))
  <2>1. rows[h] \in Tables
    OBVIOUS
  <2>2. DOMAIN t = DOMAIN rows[h] \cup {k} /\ t[k] = NewRow(u, h) /\ \A x \in DOMAIN rows[h] : x # k => t[x] = rows[h][x]
    <3>1. PICK old \in Tables, new \in [row : Nat, n : Nat] : old = rows[h] /\ new = NewRow(u, h)
      BY <2>1
    <3>2. t = WithKey(old, k, new)
      BY <3>1
    <3> HIDE DEF t
    <3>3. /\ DOMAIN WithKey(old, k, new) = DOMAIN old \cup {k} /\ WithKey(old, k, new)[k] = new
          /\ \A x \in DOMAIN old : x # k => WithKey(old, k, new)[x] = old[x]
      BY ONLY <3>1, k \in Int, WithKeyIs
    <3>4. QED
      BY <3>1, <3>2, <3>3
  <2>3. NewRow(u, h).row = 0 /\ NewRow(u, h).n = job[u].value
    BY DEF NewRow
  <2> HIDE DEF t
  <2>4. rows' = [rows EXCEPT ![h] = t]
    BY <1>2 DEF t
  <2>5. rows'[h] = t /\ \A x \in Grains : x # h => rows'[x] = rows[x]
    BY <2>4
  <2>6. QED
    BY <2>2, <2>3, <2>5 DEF Rewritten
<1>3. CASE ~StoreWrites(u, h)
  <2>1. rows' = rows
    BY <1>3
  <2>2. ~InWindow(h, k)
    BY <1>1, <1>3 DEF StoreWrites
  <2>3. QED
    BY <1>1, <2>1, <2>2 DEF Rewritten
<1>4. QED
  BY <1>2, <1>3

\* The recorder inserts no second row for a period, and what it stores is what the list has.
LEMMA StoreRewrites ==
  ASSUME StatsAssumption, InTurn, SerialInv, NEW u \in Users, StoreBean(u)
  PROVE  LET j == job[u]
             h == StoreOrder[j.at]
             key == Key(h, j.date)
         IN /\ j \in Jobs /\ j.step = "store" /\ j.at \in 1..3 /\ j.date \in Minutes
            /\ h \in Grains /\ j.bean \in Beans /\ j.bean.key = key /\ j.value \in Nat
            /\ list' = list /\ clock' = clock /\ clear' = clear /\ era' = era /\ beats' = beats
            /\ job' = [job EXCEPT ![u] = AfterStore(u)] /\ failed' = failed
            /\ heap' = [heap EXCEPT ![list][h].bean = StoredBean(u, h)]
            /\ InWindow(h, key) => j.value = InBucket(heap[list][h], key)
            /\ Rewritten(h, key, j.value)
<1> DEFINE j == job[u]
           h == StoreOrder[j.at]
           key == Key(h, j.date)
<1>1. /\ j \in Jobs /\ j.step = "store" /\ j.at \in 1..3 /\ j.date \in Minutes
      /\ h \in Grains /\ j.bean \in Beans /\ j.bean.key = key
      /\ NewRow(u, h) \in [row : Nat, n : Nat] /\ j.value \in Nat
      /\ list' = list /\ clock' = clock /\ clear' = clear /\ era' = era /\ beats' = beats
      /\ \/ StoreFails(u)
         \/ /\ ~StoreFails(u)
            /\ job' = [job EXCEPT ![u] = AfterStore(u)] /\ failed' = failed
            /\ heap' = [heap EXCEPT ![j.calc][h].bean = StoredBean(u, h)]
            /\ rows' = IF StoreWrites(u, h) THEN [rows EXCEPT ![h] = WithKey(@, key, NewRow(u, h))] ELSE rows
  <2>1. CountInv
    BY DEF SerialInv
  <2>2. j.date \in Minutes
    BY SerialTypes DEF Jobs
  <2>3. QED
    BY <2>1, <2>2, StoreBeanIs
<1>2. AtWork(u)
  BY <1>1 DEF AtWork
<1>3. /\ u \in Recorders /\ (\A v \in Recorders : v = u) /\ list \in Calcs /\ j.calc = list /\ j.date <= clock
      /\ j.current <= clock /\ \A g \in Grains : IsLoaded(g)
  BY <1>2, WhileAtWork
<1>4. /\ heap \in [Calcs -> [Grains -> Lists]] /\ job \in [Users -> Jobs] /\ None \notin Calcs
      /\ clock \in Minutes /\ rows \in [Grains -> Tables] /\ Recorders \subseteq Users
  BY SerialTypes
<1>5. key \in Nat
  BY <1>1, KeysOfDates
<1>6. StoreRight(u, h) /\ StoreAt(h) = j.at /\ \A g \in Grains : StoreAt(g) = j.at => g = h
  <2>1. StoreAt(h) = j.at /\ \A g \in Grains : StoreAt(g) = j.at => g = h
    BY <1>1, StoreAtIs
  <2>2. QED
    BY <1>1, <1>3, <2>1 DEF SerialInv, StoresRight
<1>7. /\ InWindow(h, key) => j.value = InBucket(heap[list][h], key)
      /\ j.bean.row \in {None, 0}
      /\ j.bean.row = None => key \notin DOMAIN rows[h]
      /\ j.bean.row = 0 /\ InWindow(h, key) => key \in DOMAIN rows[h]
  BY <1>1, <1>6 DEF StoreRight
\* there is no row of this monitor and timestamp for the insert to meet
<1>8. ~StoreFails(u)
  BY <1>1, <1>7 DEF StoreFails
<1>9. /\ job' = [job EXCEPT ![u] = AfterStore(u)] /\ failed' = failed
      /\ heap' = [heap EXCEPT ![list][h].bean = StoredBean(u, h)]
      /\ rows' = IF StoreWrites(u, h) THEN [rows EXCEPT ![h] = WithKey(rows[h], key, NewRow(u, h))] ELSE rows
  BY <1>1, <1>3, <1>8
<1>10. era[h] = 0 /\ RowsInTime /\ BeansHaveRows
  BY <1>1 DEF SerialInv, Turns
<1>11. Rewritten(h, key, j.value)
  <2> HIDE DEF h, key
  <2>1. key \in Int
    BY <1>5
  <2>2. QED
    BY <1>1, <1>4, <1>7, <1>9, <1>10, <2>1, RewrittenBy
<1>12. QED
  BY <1>1, <1>7, <1>9, <1>11

LEMMA StoreBeanSerial ==
  ASSUME StatsAssumption, InTurn, SerialInv, CountInv', NEW u \in Users, StoreBean(u) PROVE SerialInv'
<1> DEFINE j == job[u]
           h == StoreOrder[j.at]
           key == Key(h, j.date)
<1>1. /\ j \in Jobs /\ j.step = "store" /\ j.at \in 1..3 /\ j.date \in Minutes
      /\ h \in Grains /\ j.bean \in Beans /\ j.bean.key = key /\ j.value \in Nat
      /\ list' = list /\ clock' = clock /\ clear' = clear /\ era' = era /\ beats' = beats
      /\ job' = [job EXCEPT ![u] = AfterStore(u)] /\ failed' = failed
      /\ heap' = [heap EXCEPT ![list][h].bean = StoredBean(u, h)]
      /\ InWindow(h, key) => j.value = InBucket(heap[list][h], key)
      /\ Rewritten(h, key, j.value)
  BY StoreRewrites
<1>2. AtWork(u)
  BY <1>1 DEF AtWork
<1>3. /\ u \in Recorders /\ (\A v \in Recorders : v = u) /\ list \in Calcs /\ j.calc = list /\ j.date <= clock
      /\ j.current <= clock /\ \A g \in Grains : IsLoaded(g)
  BY <1>2, WhileAtWork
<1>4. /\ heap \in [Calcs -> [Grains -> Lists]] /\ job \in [Users -> Jobs] /\ None \notin Calcs
      /\ clock \in Minutes /\ rows \in [Grains -> Tables] /\ Recorders \subseteq Users
  BY SerialTypes
<1>5. key \in Nat
  BY <1>1, KeysOfDates
<1>6. StoreRight(u, h) /\ StoreAt(h) = j.at /\ \A g \in Grains : StoreAt(g) = j.at => g = h
  <2>1. StoreAt(h) = j.at /\ \A g \in Grains : StoreAt(g) = j.at => g = h
    BY <1>1, StoreAtIs
  <2>2. QED
    BY <1>1, <1>3, <2>1 DEF SerialInv, StoresRight
<1>7. InWindow(h, key) => j.value = InBucket(heap[list][h], key)
  BY <1>1
<1>8. /\ job' = [job EXCEPT ![u] = AfterStore(u)] /\ failed' = failed
      /\ heap' = [heap EXCEPT ![list][h].bean = StoredBean(u, h)]
  BY <1>1
<1>10. era[h] = 0 /\ RowsInTime /\ BeansHaveRows
  BY <1>1 DEF SerialInv, Turns
<1>11. Rewritten(h, key, j.value)
  BY <1>1
<1>12. /\ \A c \in Calcs : c # list => heap'[c] = heap[c]
       /\ \A x \in Grains :
            /\ heap'[list][x].bucket = heap[list][x].bucket /\ heap'[list][x].mem = heap[list][x].mem
            /\ heap'[list][x].stack = heap[list][x].stack
            /\ heap'[list][x].bean = IF x = h THEN StoredBean(u, h) ELSE heap[list][x].bean
  <2> HIDE DEF h, j
  <2>1. QED
    BY <1>1, <1>3, <1>4, <1>8, BeanAlone
<1>13. /\ \A v \in Users : v # u => job'[v] = job[v]
       /\ job'[u].calc = j.calc /\ job'[u].date = j.date /\ job'[u].held = j.held
       /\ job'[u].current = clock \/ job'[u].current = j.current
       /\ \/ job'[u].step = "bean" /\ job'[u].at = j.at + 1 /\ j.at < 3
          \/ job'[u].step = "expire" /\ job'[u].at = 1 /\ j.at = 3
  <2>1. job'[u] = AfterStore(u) /\ \A v \in Users : v # u => job'[v] = job[v]
    BY <1>4, <1>8
  <2>2. QED
    BY <1>1, <1>4, <2>1, AfterStoreIs
<1>14. Turns' /\ NotLoaded'
  <2>1. TurnOf(u)
    <3>1. clock <= clock
      BY <1>4, MinutesAreNat
    <3>2. QED
      BY <1>3, <1>13, <3>1 DEF TurnOf
  <2>2. QED
    BY <1>1, <1>2, <1>8, <1>12, <2>1, TurnsOn
<1>15. \A g \in Grains :
         /\ Owes(u, g)' <=> Owes(u, g) /\ g # h
         /\ Paid(u, g)' <=> Paid(u, g) \/ g = h
         /\ Owes(u, h) /\ ~Paid(u, h)
  <2> SUFFICES ASSUME NEW g \in Grains
               PROVE  /\ Owes(u, g)' <=> Owes(u, g) /\ g # h
                      /\ Paid(u, g)' <=> Paid(u, g) \/ g = h
                      /\ Owes(u, h) /\ ~Paid(u, h)
    OBVIOUS
  <2>1. StoreAt(g) \in 1..3 /\ StoreAt(h) \in 1..3 /\ (g = h <=> StoreAt(g) = j.at)
    BY <1>1, <1>6, StoreAtIs
  <2>2. Owes(u, g)' <=> job'[u].step = "bean" /\ job'[u].at <= StoreAt(g)
    BY <1>13 DEF Owes
  <2>3. Paid(u, g)' <=> job'[u].step = "expire" \/ (job'[u].step = "bean" /\ job'[u].at > StoreAt(g))
    <3>1. job'[u].step \in {"bean", "expire"}
      BY <1>13
    <3> HIDE DEF h, j
    <3>2. QED
      BY <3>1 DEF Paid
  <2>4. (Owes(u, g) <=> j.at <= StoreAt(g)) /\ (Paid(u, g) <=> j.at > StoreAt(g))
    BY <1>1 DEF Owes, Paid
  <2>5. Owes(u, h) /\ ~Paid(u, h)
    BY <1>1, <1>6, <2>1 DEF Owes, Paid
  <2> HIDE DEF h, j
  <2>6. j.at \in 1..3
    BY <1>1
  <2> HIDE DEF h, j
  <2>7. CASE job'[u].step = "bean"
    BY <1>13, <2>1, <2>2, <2>3, <2>4, <2>5, <2>6, <2>7
  <2>8. CASE job'[u].step = "expire"
    BY <1>13, <2>1, <2>2, <2>3, <2>4, <2>5, <2>6, <2>8
  <2>9. QED
    BY <1>13, <2>7, <2>8
<1>16. \A g, k : OfDate(u, g, k)' <=> OfDate(u, g, k)
  BY <1>13 DEF OfDate
<1>17. \A g \in Grains, k \in Int :
         /\ InWindow(g, k)' <=> InWindow(g, k)
         /\ InBucket(heap'[list'][g], k) = InBucket(heap[list][g], k)
  <2> HIDE DEF j, h, key
  <2>1. SUFFICES ASSUME NEW g \in Grains, NEW k \in Int
                 PROVE  /\ InWindow(g, k)' <=> InWindow(g, k)
                        /\ InBucket(heap'[list'][g], k) = InBucket(heap[list][g], k)
    OBVIOUS
  <2>2. heap'[list'][g].bucket = heap[list][g].bucket /\ heap'[list'][g].mem = heap[list][g].mem
    BY <1>1, <1>12
  <2>3. QED
    BY <1>1, <2>2 DEF InWindow, InBucket
\* What was ahead of the table is in the table and, still without its heartbeat, behind.
<1>18. \A g \in Grains, k \in Int : InWindow(g, k) =>
         /\ Stored(g, k)' + Ahead(g, k)' = Stored(g, k) + Ahead(g, k)
         /\ Stored(g, k)' - Behind(g, k)' = Stored(g, k) - Behind(g, k)
  <2> SUFFICES ASSUME NEW g \in Grains, NEW k \in Int, InWindow(g, k)
               PROVE  /\ Stored(g, k)' + Ahead(g, k)' = Stored(g, k) + Ahead(g, k)
                      /\ Stored(g, k)' - Behind(g, k)' = Stored(g, k) - Behind(g, k)
    OBVIOUS
  <2>0. Stored(g, k) \in Int
    <3>1. k \in DOMAIN rows[g] => rows[g][k].n \in Nat
      BY <1>4, RowsAre
    <3>2. QED
      BY <3>1 DEF Stored
  <2>1. CASE g = h /\ k = key
    <3>1. Ahead(g, k) = 1 /\ Behind(g, k) = 0 /\ Ahead(g, k)' = 0 /\ Behind(g, k)' = 1
      <4>1. OfDate(u, g, k)
        BY <2>1 DEF OfDate
      <4> HIDE DEF h, key
      <4>2. QED
        BY <1>3, <1>15, <1>16, <2>1, <4>1 DEF Ahead, Behind
    <3>2. Stored(g, k)' = j.value
      BY <1>11, <2>1 DEF Rewritten, Stored
    <3>3. j.value = Stored(g, k) + 1
      <4>1. Agreeing(g) /\ IsLoaded(g)
        BY <1>3 DEF SerialInv
      <4>2. InBucket(heap[list][g], k) = Stored(g, k) + Ahead(g, k)
        BY <4>1 DEF Agreeing
      <4>3. j.value = InBucket(heap[list][g], k)
        BY <1>7, <2>1
      <4>4. QED
        BY <3>1, <4>2, <4>3
    <3> HIDE DEF j
    <3>4. QED
      BY <2>0, <3>1, <3>2, <3>3
  <2>2. CASE g = h /\ k # key
    <3>1. Ahead(g, k) = 0 /\ Behind(g, k) = 0 /\ Ahead(g, k)' = 0 /\ Behind(g, k)' = 0
      <4>1. ~OfDate(u, g, k)
        BY <2>2 DEF OfDate
      <4> HIDE DEF h, key
      <4>2. QED
        BY <1>3, <1>15, <1>16, <2>2, <4>1 DEF Ahead, Behind
    <3>2. Stored(g, k)' = Stored(g, k)
      <4> HIDE DEF h, key
      <4>1. QED
        BY <1>11, <2>2 DEF Rewritten, Stored
    <3>3. QED
      BY <3>1, <3>2
  <2>3. CASE g # h
    <3>1. Ahead(g, k)' = Ahead(g, k) /\ Behind(g, k)' = Behind(g, k)
      <4> HIDE DEF h, key
      <4>1. QED
        BY <1>3, <1>15, <1>16, <2>3 DEF Ahead, Behind
    <3>2. Stored(g, k)' = Stored(g, k)
      <4> HIDE DEF h, key
      <4>1. QED
        BY <1>11, <2>3 DEF Rewritten, Stored
    <3>3. QED
      BY <3>1, <3>2
  <2>4. QED
    BY <2>1, <2>2, <2>3
<1>19. \A g \in Grains : Agreeing(g)'
  <2> SUFFICES ASSUME NEW g \in Grains PROVE Agreeing(g)'
    OBVIOUS
  <2>1. Agreeing(g) /\ IsLoaded(g)
    BY <1>3 DEF SerialInv
  <2>2. Ordered(heap[list][g], g, Key(g, clock))
    BY <2>1 DEF Agreeing
  <2>3. Ordered(heap'[list'][g], g, Key(g, clock'))
    <3>1. heap'[list'][g].stack = heap[list][g].stack /\ heap'[list'][g].mem = heap[list][g].mem
      BY <1>1, <1>12
    <3>2. clock' = clock
      BY <1>1
    <3>3. QED
      BY <2>2, <3>1, <3>2 DEF Ordered
  <2>4. \A k \in Int : InWindow(g, k) => InBucket(heap[list][g], k) = Stored(g, k) + Ahead(g, k)
    BY <2>1 DEF Agreeing
  <2>5. QED
    BY <1>17, <1>18, <2>3, <2>4 DEF Agreeing
<1>20. RowsInTime'
  <2> SUFFICES ASSUME NEW g \in Grains, NEW k \in DOMAIN rows'[g]
               PROVE  k <= Key(g, clock') /\ rows'[g][k].row = 0
    BY DEF RowsInTime
  <2>1. k \in Int
    BY RowsAre DEF CountInv, TypedStats
  <2>2. key <= Key(h, clock)
    BY <1>1, <1>3, <1>4, KeysOfDates
  <2> HIDE DEF h, key
  <2>3. QED
    BY <1>1, <1>10, <1>11, <2>1, <2>2 DEF Rewritten, RowsInTime
<1>21. BeatsIn'
  <2> SUFFICES ASSUME NEW g \in Grains, NEW k \in KeysOf(g), InWindow(g, k)
               PROVE  beats[g][k] + Behind(g, k)' <= Stored(g, k)'
    BY <1>1 DEF BeatsIn, InWindow
  <2>1. k \in Int
    BY KeysAreInt
  <2>2. beats[g][k] + Behind(g, k) <= Stored(g, k)
    BY DEF SerialInv, BeatsIn
  <2>3. beats[g][k] \in Nat
    BY SerialTypes DEF Tally
  <2>4. Stored(g, k)' - Behind(g, k)' = Stored(g, k) - Behind(g, k)
    BY <1>18, <2>1
  <2>5. Stored(g, k) \in Int /\ Behind(g, k) \in Int /\ Behind(g, k)' \in Int
    <3>1. k \in DOMAIN rows[g] => rows[g][k].n \in Nat
      BY <1>4, RowsAre
    <3>2. QED
      BY <3>1 DEF Stored, Behind
  <2>6. Stored(g, k)' \in Int
    <3>1. rows' \in [Grains -> Tables]
      BY DEF CountInv, TypedStats
    <3>2. k \in DOMAIN rows'[g] => rows'[g][k].n \in Nat
      BY <3>1, RowsAre
    <3>3. QED
      BY <3>2 DEF Stored
  <2>7. QED
    BY <2>2, <2>3, <2>4, <2>5, <2>6
<1>22. StoresRight'
  <2> SUFFICES ASSUME NEW g \in Grains PROVE StoreRight(u, g)'
    BY <1>3 DEF StoresRight
  <2> DEFINE k == Key(g, j.date)
  <2>1. k \in Nat /\ k = Key(g, job'[u].date)
    BY <1>1, <1>13, KeysOfDates
  <2>2. Owes(u, g)' => Owes(u, g)
    BY <1>15
  <2>3. Owes(u, g) /\ InWindow(g, k) => k \in DOMAIN heap[list][g].mem /\ heap[list][g].mem[k] = j.held[g]
    BY <1>3 DEF SerialInv, StoresRight, StoreRight
  <2>4. InWindow(g, k)' <=> InWindow(g, k)
    BY <1>1, <1>13 DEF InWindow
  <2>5. job'[u].step # "store"
    BY <1>13
  <2> HIDE DEF k, key, h, j
  <2>6. Owes(u, g)' /\ InWindow(g, k) => k \in DOMAIN heap'[list'][g].mem /\ heap'[list'][g].mem[k] = job'[u].held[g]
    BY <1>1, <1>12, <1>13, <2>2, <2>3
  <2>7. InWindow(g, Key(g, job[u].date))' <=> InWindow(g, k)
    BY <2>4 DEF k, j
  <2>8. QED
    BY <2>1, <2>5, <2>6, <2>7 DEF StoreRight
<1>23. BeansHaveRows'
  <2> SUFFICES ASSUME NEW g \in Grains, heap'[list'][g].bean # None
               PROVE  /\ heap'[list'][g].bean.row = 0 /\ None # 0
                      /\ InWindow(g, heap[list][g].bean.key)' => heap'[list'][g].bean.key \in DOMAIN rows'[g]
    BY DEF BeansHaveRows
  <2>1. None # 0
    BY DEF StatsAssumption
  <2> DEFINE c == heap[list][g].bean
             d == heap'[list'][g].bean
  <2>2. d = IF g = h THEN StoredBean(u, h) ELSE c
    BY <1>1, <1>12
  <2>3. InWindow(g, heap[list][g].bean.key)' <=> InWindow(g, d.key)
    BY <1>1 DEF InWindow
  <2>4. CASE g = h /\ j.bean.row = None /\ c = j.bean
    <3>1. d = [j.bean EXCEPT !.row = 0]
      BY <1>3, <1>10, <2>2, <2>4 DEF StoredBean
    <3> HIDE DEF d
    <3>2. d.row = 0 /\ d.key = key
      BY <1>1, <3>1 DEF Beans
    <3>3. InWindow(h, key) => key \in DOMAIN rows'[h]
      BY <1>11 DEF Rewritten
    <3> HIDE DEF h, key
    <3>4. QED
      BY <2>1, <2>3, <2>4, <3>2, <3>3 DEF d
  <2>5. CASE ~(g = h /\ j.bean.row = None /\ c = j.bean)
    <3>1. d = c /\ c # None
      BY <1>3, <2>2, <2>5 DEF StoredBean
    <3>2. c \in Beans
      <4>1. heap[list][g] \in Lists
        BY <1>3, <1>4
      <4>2. QED
        BY <3>1, <4>1 DEF Lists
    <3>3. c.key \in Int
      BY <3>2 DEF Beans
    <3>4. c.row # None
      <4>1. SUFFICES ASSUME c.row = None PROVE FALSE
        OBVIOUS
      <4>2. list # None
        BY <1>3, <1>4
      <4>3. PICK v \in Recorders : job[v].at = StoreAt(g) /\ job[v].bean = c
        <5> HIDE DEF j, h, d
        <5>1. QED
          BY <1>10, <3>1, <4>1, <4>2 DEF BeansHaveRows
      <4>4. j.at = StoreAt(g) /\ j.bean = c
        BY <1>3, <4>3
      <4>5. QED
        BY <1>6, <2>5, <4>1, <4>4
    <3>5. c.row = 0 /\ (InWindow(g, c.key) => c.key \in DOMAIN rows[g])
      <4>1. list # None
        BY <1>3, <1>4
      <4> HIDE DEF j, h, d
      <4>2. QED
        BY <1>10, <3>1, <3>4, <4>1 DEF BeansHaveRows
    <3> HIDE DEF c, h, key, d
    <3>6. c.key \in DOMAIN rows[g] /\ InWindow(g, c.key) => c.key \in DOMAIN rows'[g]
      BY <1>11, <3>3 DEF Rewritten
    <3>7. QED
      BY <2>1, <2>3, <3>1, <3>5, <3>6 DEF d
  <2>6. QED
    BY <2>4, <2>5
<1>24. QED
  BY <1>14, <1>19, <1>20, <1>21, <1>22, <1>23 DEF SerialInv

\* Rows of the window stay.
LEMMA ExpireKeeps ==
  ASSUME StatsAssumption, InTurn, SerialInv, NEW u \in Users, Expire(u)
  PROVE  \A g \in Grains : \A k \in Int :
           /\ k \in DOMAIN rows'[g] => k \in DOMAIN rows[g] /\ rows'[g][k] = rows[g][k]
           /\ InWindow(g, k) => (k \in DOMAIN rows'[g] <=> k \in DOMAIN rows[g])
<1> DEFINE j == job[u]
           h == <<"minute", "hour">>[j.at]
           gone == {k \in DOMAIN rows[h] : k < Since(h, j.current)}
<1>1. /\ j \in Jobs /\ j.step = "expire" /\ j.at \in 1..2 /\ h \in Grains
      /\ rows' = [rows EXCEPT ![h] = Without(rows[h], gone)]
      /\ job' = [job EXCEPT ![u] = NextExpiry(j)]
      /\ list' = list /\ heap' = heap /\ clock' = clock /\ failed' = failed
      /\ clear' = clear /\ era' = era /\ beats' = beats
  <2>1. CountInv
    BY DEF SerialInv
  <2>2. QED
    BY <2>1, ExpireIs
<1>2. AtWork(u)
  BY <1>1 DEF AtWork
<1>3. /\ u \in Recorders /\ (\A v \in Recorders : v = u) /\ list \in Calcs /\ j.current \in Minutes
      /\ j.current <= clock /\ \A g \in Grains : IsLoaded(g)
  BY <1>2, WhileAtWork
<1>4. /\ job \in [Users -> Jobs] /\ None \notin Calcs
      /\ clock \in Minutes /\ rows \in [Grains -> Tables] /\ Recorders \subseteq Users
  BY SerialTypes
<1>5. \A g \in Grains : \A k \in Int :
        /\ k \in DOMAIN rows'[g] => k \in DOMAIN rows[g] /\ rows'[g][k] = rows[g][k]
        /\ InWindow(g, k) => (k \in DOMAIN rows'[g] <=> k \in DOMAIN rows[g])
  <2>1. PICK t \in Tables : t = rows[h]
    BY <1>1, <1>4
  <2>2. /\ DOMAIN Without(t, gone) = DOMAIN t \ gone
        /\ \A x \in DOMAIN t \ gone : Without(t, gone)[x] = t[x]
    <3> HIDE DEF gone
    <3>1. QED
      BY WithoutIs
  <2>3. \A k \in Int : InWindow(h, k) => k \notin gone
    <3>1. Since(h, j.current) <= Since(h, clock) /\ Since(h, j.current) \in Int /\ Since(h, clock) \in Int
      BY <1>1, <1>3, <1>4, KeysOfDates
    <3> HIDE DEF h, j
    <3>2. QED
      BY <3>1 DEF InWindow
  <2> HIDE DEF gone, h
  <2>4. rows'[h] = Without(t, gone) /\ \A g \in Grains : g # h => rows'[g] = rows[g]
    BY <1>1, <1>4, <2>1
  <2>5. QED
    BY <2>1, <2>2, <2>3, <2>4
<1>6. QED
  BY <1>5

LEMMA ExpireSerial ==
  ASSUME StatsAssumption, InTurn, SerialInv, CountInv', NEW u \in Users, Expire(u) PROVE SerialInv'
<1> DEFINE j == job[u]
           h == <<"minute", "hour">>[j.at]
           gone == {k \in DOMAIN rows[h] : k < Since(h, j.current)}
<1>1. /\ j \in Jobs /\ j.step = "expire" /\ j.at \in 1..2 /\ h \in Grains
      /\ rows' = [rows EXCEPT ![h] = Without(rows[h], gone)]
      /\ job' = [job EXCEPT ![u] = NextExpiry(j)]
      /\ list' = list /\ heap' = heap /\ clock' = clock /\ failed' = failed
      /\ clear' = clear /\ era' = era /\ beats' = beats
  <2>1. CountInv
    BY DEF SerialInv
  <2>2. QED
    BY <2>1, ExpireIs
<1>2. AtWork(u)
  BY <1>1 DEF AtWork
<1>3. /\ u \in Recorders /\ (\A v \in Recorders : v = u) /\ list \in Calcs /\ j.current \in Minutes
      /\ j.current <= clock /\ \A g \in Grains : IsLoaded(g)
  BY <1>2, WhileAtWork
<1>4. /\ job \in [Users -> Jobs] /\ None \notin Calcs
      /\ clock \in Minutes /\ rows \in [Grains -> Tables] /\ Recorders \subseteq Users
  BY SerialTypes
<1>5. /\ \A v \in Users : v # u => job'[v] = job[v]
      /\ job'[u].calc = j.calc /\ job'[u].date = j.date /\ job'[u].current = j.current
      /\ job'[u].step \in {"expire", "beat"}
  <2>1. job'[u] = NextExpiry(j) /\ \A v \in Users : v # u => job'[v] = job[v]
    BY <1>1, <1>4
  <2> HIDE DEF j
  <2>2. QED
    BY <1>1, <2>1, NextExpiryJob
<1>6. Turns' /\ NotLoaded'
  <2>1. TurnOf(u)
    BY <1>3, <1>5 DEF TurnOf
  <2>2. QED
    BY <1>1, <1>2, <2>1, TurnsOn
\* a row of the window is not among those that go
<1>7. \A g \in Grains : \A k \in Int :
        /\ k \in DOMAIN rows'[g] => k \in DOMAIN rows[g] /\ rows'[g][k] = rows[g][k]
        /\ InWindow(g, k) => (k \in DOMAIN rows'[g] <=> k \in DOMAIN rows[g])
  BY ExpireKeeps
<1>8. \A g \in Grains : \A k \in Int :
        /\ InWindow(g, k)' <=> InWindow(g, k)
        /\ InWindow(g, k) => Stored(g, k)' = Stored(g, k)
  <2> SUFFICES ASSUME NEW g \in Grains, NEW k \in Int
               PROVE  /\ InWindow(g, k)' <=> InWindow(g, k)
                      /\ InWindow(g, k) => Stored(g, k)' = Stored(g, k)
    OBVIOUS
  <2>1. InWindow(g, k)' <=> InWindow(g, k)
    BY <1>1 DEF InWindow
  <2>2. InWindow(g, k) => Stored(g, k)' = Stored(g, k)
    BY <1>7 DEF Stored
  <2>3. QED
    BY <2>1, <2>2
<1>9. \A g, k : Ahead(g, k)' = Ahead(g, k) /\ Behind(g, k)' = Behind(g, k)
  <2>1. \A g : (Owes(u, g)' <=> Owes(u, g)) /\ (Paid(u, g)' <=> Paid(u, g))
    <3>1. j.step = "expire"
      BY <1>1
    <3>2. QED
      BY <1>5, <3>1 DEF Owes, Paid
  <2>2. \A g, k : OfDate(u, g, k)' <=> OfDate(u, g, k)
    BY <1>5 DEF OfDate
  <2>3. QED
    BY <1>3, <2>1, <2>2 DEF Ahead, Behind
<1>10. \A g \in Grains : Agreeing(g)'
  <2> SUFFICES ASSUME NEW g \in Grains PROVE Agreeing(g)'
    OBVIOUS
  <2>1. Agreeing(g) /\ IsLoaded(g)
    BY <1>3 DEF SerialInv
  <2>2. Ordered(heap[list][g], g, Key(g, clock))
    BY <2>1 DEF Agreeing
  <2>3. \A k \in Int : InWindow(g, k) => InBucket(heap[list][g], k) = Stored(g, k) + Ahead(g, k)
    BY <2>1 DEF Agreeing
  <2>4. Ordered(heap'[list'][g], g, Key(g, clock'))
    BY <1>1, <2>2
  <2>5. \A k \in Int : InWindow(g, k)' => InBucket(heap'[list'][g], k) = Stored(g, k)' + Ahead(g, k)'
    BY <1>1, <1>8, <1>9, <2>3
  <2>6. QED
    BY <2>4, <2>5 DEF Agreeing
<1>11. RowsInTime'
  <2> SUFFICES ASSUME NEW g \in Grains, NEW k \in DOMAIN rows'[g]
               PROVE  k <= Key(g, clock') /\ rows'[g][k].row = 0
    BY DEF RowsInTime
  <2>1. k \in Int
    BY RowsAre DEF CountInv, TypedStats
  <2>2. k \in DOMAIN rows[g] /\ rows'[g][k] = rows[g][k]
    BY <1>7, <2>1
  <2>3. QED
    BY <1>1, <2>2 DEF SerialInv, RowsInTime
<1>12. BeatsIn'
  <2>1. \A g \in Grains : \A k \in KeysOf(g) : k \in Int
    BY KeysAreInt
  <2>2. BeatsIn
    BY DEF SerialInv
  <2>3. QED
    BY <1>1, <1>8, <1>9, <2>1, <2>2 DEF BeatsIn
<1>13. StoresRight'
  <2>1. \A g : ~Owes(u, g)' /\ job'[u].step # "store"
    BY <1>5 DEF Owes
  <2>2. QED
    BY <1>3, <2>1 DEF StoresRight, StoreRight
<1>14. BeansHaveRows'
  <2>1. list # None
    BY <1>3, <1>4
  <2>2. \A v \in Recorders : job[v].step # "store"
    BY <1>1, <1>3
  <2> SUFFICES ASSUME NEW g \in Grains, heap[list][g].bean # None
               PROVE  /\ heap[list][g].bean.row \in {None, 0} /\ heap[list][g].bean.row # None
                      /\ InWindow(g, heap[list][g].bean.key)' => heap[list][g].bean.key \in DOMAIN rows'[g]
    BY <1>1 DEF BeansHaveRows
  <2> DEFINE c == heap[list][g].bean
  <2>3. c.row \in {None, 0} /\ c.row # None /\ (c.row = 0 /\ InWindow(g, c.key) => c.key \in DOMAIN rows[g])
    BY <2>1, <2>2 DEF SerialInv, BeansHaveRows
  <2>4. c.key \in Int
    <3>1. heap[list][g] \in Lists
      BY <1>3, SerialTypes
    <3>2. c \in Beans
      BY <3>1 DEF Lists
    <3>3. QED
      BY <3>2 DEF Beans
  <2>5. InWindow(g, heap[list][g].bean.key)' <=> InWindow(g, c.key)
    BY <1>1 DEF InWindow
  <2> HIDE DEF c
  <2>6. InWindow(g, c.key) => c.key \in DOMAIN rows'[g]
    BY <1>7, <2>3, <2>4
  <2>7. QED
    BY <2>3, <2>5, <2>6 DEF c
<1>15. QED
  BY <1>6, <1>10, <1>11, <1>12, <1>13, <1>14 DEF SerialInv

LEMMA StoreBeatSerial ==
  ASSUME StatsAssumption, InTurn, SerialInv, CountInv', NEW u \in Users, StoreBeat(u) PROVE SerialInv'
<1>1. /\ job[u].step = "beat" /\ beats' = Add(beats, Grains, job[u].date)
      /\ job' = [job EXCEPT ![u] = Idle] /\ clock' = clock /\ list' = list /\ heap' = heap /\ rows' = rows
      /\ clear' = clear /\ era' = era /\ failed' = failed
  BY DEF StoreBeat
<1>2. AtWork(u)
  BY <1>1 DEF AtWork
<1>3. /\ u \in Recorders /\ (\A v \in Recorders : v = u) /\ list \in Calcs /\ job[u].date \in Minutes
      /\ \A g \in Grains : IsLoaded(g)
  BY <1>2, WhileAtWork
<1>4. /\ job \in [Users -> Jobs] /\ None \notin Calcs /\ Tally(beats) /\ Recorders \subseteq Users
      /\ rows \in [Grains -> Tables]
  BY SerialTypes
<1>5. job'[u].step = "idle" /\ \A v \in Users : v # u => job'[v] = job[v]
  BY <1>1, <1>4, IdleIsJob
<1>6. Turns' /\ NotLoaded'
  <2>1. TurnOf(u)
    BY <1>5 DEF TurnOf
  <2>2. QED
    BY <1>1, <1>2, <2>1, TurnsOn
<1>7. \A g \in Grains : \A k :
        /\ InWindow(g, k)' <=> InWindow(g, k)
        /\ Stored(g, k)' = Stored(g, k)
        /\ Ahead(g, k) = 0 /\ Ahead(g, k)' = 0
        /\ Behind(g, k)' = 0 /\ Behind(g, k) = IF k = Key(g, job[u].date) THEN 1 ELSE 0
  <2> SUFFICES ASSUME NEW g \in Grains, NEW k
               PROVE  /\ InWindow(g, k)' <=> InWindow(g, k)
                      /\ Stored(g, k)' = Stored(g, k)
                      /\ Ahead(g, k) = 0 /\ Ahead(g, k)' = 0
                      /\ Behind(g, k)' = 0 /\ Behind(g, k) = IF k = Key(g, job[u].date) THEN 1 ELSE 0
    OBVIOUS
  <2>1. (InWindow(g, k)' <=> InWindow(g, k)) /\ Stored(g, k)' = Stored(g, k)
    BY <1>1 DEF InWindow, Stored
  <2>2. ~Owes(u, g) /\ ~Owes(u, g)' /\ Paid(u, g) /\ ~Paid(u, g)'
    BY <1>1, <1>5 DEF Owes, Paid
  <2>3. QED
    BY <1>3, <2>1, <2>2 DEF Ahead, Behind, OfDate
<1>8. \A g \in Grains : Agreeing(g)'
  <2> SUFFICES ASSUME NEW g \in Grains PROVE Agreeing(g)'
    OBVIOUS
  <2>1. Agreeing(g) /\ IsLoaded(g)
    BY <1>3 DEF SerialInv
  <2>2. Ordered(heap[list][g], g, Key(g, clock))
    BY <2>1 DEF Agreeing
  <2>3. \A k \in Int : InWindow(g, k) => InBucket(heap[list][g], k) = Stored(g, k) + Ahead(g, k)
    BY <2>1 DEF Agreeing
  <2>4. Ordered(heap'[list'][g], g, Key(g, clock'))
    BY <1>1, <2>2
  <2>5. \A k \in Int : InWindow(g, k)' => InBucket(heap'[list'][g], k) = Stored(g, k)' + Ahead(g, k)'
    BY <1>1, <1>7, <2>3
  <2>6. QED
    BY <2>4, <2>5 DEF Agreeing
<1>9. RowsInTime'
  BY <1>1 DEF SerialInv, RowsInTime
<1>10. BeatsIn'
  <2> SUFFICES ASSUME NEW g \in Grains, NEW k \in KeysOf(g), InWindow(g, k)
               PROVE  beats'[g][k] + Behind(g, k)' <= Stored(g, k)'
    BY <1>7 DEF BeatsIn
  <2>1. beats[g][k] + Behind(g, k) <= Stored(g, k)
    BY DEF SerialInv, BeatsIn
  <2>2. beats'[g][k] = beats[g][k] + (IF k = Key(g, job[u].date) THEN 1 ELSE 0)
    <3>1. PICK t \in Minutes : t = job[u].date
      BY <1>3
    <3>2. beats' = Add(beats, Grains, t)
      BY <1>1, <3>1
    <3>3. Add(beats, Grains, t)[g][k] = beats[g][k] + (IF g \in Grains /\ k = Key(g, t) THEN 1 ELSE 0)
      BY <1>4, AddIs
    <3>4. QED
      BY <3>1, <3>2, <3>3
  <2>3. beats[g][k] \in Nat
    BY <1>4 DEF Tally
  <2>4. beats'[g][k] + Behind(g, k)' = beats[g][k] + Behind(g, k)
    BY <1>7, <2>2, <2>3
  <2>5. QED
    BY <1>7, <2>1, <2>4
<1>11. StoresRight'
  <2>1. \A g : ~Owes(u, g)' /\ job'[u].step # "store"
    BY <1>5 DEF Owes
  <2>2. QED
    BY <1>3, <2>1 DEF StoresRight, StoreRight
<1>12. BeansHaveRows'
  <2>1. list # None
    BY <1>3, <1>4
  <2>2. \A v \in Recorders : job[v].step # "store"
    BY <1>1, <1>3
  <2> SUFFICES ASSUME NEW g \in Grains, heap[list][g].bean # None
               PROVE  /\ heap[list][g].bean.row \in {None, 0} /\ heap[list][g].bean.row # None
                      /\ InWindow(g, heap[list][g].bean.key)' => heap[list][g].bean.key \in DOMAIN rows[g]
    BY <1>1 DEF BeansHaveRows
  <2>3. InWindow(g, heap[list][g].bean.key)' <=> InWindow(g, heap[list][g].bean.key)
    BY <1>1 DEF InWindow
  <2>4. QED
    BY <2>1, <2>2, <2>3 DEF SerialInv, BeansHaveRows
<1>13. QED
  BY <1>6, <1>8, <1>9, <1>10, <1>11, <1>12 DEF SerialInv

LEMMA TickSerial ==
  ASSUME StatsAssumption, InTurn, SerialInv, CountInv', Tick PROVE SerialInv'
<1>1. /\ clock' = clock + 1 /\ clock < MaxClock
      /\ list' = list /\ heap' = heap /\ rows' = rows /\ beats' = beats /\ job' = job
      /\ clear' = clear /\ era' = era /\ failed' = failed
  BY DEF Tick
<1>2. /\ clock \in Minutes /\ clock' \in Minutes /\ clock <= clock' /\ clock \in Int /\ clock' \in Int
      /\ \A u \in Users : job[u].date \in Int /\ job[u].current \in Int
      /\ heap \in [Calcs -> [Grains -> Lists]] /\ list \in Calcs \cup {None}
  <2>1. clock \in Minutes /\ job \in [Users -> Jobs]
        /\ heap \in [Calcs -> [Grains -> Lists]] /\ list \in Calcs \cup {None}
    BY SerialTypes
  <2>2. clock \in Nat /\ MaxClock \in Nat
    BY <2>1, MinutesAreNat DEF StatsAssumption
  <2>3. clock' \in Minutes
    BY <1>1, <2>2 DEF Minutes
  <2>4. \A u \in Users : job[u].date \in Minutes /\ job[u].current \in Minutes
    BY <2>1 DEF Jobs
  <2>5. QED
    BY <1>1, <2>1, <2>2, <2>3, <2>4 DEF Minutes
\* the window moves on
<1>3. \A g \in Grains :
        /\ Key(g, clock) \in Int /\ Key(g, clock') \in Int /\ Key(g, clock) <= Key(g, clock')
        /\ \A k \in Int : InWindow(g, k)' => InWindow(g, k)
  <2> SUFFICES ASSUME NEW g \in Grains
               PROVE  /\ Key(g, clock) \in Int /\ Key(g, clock') \in Int
                      /\ Key(g, clock) <= Key(g, clock')
                      /\ \A k \in Int : InWindow(g, k)' => InWindow(g, k)
    OBVIOUS
  <2>1. /\ Key(g, clock) \in Nat /\ Key(g, clock') \in Nat /\ Key(g, clock) <= Key(g, clock')
        /\ Since(g, clock) \in Int /\ Since(g, clock') \in Int
        /\ Since(g, clock) <= Since(g, clock')
    <3>1. PICK s \in Minutes, t \in Minutes : s = clock /\ t = clock' /\ s <= t
      BY <1>2
    <3>2. /\ Key(g, s) \in Nat /\ Key(g, t) \in Nat /\ Key(g, s) <= Key(g, t)
          /\ Since(g, s) \in Int /\ Since(g, t) \in Int
          /\ Since(g, s) <= Since(g, t)
      BY <3>1, KeysOfDates
    <3>3. QED
      BY <3>1, <3>2
  <2>2. \A k \in Int : InWindow(g, k)' => InWindow(g, k)
    BY <2>1 DEF InWindow
  <2>3. QED
    BY <2>1, <2>2
<1>4. \A g, k : Stored(g, k)' = Stored(g, k) /\ Ahead(g, k)' = Ahead(g, k) /\ Behind(g, k)' = Behind(g, k)
  BY <1>1 DEF Stored, Ahead, Behind, Owes, Paid, OfDate
<1>5. Turns'
  BY <1>1, <1>2 DEF SerialInv, Turns, IsLoading
<1>6. NotLoaded'
  BY <1>1 DEF SerialInv, NotLoaded, IsLoading
<1>7. \A g \in Grains : Agreeing(g)'
  <2> SUFFICES ASSUME NEW g \in Grains, IsLoaded(g)' PROVE Agreeing(g)'
    BY DEF Agreeing
  <2>1. Agreeing(g) /\ IsLoaded(g) /\ list # None
    BY <1>1 DEF SerialInv, IsLoaded, IsLoading
  <2>2. Ordered(heap[list][g], g, Key(g, clock'))
    <3>1. heap[list][g] \in Lists
      BY <1>2, <2>1
    <3>2. Ordered(heap[list][g], g, Key(g, clock))
      BY <2>1 DEF Agreeing
    <3>3. PICK l \in Lists, s \in Int, t \in Int :
            l = heap[list][g] /\ s = Key(g, clock) /\ t = Key(g, clock') /\ s <= t
      BY <1>3, <3>1
    <3>4. Ordered(l, g, t)
      BY <3>2, <3>3, OrderedBelow
    <3>5. QED
      BY <3>3, <3>4
  <2>3. \A k \in Int : InWindow(g, k) => InBucket(heap[list][g], k) = Stored(g, k) + Ahead(g, k)
    BY <2>1 DEF Agreeing
  <2>4. \A k \in Int : InWindow(g, k)' => InBucket(heap'[list'][g], k) = Stored(g, k)' + Ahead(g, k)'
    BY <1>1, <1>3, <1>4, <2>3
  <2>5. QED
    BY <1>1, <2>2, <2>4 DEF Agreeing
<1>8. RowsInTime'
  <2> SUFFICES ASSUME NEW g \in Grains, NEW k \in DOMAIN rows[g]
               PROVE  k <= Key(g, clock') /\ rows[g][k].row = 0
    BY <1>1 DEF RowsInTime
  <2>1. k <= Key(g, clock) /\ rows[g][k].row = 0
    BY DEF SerialInv, RowsInTime
  <2>2. k \in Int
    BY SerialTypes, RowsAre
  <2>3. QED
    BY <1>3, <2>1, <2>2
<1>9. BeatsIn'
  <2>1. \A g \in Grains : \A k \in KeysOf(g) : k \in Int
    BY KeysAreInt
  <2>2. BeatsIn
    BY DEF SerialInv
  <2>3. QED
    BY <1>1, <1>3, <1>4, <2>1, <2>2 DEF BeatsIn
<1>10. StoresRight'
  <2> SUFFICES ASSUME NEW u \in Recorders, NEW g \in Grains PROVE StoreRight(u, g)'
    BY DEF StoresRight
  <2> DEFINE k == Key(g, job[u].date)
  <2>1. k \in Int
    <3>1. job[u].date \in Minutes
      BY SerialTypes DEF Jobs
    <3>2. QED
      BY <3>1, KeysOfDates
  <2>2. InWindow(g, Key(g, job[u].date))' => InWindow(g, k)
    <3>1. PICK x \in Int : x = k
      BY <2>1
    <3>2. InWindow(g, Key(g, job[u].date))' => InWindow(g, x)'
      BY <1>1, <3>1 DEF InWindow
    <3> HIDE DEF k
    <3>3. QED
      BY <1>3, <3>1, <3>2
  <2>3. StoreRight(u, g)
    BY DEF SerialInv, StoresRight
  <2>4. Owes(u, g)' <=> Owes(u, g)
    BY <1>1 DEF Owes
  <2>5. QED
    BY <1>1, <2>2, <2>3, <2>4 DEF StoreRight
<1>11. BeansHaveRows'
  <2> SUFFICES ASSUME list # None, NEW g \in Grains, heap[list][g].bean # None
               PROVE  /\ heap[list][g].bean.row \in {None, 0}
                      /\ heap[list][g].bean.row = 0 /\ InWindow(g, heap[list][g].bean.key)' =>
                           heap[list][g].bean.key \in DOMAIN rows[g]
                      /\ heap[list][g].bean.row = None =>
                           \E v \in Recorders : job[v].step = "store" /\ job[v].at = StoreAt(g) /\ job[v].bean = heap[list][g].bean
    BY <1>1 DEF BeansHaveRows
  <2> DEFINE c == heap[list][g].bean
  <2>1. c.key \in Int
    <3>1. heap[list][g] \in Lists
      BY <1>2
    <3>2. c \in Beans
      BY <3>1 DEF Lists
    <3>3. QED
      BY <3>2 DEF Beans
  <2>2. InWindow(g, heap[list][g].bean.key)' => InWindow(g, c.key)
    <3>1. PICK x \in Int : x = c.key
      BY <2>1
    <3>2. InWindow(g, heap[list][g].bean.key)' => InWindow(g, x)'
      BY <1>1, <3>1 DEF InWindow
    <3> HIDE DEF c
    <3>3. QED
      BY <1>3, <3>1, <3>2
  <2>3. BeansHaveRows
    BY DEF SerialInv
  <2>4. QED
    BY <2>2, <2>3 DEF BeansHaveRows
<1>12. QED
  BY <1>5, <1>6, <1>7, <1>8, <1>9, <1>10, <1>11 DEF SerialInv

LEMMA CrashSerial ==
  ASSUME StatsAssumption, InTurn, SerialInv, CountInv', Crash PROVE SerialInv'
<1>1. /\ list' = None /\ heap' = [c \in Calcs |-> [g \in Grains |-> Empty]]
      /\ job' = [u \in Users |-> Idle] /\ clear' = 0
      /\ clock' = clock /\ rows' = rows /\ beats' = beats /\ era' = era /\ failed' = failed
  BY DEF Crash
<1>2. \A u \in Users : job'[u].step = "idle"
  BY <1>1, IdleIsJob
<1>3. Recorders \subseteq Users
  BY SerialTypes
<1>4. Turns' /\ NotLoaded'
  BY <1>1, <1>2 DEF SerialInv, Turns, NotLoaded, IsLoading
<1>5. \A g \in Grains : Agreeing(g)'
  BY <1>1 DEF Agreeing, IsLoaded
<1>6. RowsInTime'
  BY <1>1 DEF SerialInv, RowsInTime
<1>7. BeatsIn'
  <2> SUFFICES ASSUME NEW g \in Grains, NEW k \in KeysOf(g), InWindow(g, k)
               PROVE  beats[g][k] + Behind(g, k)' <= Stored(g, k)
    BY <1>1 DEF BeatsIn, InWindow, Stored
  <2>1. beats[g][k] + Behind(g, k) <= Stored(g, k)
    BY DEF SerialInv, BeatsIn
  <2>2. beats[g][k] \in Nat /\ Stored(g, k) \in Int
    <3>1. k \in DOMAIN rows[g] => rows[g][k].n \in Nat
      BY SerialTypes, RowsAre
    <3>2. QED
      BY <3>1, SerialTypes DEF Tally, Stored
  <2>3. Behind(g, k)' = 0 /\ Behind(g, k) \in {0, 1}
    BY <1>2, <1>3 DEF Behind, Paid
  <2>4. QED
    BY <2>1, <2>2, <2>3
<1>8. StoresRight'
  BY <1>2, <1>3 DEF StoresRight, StoreRight, Owes
<1>9. BeansHaveRows'
  BY <1>1 DEF BeansHaveRows
<1>10. QED
  BY <1>4, <1>5, <1>6, <1>7, <1>8, <1>9 DEF SerialInv

LEMMA SerialStutters ==
  ASSUME StatsAssumption, SerialInv, CountInv', vars' = vars PROVE SerialInv'
<1>1. /\ clock' = clock /\ list' = list /\ heap' = heap /\ rows' = rows /\ beats' = beats /\ job' = job
      /\ clear' = clear /\ era' = era /\ failed' = failed
  BY DEF vars
<1>2. Turns' /\ NotLoaded' /\ RowsInTime'
  BY <1>1 DEF SerialInv, Turns, NotLoaded, RowsInTime, IsLoading
<1>3. \A g, k : /\ Stored(g, k)' = Stored(g, k)
                /\ Ahead(g, k)' = Ahead(g, k) /\ Behind(g, k)' = Behind(g, k)
                /\ InWindow(g, k)' <=> InWindow(g, k)
  BY <1>1 DEF Stored, Ahead, Behind, Owes, Paid, OfDate, InWindow
<1>4. \A g \in Grains : Agreeing(g)'
  <2>1. \A g : IsLoaded(g)' <=> IsLoaded(g)
    BY <1>1 DEF IsLoaded, IsLoading
  <2>2. QED
    BY <1>1, <1>3, <2>1 DEF SerialInv, Agreeing
<1>5. BeatsIn'
  BY <1>1, <1>3 DEF SerialInv, BeatsIn
<1>6. StoresRight' /\ BeansHaveRows'
  BY <1>1 DEF SerialInv, StoresRight, StoreRight, Owes, BeansHaveRows, InWindow
<1>7. QED
  BY <1>2, <1>4, <1>5, <1>6 DEF SerialInv

LEMMA SerialInit ==
  ASSUME StatsAssumption, Init PROVE SerialInv
<1>1. /\ list = None /\ heap = [c \in Calcs |-> [g \in Grains |-> Empty]]
      /\ rows = [g \in Grains |-> NoKeys] /\ beats = Zero
      /\ job = [u \in Users |-> Idle]
      /\ clear = 0 /\ era = [g \in Grains |-> 0] /\ failed = FALSE
  BY DEF Init
<1>2. \A u \in Users : job[u].step = "idle"
  BY <1>1, IdleIsJob
<1>3. Recorders \subseteq Users
  BY DEF Users
<1>4. CountInv
  BY CountInit
<1>5. Turns /\ NotLoaded
  BY <1>1, <1>2 DEF Turns, NotLoaded, IsLoading
<1>6. \A g \in Grains : DOMAIN rows[g] = {}
  BY <1>1, NoRows
<1>7. (\A g \in Grains : Agreeing(g)) /\ RowsInTime
  BY <1>1, <1>6 DEF Agreeing, IsLoaded, RowsInTime
<1>8. BeatsIn
  <2> SUFFICES ASSUME NEW g \in Grains, NEW k \in KeysOf(g)
               PROVE  beats[g][k] + Behind(g, k) <= Stored(g, k)
    BY DEF BeatsIn
  <2>1. beats[g][k] = 0
    BY <1>1 DEF Zero
  <2>2. Stored(g, k) = 0
    BY <1>6 DEF Stored
  <2>3. Behind(g, k) = 0
    BY <1>2, <1>3 DEF Behind, Paid
  <2>4. QED
    BY <2>1, <2>2, <2>3
<1>9. StoresRight
  BY <1>2, <1>3 DEF StoresRight, StoreRight, Owes
<1>10. BeansHaveRows
  BY <1>1 DEF BeansHaveRows
<1>11. QED
  BY <1>4, <1>5, <1>7, <1>8, <1>9, <1>10 DEF SerialInv

LEMMA SerialStep ==
  ASSUME StatsAssumption, InTurn, SerialInv, [Next]_vars PROVE SerialInv'
<1>1. CountInv /\ CountInv'
  BY CountStep DEF SerialInv
<1>2. CASE \E u \in Users : \/ Ask(u) \/ AskFirst(u) \/ Load(u)
                            \/ GetBean(u) \/ StoreBean(u) \/ Expire(u) \/ StoreBeat(u)
  BY <1>1, <1>2, AskSerial, AskFirstSerial, LoadSerial, GetBeanSerial, StoreBeanSerial, ExpireSerial, StoreBeatSerial
<1>3. CASE BeginClear \/ ClearNext
  <2>1. ~Clearing /\ clear = 0
    BY DEF InTurn, SerialInv, Turns
  <2>2. QED
    BY <1>3, <2>1 DEF BeginClear, ClearNext
<1>4. CASE Tick
  BY <1>1, <1>4, TickSerial
<1>5. CASE Crash
  BY <1>1, <1>5, CrashSerial
<1>6. CASE vars' = vars
  BY <1>1, <1>6, SerialStutters
<1>7. QED
  BY <1>2, <1>3, <1>4, <1>5, <1>6 DEF Next

\* With one recorder, calculators used only when they are loaded and nothing cleared, what a
\* calculator has of every period that is kept is what the tables have, and a heartbeat on its way.
THEOREM SerialInvariant == StatsAssumption /\ InTurn => (Spec => []SerialInv)
<1> SUFFICES ASSUME StatsAssumption, InTurn PROVE Spec => []SerialInv
  OBVIOUS
<1>1. Init => SerialInv
  BY SerialInit
<1>2. SerialInv /\ [Next]_vars => SerialInv'
  BY SerialStep
<1>3. QED
  BY <1>1, <1>2, PTL DEF Spec

-------------------------------------------------------------------------------
(* What a reader of the statistics may rely on.                                 *)

LEMMA OrderedIs ==
  ASSUME NEW g, NEW l \in Lists, NEW top, Ordered(l, g, top)
  PROVE  /\ Len(l.stack) <= Limit[g]
         /\ ToSet(l.stack) = DOMAIN l.mem
         /\ IsInjective(l.stack)
<1>1. l.stack \in Seq(Int)
  BY DEF Lists
<1>2. DOMAIN l.stack = 1..Len(l.stack) /\ \A i \in 1..Len(l.stack) : l.stack[i] \in Int
  BY <1>1, ElementOfSeq, LenProperties
<1>3. ToSet(l.stack) = DOMAIN l.mem
  BY <1>2 DEF Ordered, ToSet
<1>4. ASSUME NEW i \in 1..Len(l.stack), NEW j \in 1..Len(l.stack), l.stack[i] = l.stack[j] PROVE i = j
  <2>1. \A a, b \in 1..Len(l.stack) : a <= b => l.stack[b] - l.stack[a] >= b - a
    BY DEF Ordered
  <2>2. l.stack[i] \in Int
    BY <1>2
  <2>3. i <= j => i = j
    BY <1>4, <2>1, <2>2
  <2>4. j <= i => i = j
    BY <1>4, <2>1, <2>2
  <2>5. QED
    BY <2>3, <2>4
<1>5. IsInjective(l.stack)
  BY <1>2, <1>4 DEF IsInjective
<1>6. QED
  BY <1>3, <1>5 DEF Ordered

LEMMA EmptyOrdered ==
  ASSUME StatsAssumption, NEW g \in Grains PROVE Ordered(Empty, g, 0)
<1>1. Empty.stack = <<>> /\ Len(Empty.stack) = 0 /\ DOMAIN Empty.mem = {}
  BY EmptyIsList DEF Empty
<1>2. Limit[g] \in Nat
  BY DEF StatsAssumption
<1>3. QED
  BY <1>1, <1>2 DEF Ordered

LEMMA SerialTypeOK ==
  ASSUME StatsAssumption, SerialInv PROVE TypeOK
<1>1. TypedStats
  BY DEF SerialInv, CountInv
<1>2. ASSUME NEW c \in Calcs, NEW g \in Grains
      PROVE  \E top : Ordered(heap[c][g], g, top)
  <2>1. CASE c # list
    <3>1. heap[c] = [x \in Grains |-> Empty]
      BY <2>1 DEF SerialInv, Turns
    <3>2. heap[c][g] = Empty
      BY <3>1
    <3>3. QED
      BY <3>2, EmptyOrdered
  <2>2. CASE c = list /\ IsLoaded(g)
    BY <2>2 DEF SerialInv, Agreeing
  <2>3. CASE c = list /\ ~IsLoaded(g)
    <3>1. PICK u \in Users : IsLoading(u) /\ ~(LoadAt(g) < job[u].at)
      <4>1. list # None
        BY <2>3, SerialTypes
      <4>2. QED
        BY <2>3, <4>1 DEF IsLoaded
    <3>2. LoadAt(g) > job[u].at \/ LoadAt(g) = job[u].at
      <4>1. job[u].at \in 0..3
        BY <1>1 DEF TypedStats, Jobs
      <4>2. LoadAt(g) \in 1..3
        BY DEF LoadAt, Grains
      <4>3. QED
        BY <3>1, <4>1, <4>2
    <3>3. CASE LoadAt(g) > job[u].at
      <4>1. heap[c][g] = Empty
        BY <2>3, <3>1, <3>3 DEF SerialInv, NotLoaded
      <4>2. QED
        BY <4>1, EmptyOrdered
    <3>4. CASE LoadAt(g) = job[u].at
      <4>1. heap[c][g] = Ensure(Empty, g, Since(g, job[u].date))
        BY <2>3, <3>1, <3>4 DEF SerialInv, NotLoaded
      <4>2. PICK since \in Int : since = Since(g, job[u].date)
        <5>1. job[u].date \in Minutes
          BY <1>1 DEF TypedStats, Jobs
        <5>2. QED
          BY <5>1, KeysOfDates
      <4>3. QED
        BY <4>1, <4>2, SinceOnly
    <3>5. QED
      BY <3>2, <3>3, <3>4
  <2>4. QED
    BY <2>1, <2>2, <2>3
<1>3. \A c \in Calcs, g \in Grains :
        /\ Len(heap[c][g].stack) <= Limit[g]
        /\ ToSet(heap[c][g].stack) = DOMAIN heap[c][g].mem
        /\ IsInjective(heap[c][g].stack)
  <2> SUFFICES ASSUME NEW c \in Calcs, NEW g \in Grains
               PROVE  /\ Len(heap[c][g].stack) <= Limit[g]
                      /\ ToSet(heap[c][g].stack) = DOMAIN heap[c][g].mem
                      /\ IsInjective(heap[c][g].stack)
    OBVIOUS
  <2>1. PICK l \in Lists : l = heap[c][g]
    BY <1>1 DEF TypedStats
  <2>2. PICK top : Ordered(l, g, top)
    BY <1>2, <2>1
  <2>3. QED
    BY <2>1, <2>2, OrderedIs
<1>4. \A u \in Users : job[u].step \in {"idle", "load", "bean", "store", "expire", "beat"}
  BY <1>1 DEF TypedStats, Jobs
<1>5. clock \in Minutes /\ list \in Calcs \cup {None} /\ clear \in 0..Len(ClearOrder) /\ failed \in BOOLEAN
  BY <1>1 DEF TypedStats, ClearOrder
<1>6. QED
  BY <1>3, <1>4, <1>5 DEF TypeOK

\* The statistics keep their types in turn: a list stays within its limit, has the keys of its
\* buckets and has each of them once (LimitQueue.push()), also while it is loaded.
THEOREM StatsTypes == StatsAssumption /\ InTurn => (Spec => []TypeOK)
<1> SUFFICES ASSUME StatsAssumption, InTurn PROVE Spec => []TypeOK
  OBVIOUS
<1>1. SerialInv => TypeOK
  BY SerialTypeOK
<1>2. Spec => []SerialInv
  BY SerialInvariant
<1>3. QED
  BY <1>1, <1>2, PTL

LEMMA SerialAgrees ==
  ASSUME StatsAssumption, SerialInv
  PROVE  BeatsAreCounted /\ MemoryMatchesStore /\ UpdateNeverFails
<1>1. UpdateNeverFails
  BY DEF SerialInv, Turns, UpdateNeverFails
<1>2. BeatsAreCounted
  <2> SUFFICES ASSUME NEW g \in Grains, NEW k \in KeysOf(g), InWindow(g, k)
               PROVE  beats[g][k] <= Stored(g, k)
    BY DEF BeatsAreCounted
  <2>1. beats[g][k] + Behind(g, k) <= Stored(g, k)
    BY DEF SerialInv, BeatsIn
  <2>2. beats[g][k] \in Nat /\ Stored(g, k) \in Int
    <3>1. k \in DOMAIN rows[g] => rows[g][k].n \in Nat
      BY SerialTypes, RowsAre
    <3>2. QED
      BY <3>1, SerialTypes DEF Tally, Stored
  <2>3. Behind(g, k) \in {0, 1}
    BY DEF Behind
  <2>4. QED
    BY <2>1, <2>2, <2>3
<1>3. MemoryMatchesStore
  <2> SUFFICES ASSUME list # None, \A u \in Users : job[u].step = "idle",
                      NEW g \in Grains, NEW k \in KeysOf(g), InWindow(g, k)
               PROVE  InBucket(heap[list][g], k) = Stored(g, k)
    BY DEF MemoryMatchesStore
  <2>1. k \in Int
    BY KeysAreInt
  <2>2. IsLoaded(g)
    BY DEF IsLoaded, IsLoading
  <2>3. InBucket(heap[list][g], k) = Stored(g, k) + Ahead(g, k)
    BY <2>1, <2>2 DEF SerialInv, Agreeing
  <2>4. Ahead(g, k) = 0
    BY SerialTypes DEF Ahead, Owes
  <2>5. Stored(g, k) \in Int
    <3>1. k \in DOMAIN rows[g] => rows[g][k].n \in Nat
      BY SerialTypes, RowsAre
    <3>2. QED
      BY <3>1 DEF Stored
  <2>6. QED
    BY <2>3, <2>4, <2>5
<1>4. QED
  BY <1>1, <1>2, <1>3

\* However many recorders, readers and calculators overlap, no heartbeat is counted twice in the
\* tables; with one recorder that never meets a calculator half loaded, every heartbeat stored is
\* counted, memory and tables agree between updates and no update fails, whenever the process dies.
THEOREM StatsAgreeHolds == StatsAssumption => (Spec => []StatsAgree)
<1> SUFFICES ASSUME StatsAssumption PROVE Spec => []StatsAgree
  OBVIOUS
<1>1. Spec => []NothingCountedTwice
  BY StatsCountOnce
<1>2. CASE InTurn
  <2>1. SerialInv /\ NothingCountedTwice => StatsAgree
    BY SerialAgrees DEF StatsAgree
  <2>2. Spec => []SerialInv
    BY <1>2, SerialInvariant
  <2>3. QED
    BY <1>1, <2>1, <2>2, PTL
<1>3. CASE ~InTurn
  <2>1. NothingCountedTwice => StatsAgree
    BY <1>3 DEF StatsAgree
  <2>2. QED
    BY <1>1, <2>1, PTL
<1>4. QED
  BY <1>2, <1>3

LEMMA StoreBeanGrows ==
  ASSUME StatsAssumption, InTurn, SerialInv, NEW u \in Users, StoreBean(u)
  PROVE  \A g \in Grains : \A k \in Int : InWindow(g, k) => Stored(g, k)' >= Stored(g, k)
<1>1. PICK h \in Grains, key \in Int, n \in Nat :
        /\ Rewritten(h, key, n) /\ IsLoaded(h)
        /\ InWindow(h, key) => n = InBucket(heap[list][h], key)
  <2> DEFINE j == job[u]
             h == StoreOrder[j.at]
             key == Key(h, j.date)
  <2>1. /\ j.step = "store" /\ h \in Grains /\ Rewritten(h, key, j.value)
        /\ InWindow(h, key) => j.value = InBucket(heap[list][h], key)
        /\ j.date \in Minutes /\ j.value \in Nat
    BY StoreRewrites
  <2>2. AtWork(u)
    BY <2>1 DEF AtWork
  <2>3. IsLoaded(h)
    BY <2>1, <2>2, WhileAtWork
  <2>4. key \in Int
    BY <2>1, KeysOfDates
  <2> HIDE DEF j, h, key
  <2>5. QED
    BY <2>1, <2>3, <2>4
<1> SUFFICES ASSUME NEW g \in Grains, NEW k \in Int, InWindow(g, k)
             PROVE  Stored(g, k)' >= Stored(g, k)
  OBVIOUS
<1>2. Stored(g, k) \in Int /\ Ahead(g, k) \in {0, 1}
  <2>1. k \in DOMAIN rows[g] => rows[g][k].n \in Nat
    BY SerialTypes, RowsAre
  <2>2. QED
    BY <2>1 DEF Stored, Ahead
<1>3. CASE g = h /\ k = key
  <2>1. n = Stored(g, k) + Ahead(g, k)
    BY <1>1, <1>3 DEF SerialInv, Agreeing
  <2>2. Stored(g, k)' = n
    BY <1>1, <1>3 DEF Rewritten, Stored
  <2>3. QED
    BY <1>2, <2>1, <2>2
<1>4. CASE ~(g = h /\ k = key)
  <2>1. Stored(g, k)' = Stored(g, k)
    BY <1>1, <1>4 DEF Rewritten, Stored
  <2>2. QED
    BY <1>2, <2>1
<1>5. QED
  BY <1>3, <1>4

LEMMA NoneShrinks ==
  ASSUME StatsAssumption, InTurn, SerialInv, [Next]_vars
  PROVE  NoCountShrinks
<1>1. \A g \in Grains : \A k \in KeysOf(g) : k \in Int /\ Stored(g, k) \in Int
  <2> SUFFICES ASSUME NEW g \in Grains, NEW k \in KeysOf(g)
               PROVE  k \in Int /\ Stored(g, k) \in Int
    OBVIOUS
  <2>1. k \in DOMAIN rows[g] => rows[g][k].n \in Nat
    BY SerialTypes, RowsAre
  <2>2. QED
    BY <2>1, KeysAreInt DEF Stored
<1>2. CASE rows' = rows
  <2>1. \A g, k : Stored(g, k)' = Stored(g, k)
    BY <1>2 DEF Stored
  <2>2. QED
    BY <1>1, <2>1 DEF NoCountShrinks
<1>3. ASSUME NEW u \in Users, StoreBean(u) PROVE NoCountShrinks
  BY <1>1, <1>3, StoreBeanGrows DEF NoCountShrinks
<1>4. ASSUME NEW u \in Users, Expire(u) PROVE NoCountShrinks
  <2>1. \A g \in Grains : \A k \in Int : InWindow(g, k) => Stored(g, k)' = Stored(g, k)
    BY <1>4, ExpireKeeps DEF Stored
  <2>2. QED
    BY <1>1, <2>1 DEF NoCountShrinks
<1>5. ~(BeginClear \/ ClearNext)
  <2>1. ~Clearing /\ clear = 0
    BY DEF InTurn, SerialInv, Turns
  <2>2. QED
    BY <2>1 DEF BeginClear, ClearNext
<1>6. ASSUME NEW u \in Users,
             Ask(u) \/ AskFirst(u) \/ Load(u) \/ GetBean(u) \/ StoreBeat(u)
      PROVE  NoCountShrinks
  <2>1. rows' = rows
    BY <1>6 DEF Ask, AskFirst, Load, GetBean, StoreBeat
  <2>2. QED
    BY <1>2, <2>1
<1>7. CASE Tick \/ Crash \/ vars' = vars
  <2>1. rows' = rows
    BY <1>7 DEF Tick, Crash, vars
  <2>2. QED
    BY <1>2, <2>1
<1>8. QED
  BY <1>3, <1>4, <1>5, <1>6, <1>7 DEF Next

\* In turn, no step takes a count of a period that is kept back: what update() stores is never less
\* than the row was, what init() loads is all of it, and what expires has left the window.
THEOREM StatsNeverShrinkHolds ==
  StatsAssumption /\ InTurn => (Spec => StatsNeverShrink)
<1> SUFFICES ASSUME StatsAssumption, InTurn PROVE Spec => StatsNeverShrink
  OBVIOUS
<1>1. SerialInv /\ [Next]_vars => [NoCountShrinks]_vars
  BY NoneShrinks
<1>2. Spec => []SerialInv
  BY SerialInvariant
<1>3. QED
  BY <1>1, <1>2, PTL DEF Spec, StatsNeverShrink
=============================================================================
