--------------------------- MODULE ExpiryNoticesProofs ---------------------------
(* What holds of the notices that a domain or a certificate will expire, for any monitors,  *)
(* deadlines, destinations, overlapping calls and crashes: DomainExpiry in the first half,  *)
(* an instance of CertExpiry in the second.                                                 *)
EXTENDS DomainExpiry, WellFoundedInduction, TLAPS

-------------------------------------------------------------------------------
(* The first of several deadlines.                                              *)

\* The order of the numbers as a relation, which the library's theorems are about.
Less == {p \in Nat \X Nat : p[1] < p[2]}

LEMMA LessWellFounded == IsWellFoundedOn(Less, Nat)
<1>1. OpToRel(<, Nat) = Less
  BY Zenon DEF OpToRel, Less
<1>2. QED
  BY <1>1, NatLessThanWellFounded, Zenon

LEMMA LessIsLess == ASSUME NEW x \in Nat, NEW y \in Nat, <<y, x>> \notin Less PROVE x <= y
<1>1. ASSUME y < x PROVE FALSE
  <2>1. <<y, x>> \in Nat \X Nat /\ <<y, x>>[1] < <<y, x>>[2]
    BY <1>1, SMT
  <2>2. QED
    BY <2>1, Zenon DEF Less
<1>2. QED
  BY <1>1

\* A set of days that is not empty has a first one.
LEMMA LeastDay ==
  ASSUME NEW S \in SUBSET Nat, S # {} PROVE \E n \in S : \A k \in S : n <= k
<1>1. PICK x \in S : \A y \in S : <<y, x>> \notin Less
  BY LessWellFounded, WFMin
<1>2. QED
  BY <1>1, LessIsLess

LEMMA FirstIsFirst ==
  ASSUME NEW S \in SUBSET Nat, S # {} PROVE First(S) \in S /\ \A k \in S : First(S) <= k
BY LeastDay DEF First

-------------------------------------------------------------------------------
(* Types of DomainExpiry.                                                       *)

\* A call that is telling a deadline, or about to store it, and that deadline.
Active(s) == sender[s].step \in {"send", "store"}
Target(s) == First(sender[s].todo)

\* The history variables have no part in TypeOK.
Histories == repeated \in BOOLEAN /\ missed \in BOOLEAN
Types == TypeOK /\ Histories

LEMMA DaysAreNat ==
  ASSUME DomainAssumption
  PROVE  /\ NotifyDays \subseteq Nat
         /\ Days \subseteq Nat /\ None \notin Days /\ Bad \notin Days /\ None # Bad
         /\ None \notin NotifyDays
<1>1. NotifyDays \subseteq Nat
  BY DEF DomainAssumption
<1>2. Days \subseteq Nat
  BY DEF DomainAssumption, Days
<1>3. QED
  BY <1>1, <1>2 DEF DomainAssumption

\* What a call tells is one of the deadlines it was left with.
LEMMA Targets ==
  ASSUME DomainAssumption, TypeOK, NEW s \in Senders, Active(s)
  PROVE  Target(s) \in sender[s].todo /\ Target(s) \in NotifyDays
<1>1. sender[s].todo # {} /\ sender[s].todo \in SUBSET NotifyDays
  BY DEF TypeOK, Active
<1>2. QED
  BY <1>1, DaysAreNat, FirstIsFirst DEF Target

SenderType == [step : {"idle", "find", "send", "store"}, todo : SUBSET NotifyDays,
               to : SUBSET Destinations, sent : BOOLEAN]
CheckType == [step : {"idle", "lookup", "store"}, bean : Beans, answer : Days \cup {None}]

LEMMA TypeInit == ASSUME DomainAssumption PROVE Init => Types
<1> SUFFICES ASSUME Init PROVE Types
  OBVIOUS
<1>1. NoRow \in Beans
  BY DEF NoRow, Beans
<1>2. registered \in Days /\ day \in 0..MaxDay /\ crashes \in 0..MaxCrashes
  BY DEF Init, DomainAssumption, Days
<1>3. check \in [Monitors -> CheckType]
  BY <1>1 DEF Init, NoCheck, CheckType
<1>4. sender \in [Senders -> SenderType]
  BY DEF Init, NoSender, SenderType
<1>5. QED
  BY <1>1, <1>2, <1>3, <1>4 DEF Init, NoSender, Types, TypeOK, Histories, SenderType, CheckType

LEMMA StartTypes ==
  ASSUME TypeOK, StartSender
  PROVE  /\ sender' \in [Senders -> SenderType]
         /\ \A s \in Senders : /\ sender'[s].step \in {"send", "store"} => sender'[s].todo # {}
                               /\ sender'[s].step = "store" => sender'[s].sent
<1>1. sender \in [Senders -> SenderType]
  BY DEF TypeOK, SenderType
<1>2. PICK s \in Senders : sender' = [sender EXCEPT ![s] = [NoSender EXCEPT !.step = "find"]]
  BY DEF StartSender
<1>3. [NoSender EXCEPT !.step = "find"] \in SenderType
  BY DEF NoSender, SenderType
<1>4. QED
  BY <1>1, <1>2, <1>3 DEF TypeOK, NoSender

LEMMA TypeStep == ASSUME DomainAssumption PROVE Types /\ [Next]_vars => Types'
<1> SUFFICES ASSUME Types, [Next]_vars PROVE Types'
  OBVIOUS
<1>0. TypeOK /\ Histories
  BY DEF Types
<1>1. CASE UNCHANGED vars
  BY <1>0, <1>1 DEF Types, TypeOK, Histories, vars, hist
<1>2. ASSUME NEW m \in Monitors, CheckedRecently(m) PROVE Types'
  BY <1>0, <1>2, StartTypes DEF CheckedRecently, Types, TypeOK, Histories, hist, SenderType
<1>3. ASSUME NEW m \in Monitors, FindOrCreate(m) PROVE Types'
  BY <1>0, <1>3 DEF FindOrCreate, Types, TypeOK, Histories, hist
<1>4. ASSUME NEW m \in Monitors, Lookup(m) PROVE Types'
  <2>1. PICK d \in Days \cup {None} : check' = [check EXCEPT ![m].step = "store", ![m].answer = d]
    BY <1>0, <1>4 DEF Lookup, TypeOK
  <2>2. check' = [check EXCEPT ![m] = [@ EXCEPT !.step = "store", !.answer = d]]
    BY <1>0, <2>1 DEF TypeOK
  <2>3. check \in [Monitors -> CheckType]
    BY <1>0 DEF TypeOK, CheckType
  <2>4. [check[m] EXCEPT !.step = "store", !.answer = d] \in CheckType
    BY <2>3 DEF CheckType
  <2>5. check' \in [Monitors -> CheckType]
    BY <2>2, <2>3, <2>4
  <2>6. QED
    BY <1>0, <1>4, <2>5 DEF Lookup, Types, TypeOK, Histories, hist, CheckType
<1>5. ASSUME NEW m \in Monitors, StoreCheck(m) PROVE Types'
  <2>1. check[m].bean \in Beans /\ check[m].answer \in Days \cup {None}
    BY <1>0 DEF TypeOK
  <2>2. row' \in Beans
    <3>1. PICK e, l, n : row' = [expiry |-> e, lastCheck |-> l, sent |-> n]
                         /\ e \in {Bad, check[m].answer} /\ l = day /\ n \in {None, row.sent}
                         /\ (check[m].answer = None => e = Bad)
      BY <1>5 DEF StoreCheck
    <3>2. day \in Days /\ row.sent \in NotifyDays \cup {None}
      BY <1>0 DEF TypeOK, Beans, Days, DomainAssumption
    <3>3. e \in Days \cup {None, Bad} /\ n \in NotifyDays \cup {None}
      BY <2>1, <3>1, <3>2
    <3>4. QED
      BY <3>1, <3>2, <3>3 DEF Beans
  <2>3. check' \in [Monitors -> CheckType]
    <3>1. check \in [Monitors -> CheckType] /\ NoCheck \in CheckType
      BY <1>0 DEF TypeOK, CheckType, NoCheck, NoRow, Beans
    <3>2. check' = [check EXCEPT ![m] = NoCheck]
      BY <1>5 DEF StoreCheck
    <3>3. QED
      BY <3>1, <3>2
  <2>4. StartSender \/ UNCHANGED sender
    BY <1>5 DEF StoreCheck
  <2>5. /\ sender' \in [Senders -> SenderType]
        /\ \A s \in Senders : /\ sender'[s].step \in {"send", "store"} => sender'[s].todo # {}
                              /\ sender'[s].step = "store" => sender'[s].sent
    BY <1>0, <2>4, StartTypes DEF TypeOK, SenderType
  <2>6. excused' \subseteq NotifyDays /\ missed' \in BOOLEAN
    BY <1>0, <1>5 DEF StoreCheck, TypeOK, Histories
  <2>7. UNCHANGED <<day, registered, crashes, told, repeated>>
    BY <1>5 DEF StoreCheck
  <2>8. QED
    BY <1>0, <2>2, <2>3, <2>5, <2>6, <2>7 DEF Types, TypeOK, Histories, SenderType, CheckType
<1>6. ASSUME NEW m \in Monitors, StoreError(m) PROVE Types'
  BY <1>0, <1>6 DEF StoreError, Types, TypeOK, Histories, hist, NoCheck, NoRow, Beans
<1>7. ASSUME NEW s \in Senders, Find(s) PROVE Types'
  <2>1. Deadlines(row) \subseteq NotifyDays /\ Underway(Senders) \subseteq NotifyDays
    BY <1>0 DEF Deadlines, Underway, TypeOK
  <2>2. excused' \subseteq NotifyDays
    BY <1>0, <1>7, <2>1 DEF Find, TypeOK
  <2>3. PICK new \in SenderType : /\ sender' = [sender EXCEPT ![s] = new]
                                  /\ new.step = "send" => new.todo # {}
                                  /\ new.step # "store"
    BY <1>7, <2>1 DEF Find, NoSender, SenderType
  <2>4. sender \in [Senders -> SenderType]
    BY <1>0 DEF TypeOK, SenderType
  <2>5. sender' \in [Senders -> SenderType]
    BY <2>3, <2>4
  <2>6. \A t \in Senders : /\ sender'[t].step \in {"send", "store"} => sender'[t].todo # {}
                           /\ sender'[t].step = "store" => sender'[t].sent
    BY <1>0, <2>3, <2>4 DEF TypeOK
  <2>7. UNCHANGED <<day, registered, row, check, crashes, told, repeated, missed>>
    BY <1>7 DEF Find
  <2>8. QED
    BY <1>0, <2>2, <2>5, <2>6, <2>7 DEF Types, TypeOK, Histories, SenderType
<1>8. ASSUME NEW s \in Senders, NEW d \in Destinations, SendOk(s, d) PROVE Types'
  <2>1. Target(s) \in NotifyDays
    BY <1>0, <1>8, Targets DEF SendOk, Active
  <2>2. QED
    <3>1. told' \subseteq Destinations \X NotifyDays
      BY <1>0, <1>8, <2>1 DEF SendOk, Target, TypeOK
    <3>2. repeated' \in BOOLEAN /\ UNCHANGED <<day, registered, row, check, crashes, excused, missed>>
      BY <1>8 DEF SendOk
    <3>4. sender \in [Senders -> SenderType]
      BY <1>0 DEF TypeOK, SenderType
    <3>. DEFINE new == [sender[s] EXCEPT !.to = sender[s].to \ {d}, !.sent = TRUE]
    <3>3. sender' = [sender EXCEPT ![s] = new]
      BY <1>8, <3>4 DEF SendOk
    <3>5. new \in SenderType /\ new.step = "send" /\ new.todo = sender[s].todo
      BY <1>8, <3>4 DEF SenderType, SendOk
    <3>. HIDE DEF new
    <3>6. sender' \in [Senders -> SenderType]
      BY <3>3, <3>4, <3>5
    <3>7. \A t \in Senders : /\ sender'[t].step \in {"send", "store"} => sender'[t].todo # {}
                             /\ sender'[t].step = "store" => sender'[t].sent
      <4>1. ASSUME NEW t \in Senders, t # s PROVE sender'[t] = sender[t]
        BY <3>3, <3>4, <4>1
      <4>2. sender'[s] = new /\ sender[s].todo # {}
        BY <1>0, <1>8, <3>3, <3>4 DEF SendOk, TypeOK
      <4>3. QED
        BY <1>0, <3>5, <4>1, <4>2 DEF TypeOK
    <3>8. QED
      BY <1>0, <3>1, <3>2, <3>6, <3>7 DEF Types, TypeOK, Histories, SenderType
<1>9. ASSUME NEW s \in Senders, NEW d \in Destinations, SendError(s, d) PROVE Types'
  BY <1>0, <1>9 DEF SendError, Types, TypeOK, Histories, hist
<1>10. ASSUME NEW s \in Senders, NextDeadline(s) PROVE Types'
  BY <1>0, <1>10 DEF NextDeadline, Types, TypeOK, Histories, hist, NoSender
<1>11. ASSUME NEW s \in Senders, StoreSent(s) PROVE Types'
  <2>1. Target(s) \in NotifyDays
    BY <1>0, <1>11, Targets DEF StoreSent, Active
  <2>2. row' \in Beans
    BY <1>0, <1>11, <2>1 DEF StoreSent, Target, TypeOK, Beans
  <2>3. QED
    BY <1>0, <1>11, <2>2 DEF StoreSent, Types, TypeOK, Histories, NoSender
<1>12. CASE Day
  BY <1>0, <1>12 DEF Day, Types, TypeOK, Histories, hist, DomainAssumption
<1>13. CASE Renew
  <2>1. Underway(Senders) \subseteq NotifyDays
    BY <1>0 DEF Underway, TypeOK
  <2>2. registered' \in Days
    BY <1>0, <1>13 DEF Renew, Days, TypeOK, DomainAssumption
  <2>3. QED
    BY <1>0, <1>13, <2>1, <2>2 DEF Renew, Types, TypeOK, Histories
<1>14. CASE Crash
  <2>1. Underway(Senders) \subseteq NotifyDays
    BY <1>0 DEF Underway, TypeOK
  <2>2. check' \in [Monitors -> CheckType]
    BY <1>14 DEF Crash, NoCheck, NoRow, Beans, CheckType
  <2>3. crashes' \in 0..MaxCrashes
    BY <1>0, <1>14 DEF Crash, TypeOK, DomainAssumption
  <2>4. QED
    BY <1>0, <1>14, <2>1, <2>2, <2>3 DEF Crash, Types, TypeOK, Histories, CheckType, NoSender
<1>15. QED
  BY <1>1, <1>2, <1>3, <1>4, <1>5, <1>6, <1>7, <1>8, <1>9, <1>10, <1>11, <1>12, <1>13, <1>14
  DEF Next, Beat, Reply, Work, Deliver

-------------------------------------------------------------------------------
(* A deadline is told once *)

\* Row and calls in progress agree on what was sent.
RowCovers(n) == row.sent # None /\ row.sent <= n
Tells(s, d, n) == Active(s) /\ Target(s) = n /\ sender[s].sent /\ d \notin sender[s].to

\* What was told is covered by the row, or a call that told it is about to store it.
Covered ==
  \A d \in Destinations, n \in NotifyDays \ excused :
    <<d, n>> \in told => RowCovers(n) \/ \E s \in Senders : Tells(s, d, n)

\* Two calls at a time: what they try is excused.
Exclusive ==
  \A s, t \in Senders : s # t /\ Active(s) /\ Active(t) => sender[s].todo \subseteq excused

\* What a call tries is not covered.
NotAgain == \A s \in Senders : Active(s) => \A n \in sender[s].todo \ excused : ~RowCovers(n)

\* A call stores nothing later than what it leaves covered.
Low ==
  \A s \in Senders, d \in Destinations, n \in NotifyDays \ excused :
    Active(s) /\ <<d, n>> \in told /\ RowCovers(n) => \A m \in sender[s].todo : m <= n

ToldInv == Types /\ Covered /\ Exclusive /\ NotAgain /\ Low /\ ToldOnce

\* Unless an action says otherwise: the calls go on as they are, or end, or try less.
Calmer(s) ==
  Active(s)' => /\ Active(s)
                /\ sender'[s].todo \subseteq sender[s].todo
Kept(s) ==
  \A d \in Destinations, n \in NotifyDays : Tells(s, d, n) => Tells(s, d, n)'

\* Steps that change neither the row's deadline nor who is told.
LEMMA QuietStep ==
  ASSUME DomainAssumption, ToldInv, row'.sent = row.sent, told' \subseteq told, excused \subseteq excused',
         repeated' = repeated, \A s \in Senders : Calmer(s) /\ Kept(s)
  PROVE  Covered' /\ Exclusive' /\ NotAgain' /\ Low' /\ ToldOnce'
<1>0. \A n : RowCovers(n)' <=> RowCovers(n)
  BY DEF RowCovers
<1>1. Covered'
  BY <1>0 DEF ToldInv, Covered, Kept
<1>2. Exclusive'
  BY DEF ToldInv, Exclusive, Calmer
<1>3. NotAgain'
  BY <1>0 DEF ToldInv, NotAgain, Calmer
<1>4. Low'
  BY <1>0 DEF ToldInv, Low, Calmer
<1>5. QED
  BY <1>1, <1>2, <1>3, <1>4 DEF ToldInv, ToldOnce

LEMMA Unmoved ==
  ASSUME NEW s \in Senders, sender'[s] = sender[s] PROVE Calmer(s) /\ Kept(s)
BY DEF Calmer, Kept, Active, Tells, Target

LEMMA StartIsQuiet ==
  ASSUME TypeOK, StartSender PROVE \A s \in Senders : Calmer(s) /\ Kept(s)
<1>1. PICK t \in Senders : /\ sender[t].step = "idle"
                           /\ sender' = [sender EXCEPT ![t] = [NoSender EXCEPT !.step = "find"]]
  BY DEF StartSender
<1>2. \A s \in Senders \ {t} : sender'[s] = sender[s]
  BY <1>1 DEF TypeOK
<1>3. sender'[t].step = "find"
  BY <1>1 DEF TypeOK, NoSender
<1>4. Calmer(t) /\ Kept(t)
  BY <1>1, <1>3 DEF Calmer, Kept, Active, Tells
<1>5. QED
  BY <1>2, <1>4, Unmoved

\* No step tells a destination of a deadline that the row or a call remembers.
LEMMA ToldStep == ASSUME DomainAssumption PROVE ToldInv /\ [Next]_vars => ToldInv'
<1> SUFFICES ASSUME ToldInv, [Next]_vars PROVE ToldInv'
  OBVIOUS
<1> DEFINE Goal == Covered' /\ Exclusive' /\ NotAgain' /\ Low' /\ ToldOnce'
<1>0. TypeOK /\ Types'
  BY TypeStep DEF ToldInv, Types
<1>a. SUFFICES Goal
  BY <1>0 DEF ToldInv
<1>b. ASSUME UNCHANGED sender PROVE \A s \in Senders : Calmer(s) /\ Kept(s)
  BY <1>b, Unmoved
<1>1. ASSUME UNCHANGED vars PROVE Goal
  BY <1>1, <1>b, QuietStep DEF vars, hist
<1>2. ASSUME NEW m \in Monitors, CheckedRecently(m) PROVE Goal
  BY <1>0, <1>2, StartIsQuiet, QuietStep DEF CheckedRecently, hist
<1>3. ASSUME NEW m \in Monitors, FindOrCreate(m) PROVE Goal
  BY <1>3, <1>b, QuietStep DEF FindOrCreate, hist
<1>4. ASSUME NEW m \in Monitors, Lookup(m) PROVE Goal
  BY <1>4, <1>b, QuietStep DEF Lookup, hist
<1>5. ASSUME NEW m \in Monitors, StoreCheck(m) PROVE Goal
  <2>1. \A s \in Senders : Calmer(s) /\ Kept(s)
    BY <1>0, <1>5, <1>b, StartIsQuiet DEF StoreCheck
  <2>2. excused \subseteq excused' /\ told' = told /\ repeated' = repeated
    BY <1>5 DEF StoreCheck
  <2>3. CASE row'.sent = row.sent
    BY <2>1, <2>2, <2>3, QuietStep
  <2>4. CASE row'.sent # row.sent
    <3>1. /\ row'.sent = None
          /\ excused' = excused \cup {n \in NotifyDays : \E d \in Destinations : <<d, n>> \in told}
      BY <1>5, <2>4 DEF StoreCheck
    <3>2. \A d \in Destinations, n \in NotifyDays \ excused' : <<d, n>> \notin told'
      BY <2>2, <3>1
    <3>3. \A n : ~RowCovers(n)'
      BY <3>1 DEF RowCovers
    <3>4. Covered' /\ Low'
      BY <3>2 DEF Covered, Low
    <3>5. Exclusive'
      BY <2>1, <2>2 DEF ToldInv, Exclusive, Calmer
    <3>6. NotAgain'
      BY <3>3 DEF NotAgain
    <3>7. QED
      BY <2>2, <3>4, <3>5, <3>6 DEF ToldOnce, ToldInv
  <2>5. QED
    BY <2>3, <2>4
<1>6. ASSUME NEW m \in Monitors, StoreError(m) PROVE Goal
  BY <1>6, <1>b, QuietStep DEF StoreError, hist
<1>7. ASSUME NEW s \in Senders, Find(s) PROVE Goal
  <2>1. \A t \in Senders \ {s} : sender'[t] = sender[t]
    BY <1>0, <1>7 DEF Find, TypeOK
  <2>2. ~Active(s)
    BY <1>7 DEF Find, Active
  <2>3. CASE ~Active(s)'
    <3>1. \A t \in Senders : Calmer(t) /\ Kept(t)
      BY <2>1, <2>2, <2>3, Unmoved DEF Calmer, Kept, Tells
    <3>2. QED
      BY <1>7, <3>1, QuietStep DEF Find
  <2>4. CASE Active(s)'
    <3>1. /\ row.expiry \in Days /\ Deadlines(row) # {}
          /\ sender'[s].todo = Deadlines(row) /\ sender'[s].sent = FALSE
          /\ excused' = excused \cup
               (IF Underway(Senders) = {} THEN {} ELSE Deadlines(row) \cup Underway(Senders))
      BY <1>0, <1>7, <2>4 DEF Find, Active, NoSender, TypeOK
    <3>2. UNCHANGED <<row, told, repeated>>
      BY <1>7 DEF Find
    <3>3. \A n : RowCovers(n)' <=> RowCovers(n)
      BY <3>2 DEF RowCovers
    <3>4. \A t \in Senders \ {s} : /\ Active(t)' <=> Active(t)
                                  /\ Target(t)' = Target(t)
                                  /\ \A d, n : Tells(t, d, n)' <=> Tells(t, d, n)
      BY <2>1 DEF Active, Target, Tells
    <3>5. Covered'
      <4>1. SUFFICES ASSUME NEW d \in Destinations, NEW n \in NotifyDays \ excused', <<d, n>> \in told'
                     PROVE RowCovers(n)' \/ \E t \in Senders : Tells(t, d, n)'
        BY DEF Covered
      <4>2. RowCovers(n) \/ \E t \in Senders : Tells(t, d, n)
        BY <3>1, <3>2, <4>1 DEF ToldInv, Covered
      <4>3. \A t \in Senders : Tells(t, d, n) => t # s
        BY <2>2 DEF Tells
      <4>4. QED
        BY <3>3, <3>4, <4>2, <4>3
    <3>6. Exclusive'
      <4>1. SUFFICES ASSUME NEW t \in Senders, NEW u \in Senders, t # u, Active(t)', Active(u)'
                     PROVE sender'[t].todo \subseteq excused'
        BY DEF Exclusive
      <4>2. CASE t # s /\ u # s
        BY <2>1, <3>1, <3>4, <4>1, <4>2 DEF ToldInv, Exclusive
      <4>3. CASE t = s \/ u = s
        <5>1. PICK v \in Senders \ {s} : v \in {t, u} /\ Active(v)
          BY <3>4, <4>1, <4>3
        <5>2. sender[v].todo # {} /\ sender[v].todo \subseteq Underway(Senders)
          BY <1>0, <5>1 DEF TypeOK, Active, Underway
        <5>3. excused' = excused \cup (Deadlines(row) \cup Underway(Senders))
          BY <3>1, <5>2
        <5>4. sender'[t].todo = sender[t].todo \/ sender'[t].todo = Deadlines(row)
          BY <2>1, <3>1
        <5>5. sender[t].todo \subseteq Underway(Senders)
          BY DEF Underway
        <5>6. QED
          BY <5>3, <5>4, <5>5
      <4>4. QED
        BY <4>2, <4>3
    <3>7. \A n \in Deadlines(row) : ~RowCovers(n) /\ (row.sent # None => row.sent > n)
      BY <1>0, DaysAreNat DEF Deadlines, RowCovers, TypeOK, Beans
    <3>8. NotAgain'
      <4>1. SUFFICES ASSUME NEW t \in Senders, Active(t)', NEW n \in sender'[t].todo \ excused'
                     PROVE ~RowCovers(n)'
        BY DEF NotAgain
      <4>2. CASE t = s
        BY <3>1, <3>3, <3>7, <4>1, <4>2
      <4>3. CASE t # s
        BY <2>1, <3>1, <3>3, <3>4, <4>1, <4>3 DEF ToldInv, NotAgain
      <4>4. QED
        BY <4>2, <4>3
    <3>9. Low'
      <4>1. SUFFICES ASSUME NEW t \in Senders, NEW d \in Destinations, NEW n \in NotifyDays \ excused',
                            Active(t)', <<d, n>> \in told', RowCovers(n)', NEW m \in sender'[t].todo
                     PROVE m <= n
        BY DEF Low
      <4>2. CASE t # s
        BY <2>1, <3>1, <3>2, <3>3, <3>4, <4>1, <4>2 DEF ToldInv, Low
      <4>3. CASE t = s
        <5>1. row.sent # None /\ row.sent <= n /\ row.sent > m
          BY <3>1, <3>3, <3>7, <4>1, <4>3 DEF RowCovers
        <5>2. row.sent \in Nat /\ m \in Nat /\ n \in Nat
          BY <1>0, <3>1, <4>1, <4>3, <5>1, DaysAreNat DEF TypeOK, Beans, Deadlines
        <5>3. QED
          BY <5>1, <5>2
      <4>4. QED
        BY <4>2, <4>3
    <3>10. QED
      BY <3>2, <3>5, <3>6, <3>8, <3>9 DEF ToldInv, ToldOnce
  <2>5. QED
    BY <2>3, <2>4
<1>8. ASSUME NEW s \in Senders, NEW e \in Destinations, SendOk(s, e) PROVE Goal
  <2>0. PICK m : m = Target(s)
    OBVIOUS
  <2>1. Active(s) /\ e \in sender[s].to /\ m \in sender[s].todo /\ m \in NotifyDays
    BY <1>0, <1>8, <2>0, Targets DEF SendOk, Active
  <2>2. /\ UNCHANGED <<row, excused>>
        /\ told' = told \cup {<<e, m>>}
        /\ repeated' = (repeated \/ (<<e, m>> \in told /\ m \notin excused))
    BY <1>8, <2>0 DEF SendOk, Target
  <2>3. /\ \A t \in Senders \ {s} : sender'[t] = sender[t]
        /\ sender'[s].step = sender[s].step /\ sender'[s].todo = sender[s].todo
        /\ sender'[s].to = sender[s].to \ {e} /\ sender'[s].sent
    BY <1>0, <1>8 DEF SendOk, TypeOK
  <2>4. \A n : RowCovers(n)' <=> RowCovers(n)
    BY <2>2 DEF RowCovers
  <2>5. \A t \in Senders : Calmer(t) /\ Kept(t)
    <3>1. Calmer(s) /\ Kept(s)
      BY <2>3 DEF Calmer, Kept, Active, Tells, Target
    <3>2. QED
      BY <2>3, <3>1, Unmoved
  <2>6. Tells(s, e, m)'
    BY <2>0, <2>1, <2>3 DEF Tells, Active, Target
  <2>7. Covered'
    <3>1. SUFFICES ASSUME NEW d \in Destinations, NEW n \in NotifyDays \ excused, <<d, n>> \in told'
                   PROVE RowCovers(n)' \/ \E t \in Senders : Tells(t, d, n)'
      BY <2>2 DEF Covered
    <3>2. CASE <<d, n>> \in told
      BY <2>4, <2>5, <3>2 DEF ToldInv, Covered, Kept
    <3>3. CASE <<d, n>> \notin told
      <4>1. d = e /\ n = m
        BY <2>2, <3>1, <3>3
      <4>2. QED
        BY <2>6, <4>1
    <3>4. QED
      BY <3>2, <3>3
  <2>8. Exclusive'
    BY <2>2, <2>5 DEF ToldInv, Exclusive, Calmer
  <2>9. NotAgain'
    BY <2>2, <2>4, <2>5 DEF ToldInv, NotAgain, Calmer
  <2>10. m \notin excused => ~RowCovers(m)
    BY <2>1 DEF ToldInv, NotAgain
  <2>11. Low'
    <3>1. SUFFICES ASSUME NEW t \in Senders, NEW d \in Destinations, NEW n \in NotifyDays \ excused,
                          Active(t), <<d, n>> \in told', RowCovers(n), NEW k \in sender[t].todo
                   PROVE k <= n
      BY <2>2, <2>4, <2>5 DEF Low, Calmer
    <3>2. <<d, n>> \in told
      BY <2>2, <2>10, <3>1
    <3>3. QED
      BY <3>1, <3>2 DEF ToldInv, Low
  <2>12. ToldOnce'
    <3>1. SUFFICES ASSUME <<e, m>> \in told, m \notin excused PROVE FALSE
      BY <2>2 DEF ToldInv, ToldOnce
    <3>2. PICK t \in Senders : Tells(t, e, m)
      BY <2>1, <2>10, <3>1 DEF ToldInv, Covered
    <3>3. t # s
      BY <2>1, <3>2 DEF Tells
    <3>4. sender[s].todo \subseteq excused
      BY <2>1, <3>2, <3>3 DEF ToldInv, Exclusive, Tells
    <3>5. QED
      BY <2>1, <3>1, <3>4
  <2>13. QED
    BY <2>7, <2>8, <2>9, <2>11, <2>12
<1>9. ASSUME NEW s \in Senders, NEW d \in Destinations, SendError(s, d) PROVE Goal
  <2>1. /\ \A t \in Senders \ {s} : sender'[t] = sender[t]
        /\ sender'[s].step = sender[s].step /\ sender'[s].todo = sender[s].todo
        /\ sender'[s].to = sender[s].to \ {d} /\ sender'[s].sent = sender[s].sent
    BY <1>0, <1>9 DEF SendError, TypeOK
  <2>2. Calmer(s) /\ Kept(s)
    BY <2>1 DEF Calmer, Kept, Active, Tells, Target
  <2>3. QED
    BY <1>9, <2>1, <2>2, Unmoved, QuietStep DEF SendError, hist
<1>10. ASSUME NEW s \in Senders, NextDeadline(s) PROVE Goal
  <2>1. \A t \in Senders \ {s} : sender'[t] = sender[t]
    BY <1>0, <1>10 DEF NextDeadline, TypeOK
  <2>2. Active(s)
    BY <1>10 DEF NextDeadline, Active
  <2>3. Calmer(s) /\ Kept(s)
    <3>1. CASE sender[s].sent
      <4>1. /\ sender'[s].todo = sender[s].todo /\ sender'[s].to = sender[s].to
            /\ sender'[s].sent = sender[s].sent /\ sender'[s].step = "store"
        BY <1>0, <1>10, <3>1 DEF NextDeadline, TypeOK
      <4>2. QED
        BY <2>2, <4>1 DEF Calmer, Kept, Active, Tells, Target
    <3>2. CASE ~sender[s].sent
      <4>1. sender'[s].todo \subseteq sender[s].todo
        BY <1>0, <1>10, <3>2 DEF NextDeadline, TypeOK, NoSender
      <4>2. QED
        BY <2>2, <3>2, <4>1 DEF Calmer, Kept, Tells
    <3>3. QED
      BY <3>1, <3>2
  <2>4. QED
    BY <1>10, <2>1, <2>3, Unmoved, QuietStep DEF NextDeadline, hist
<1>11. ASSUME NEW s \in Senders, StoreSent(s) PROVE Goal
  <2>. DEFINE m == Target(s)
  <2>1. Active(s) /\ m \in sender[s].todo /\ m \in NotifyDays
    BY <1>0, <1>11, Targets DEF StoreSent, Active
  <2>2. row'.sent = m /\ UNCHANGED <<told, repeated, excused>>
    BY <1>0, <1>11 DEF StoreSent, Target, TypeOK, Beans
  <2>3. /\ \A t \in Senders \ {s} : sender'[t] = sender[t]
        /\ ~Active(s)'
    BY <1>0, <1>11 DEF StoreSent, TypeOK, Active, NoSender
  <2>. HIDE DEF m
  <2>4. \A t \in Senders \ {s} : Active(t) => sender[t].todo \subseteq excused
    BY <2>1 DEF ToldInv, Exclusive
  <2>5. \A t \in Senders : Active(t)' => t # s /\ Active(t) /\ sender'[t] = sender[t]
    BY <2>3 DEF Active
  <2>6. ASSUME NEW d \in Destinations, NEW n \in NotifyDays \ excused, <<d, n>> \in told
        PROVE RowCovers(n)'
    <3>1. m \in Nat /\ n \in Nat /\ m # None
      BY <2>1, DaysAreNat
    <3>2. m <= n
      <4>1. CASE RowCovers(n)
        BY <2>1, <2>6, <4>1 DEF ToldInv, Low
      <4>2. CASE ~RowCovers(n)
        <5>1. PICK t \in Senders : Tells(t, d, n)
          BY <2>6, <4>2 DEF ToldInv, Covered
        <5>2. n \in sender[t].todo
          BY <1>0, <5>1, Targets DEF Tells
        <5>3. t = s
          BY <2>4, <2>6, <5>1, <5>2 DEF Tells
        <5>4. QED
          BY <3>1, <5>1, <5>3 DEF Tells, m
      <4>3. QED
        BY <4>1, <4>2
    <3>3. QED
      BY <2>2, <3>1, <3>2 DEF RowCovers
  <2>7. Covered'
    BY <2>2, <2>6 DEF Covered
  <2>8. Exclusive'
    BY <2>2, <2>5 DEF ToldInv, Exclusive
  <2>9. NotAgain'
    BY <2>2, <2>4, <2>5 DEF NotAgain
  <2>10. ASSUME NEW t \in Senders, NEW d \in Destinations, NEW n \in NotifyDays \ excused,
                Active(t)', <<d, n>> \in told, NEW k \in sender[t].todo
         PROVE k <= n
    <3>1. t # s /\ Active(t)
      BY <2>5, <2>10
    <3>2. CASE RowCovers(n)
      BY <2>10, <3>1, <3>2 DEF ToldInv, Low
    <3>3. CASE ~RowCovers(n)
      <4>1. PICK u \in Senders : Tells(u, d, n)
        BY <2>10, <3>3 DEF ToldInv, Covered
      <4>2. n \in sender[u].todo /\ Active(u)
        BY <1>0, <4>1, Targets DEF Tells
      <4>3. sender[u].todo \subseteq excused
        BY <2>1, <3>1, <4>2 DEF ToldInv, Exclusive
      <4>4. QED
        BY <2>10, <4>2, <4>3
    <3>4. QED
      BY <3>2, <3>3
  <2>11. Low'
    BY <2>2, <2>5, <2>10 DEF Low
  <2>12. QED
    BY <2>2, <2>7, <2>8, <2>9, <2>11 DEF ToldInv, ToldOnce
<1>12. ASSUME Day PROVE Goal
  BY <1>12, <1>b, QuietStep DEF Day, hist
<1>13. ASSUME Renew PROVE Goal
  <2>1. /\ UNCHANGED <<sender, row, repeated>> /\ told' = {}
        /\ excused' = Underway(Senders)
    BY <1>13 DEF Renew
  <2>2. \A t \in Senders : sender'[t].todo \subseteq excused'
    BY <2>1 DEF Underway
  <2>3. QED
    BY <2>1, <2>2 DEF ToldInv, Covered, Exclusive, NotAgain, Low, ToldOnce
<1>14. ASSUME Crash PROVE Goal
  <2>1. /\ UNCHANGED <<row, told, repeated>>
        /\ excused' = excused \cup Underway(Senders)
        /\ \A t \in Senders : ~Active(t)'
    BY <1>14 DEF Crash, hist, Active, NoSender
  <2>2. ASSUME NEW d \in Destinations, NEW n \in NotifyDays \ excused', <<d, n>> \in told
        PROVE RowCovers(n)'
    <3>1. \A t \in Senders : ~Tells(t, d, n)
      <4>1. ASSUME NEW t \in Senders, Tells(t, d, n) PROVE n \in sender[t].todo
        BY <1>0, <4>1, Targets DEF Tells
      <4>2. QED
        BY <2>1, <4>1 DEF Underway
    <3>2. RowCovers(n)
      BY <2>1, <2>2, <3>1 DEF ToldInv, Covered
    <3>3. QED
      BY <2>1, <3>2 DEF RowCovers
  <2>3. Covered'
    BY <2>1, <2>2 DEF Covered
  <2>4. QED
    BY <2>1, <2>3 DEF ToldInv, Exclusive, NotAgain, Low, ToldOnce
<1>15. QED
  BY <1>1, <1>2, <1>3, <1>4, <1>5, <1>6, <1>7, <1>8, <1>9, <1>10, <1>11, <1>12, <1>13, <1>14
  DEF Next, Beat, Reply, Work, Deliver

-------------------------------------------------------------------------------
(* What counts as sent was sent in this period *)

Said == ToldDeadlines \cup excused

\* Dates stem from the registry, whose date only grows.
Dated ==
  /\ registered <= day + Period
  /\ row.expiry \in Nat => row.expiry <= registered
  /\ row.expiry = None => row.sent = None /\ \A s \in Senders : ~Active(s)
  /\ \A m \in Monitors :
       /\ check[m].answer \in Nat => check[m].answer <= registered
       /\ check[m].bean.expiry \in Nat => check[m].bean.expiry <= registered
       /\ check[m].bean.expiry = None => check[m].bean.sent = None

\* A call that reached somebody has said what it will store.
Reached == \A s \in Senders : Active(s) /\ sender[s].sent => Target(s) \in Said

\* A check with a copy of the row that is still the period's knows a deadline that was said.
Remembered ==
  \A m \in Monitors :
    LET b == check[m].bean
    IN b.expiry = registered /\ b.sent # None /\ b.sent = row.sent => row.sent \in Said \/ missed

SentInv == Types /\ Dated /\ Reached /\ Remembered /\ SentWasToldUnlessMissed

\* The registry's date, the row and the checks' copies of it stay in order.
LEMMA DatedStep == ASSUME DomainAssumption PROVE Types /\ Dated /\ [Next]_vars => Dated'
<1> SUFFICES ASSUME Types, Dated, [Next]_vars PROVE Dated'
  OBVIOUS
<1>0. TypeOK /\ NotifyDays \subseteq Nat /\ Days \subseteq Nat /\ None \notin Nat /\ Bad \notin Nat /\ None # Bad
  BY DaysAreNat DEF Types, DomainAssumption
<1>b. ASSUME UNCHANGED sender PROVE \A s \in Senders : Active(s)' => Active(s)
  BY <1>b DEF Active
<1>1. CASE UNCHANGED <<day, registered, row, check>> /\ \A s \in Senders : Active(s)' => Active(s)
  BY <1>1 DEF Dated
<1>2. ASSUME NEW m \in Monitors, FindOrCreate(m) PROVE Dated'
  BY <1>0, <1>2, <1>b DEF FindOrCreate, Dated, TypeOK
<1>3. ASSUME NEW m \in Monitors, Lookup(m) PROVE Dated'
  <2>1. check'[m].answer \in {registered, None} /\ check'[m].bean = check[m].bean
    BY <1>0, <1>3 DEF Lookup, TypeOK
  <2>2. \A k \in Monitors \ {m} : check'[k] = check[k]
    BY <1>0, <1>3 DEF Lookup, TypeOK
  <2>3. UNCHANGED <<day, registered, row>> /\ \A s \in Senders : Active(s)' => Active(s)
    BY <1>3, <1>b DEF Lookup
  <2>4. registered \in Nat
    BY <1>0 DEF TypeOK
  <2>5. QED
    BY <1>0, <2>1, <2>2, <2>3, <2>4 DEF Dated
<1>4. ASSUME NEW m \in Monitors, StoreCheck(m) PROVE Dated'
  <2>1. row'.expiry \in {Bad, check[m].answer} /\ row'.expiry # None
    BY <1>0, <1>4 DEF StoreCheck
  <2>2. check' = [check EXCEPT ![m] = NoCheck] /\ UNCHANGED <<day, registered>>
    BY <1>4 DEF StoreCheck
  <2>3. QED
    BY <1>0, <2>1, <2>2 DEF Dated, TypeOK, NoCheck, NoRow
<1>5. ASSUME NEW m \in Monitors, StoreError(m) PROVE Dated'
  BY <1>0, <1>5, <1>b DEF StoreError, Dated, TypeOK, NoCheck, NoRow
<1>6. ASSUME NEW s \in Senders, StoreSent(s) PROVE Dated'
  <2>1. row'.expiry = row.expiry /\ row.expiry # None /\ UNCHANGED <<day, registered, check>>
    BY <1>0, <1>6 DEF StoreSent, TypeOK, Beans, Dated, Active
  <2>2. QED
    BY <1>0, <1>6, <2>1 DEF Dated
<1>7. ASSUME NEW s \in Senders, Find(s) PROVE Dated'
  <2>1. /\ \A t \in Senders \ {s} : sender'[t] = sender[t]
        /\ Active(s)' => row.expiry \in Days
    BY <1>0, <1>7 DEF Find, TypeOK, Active, NoSender
  <2>2. \A t \in Senders : Active(t)' => Active(t) \/ row.expiry \in Days
    BY <2>1 DEF Active
  <2>3. QED
    BY <1>0, <1>7, <2>2 DEF Find, Dated
<1>8. CASE Day
  BY <1>0, <1>8, <1>b DEF Day, Dated, DomainAssumption, TypeOK
<1>9. CASE Renew
  BY <1>0, <1>9, <1>b DEF Renew, Dated, DomainAssumption, TypeOK
<1>10. CASE Crash
  BY <1>0, <1>10 DEF Crash, Dated, NoCheck, NoRow, TypeOK, Active, NoSender
<1>11. ASSUME NEW m \in Monitors, CheckedRecently(m) PROVE Dated'
  BY <1>0, <1>1, <1>11 DEF CheckedRecently, StartSender, NoSender, Active, TypeOK
<1>12. ASSUME NEW s \in Senders, Deliver(s) \/ NextDeadline(s) PROVE Dated'
  BY <1>0, <1>1, <1>12 DEF Deliver, SendOk, SendError, NextDeadline, NoSender, Active, TypeOK
<1>13. CASE UNCHANGED vars
  BY <1>1, <1>13, <1>b DEF vars
<1>14. QED
  BY <1>2, <1>3, <1>4, <1>5, <1>6, <1>7, <1>8, <1>9, <1>10, <1>11, <1>12, <1>13
  DEF Next, Beat, Reply, Work

\* What was said stays said, until the registry starts a new period.
LEMMA SaidGrows ==
  ASSUME TypeOK, [Next]_vars, registered' = registered PROVE Said \subseteq Said'
<1>1. told \subseteq told' /\ excused \subseteq excused'
  <2>1. CASE Renew
    BY <2>1 DEF Renew
  <2>2. CASE ~Renew
    BY <2>2 DEF Next, vars, hist, Beat, CheckedRecently, FindOrCreate, Reply, Lookup, StoreCheck, StoreError,
       Work, Find, Deliver, SendOk, SendError, NextDeadline, StoreSent, Day, Crash
  <2>3. QED
    BY <2>1, <2>2
<1>2. QED
  BY <1>1 DEF Said, ToldDeadlines

\* What calls are trying is excused in the new period.
LEMMA RenewExcuses ==
  ASSUME DomainAssumption, TypeOK, Renew, NEW s \in Senders, Active(s) PROVE Target(s) \in Said'
BY Targets DEF Renew, Underway, Said

\* A call is left with a success only for the deadline that was delivered.
LEMMA ReachedStep == ASSUME DomainAssumption PROVE Types /\ Reached /\ [Next]_vars => Reached'
<1> SUFFICES ASSUME Types, Reached, [Next]_vars, NEW s \in Senders, Active(s)', sender'[s].sent
             PROVE Target(s)' \in Said'
  BY DEF Reached
<1>0. TypeOK
  BY DEF Types
<1>1. CASE Renew
  BY <1>0, <1>1, RenewExcuses DEF Renew, Active, Target
<1>2. CASE ~Renew
  <2>1. Said \subseteq Said'
    <3>1. registered' = registered
      BY <1>2 DEF Next, vars, hist, Beat, CheckedRecently, FindOrCreate, Reply, Lookup, StoreCheck, StoreError,
       Work, Find, Deliver, SendOk, SendError, NextDeadline, StoreSent, Day, Crash
    <3>2. QED
      BY <1>0, <3>1, SaidGrows
  <2>2. CASE Active(s) /\ sender[s].sent /\ sender'[s].todo = sender[s].todo
    BY <2>1, <2>2 DEF Reached, Target
  <2>3. CASE \E d \in Destinations : SendOk(s, d)
    <3>1. PICK d \in Destinations : SendOk(s, d)
      BY <2>3
    <3>2. PICK n : n = Target(s)
      OBVIOUS
    <3>3. <<d, n>> \in told' /\ Target(s)' = n
      BY <1>0, <3>1, <3>2 DEF SendOk, Target, TypeOK
    <3>4. <<d, n>>[2] \in ToldDeadlines'
      BY <3>3 DEF ToldDeadlines
    <3>5. QED
      BY <3>3, <3>4 DEF Said
  <2>4. CASE \A d \in Destinations : ~SendOk(s, d)
    <3>1. \/ sender'[s] = sender[s]
          \/ \E d \in Destinations : SendError(s, d)
          \/ NextDeadline(s)
      <4>1. CASE UNCHANGED sender
        BY <4>1
      <4>2. CASE StartSender
        BY <1>0, <4>2 DEF StartSender, TypeOK, Active, NoSender
      <4>3. CASE Crash
        BY <4>3 DEF Crash, Active, NoSender
      <4>4. ASSUME NEW t \in Senders, Work(t) PROVE (sender'[s] = sender[s] \/ \E d \in Destinations : SendError(s, d)) \/ NextDeadline(s)
        <5>1. CASE t # s
          BY <1>0, <4>4, <5>1 DEF Work, Find, Deliver, SendOk, SendError, NextDeadline, StoreSent, TypeOK
        <5>2. CASE t = s
          <6>1. ~StoreSent(s)
            BY <1>0 DEF StoreSent, TypeOK, Active, NoSender
          <6>2. ~Find(s)
            BY <1>0 DEF Find, TypeOK, Active, NoSender
          <6>3. QED
            BY <2>4, <4>4, <5>2, <6>1, <6>2 DEF Work, Deliver
        <5>3. QED
          BY <5>1, <5>2
      <4>5. QED
        BY <1>2, <4>1, <4>2, <4>3, <4>4
        DEF Next, vars, Beat, CheckedRecently, FindOrCreate, Reply, Lookup, StoreCheck, StoreError, Day
    <3>2. Active(s) /\ sender[s].sent /\ sender'[s].todo = sender[s].todo
      <4>1. CASE sender'[s] = sender[s]
        BY <4>1 DEF Active
      <4>2. ASSUME NEW d \in Destinations, SendError(s, d)
            PROVE Active(s) /\ sender[s].sent /\ sender'[s].todo = sender[s].todo
        BY <1>0, <4>2 DEF SendError, Active, TypeOK
      <4>3. CASE NextDeadline(s)
        BY <1>0, <4>3 DEF NextDeadline, Active, TypeOK, NoSender
      <4>4. QED
        BY <3>1, <4>1, <4>2, <4>3
    <3>3. QED
      BY <2>2, <3>2
  <2>5. QED
    BY <2>3, <2>4
<1>3. QED
  BY <1>1, <1>2

\* A check that overtakes the storing of a deadline knows an older row, or the same.
LEMMA RememberedStep == ASSUME DomainAssumption PROVE SentInv /\ [Next]_vars => Remembered'
<1> SUFFICES ASSUME SentInv, [Next]_vars, NEW m \in Monitors,
                    check'[m].bean.expiry = registered', check'[m].bean.sent # None,
                    check'[m].bean.sent = row'.sent
             PROVE row'.sent \in Said' \/ missed'
  BY DEF Remembered
<1>0. TypeOK /\ Days \subseteq Nat /\ registered \in Nat
  BY DaysAreNat DEF SentInv, Types, TypeOK
<1>1. CASE Renew
  <2>1. check'[m] = check[m] /\ registered' > registered
    BY <1>0, <1>1 DEF Renew, SentInv, Dated, TypeOK, DomainAssumption
  <2>2. registered' \in Nat
    BY <1>0, <1>1 DEF Renew, TypeOK, DomainAssumption
  <2>3. QED
    BY <1>0, <2>1, <2>2 DEF SentInv, Dated
<1>2. CASE ~Renew
  <2>1. registered' = registered
    BY <1>2 DEF Next, vars, hist, Beat, CheckedRecently, FindOrCreate, Reply, Lookup, StoreCheck, StoreError,
       Work, Find, Deliver, SendOk, SendError, NextDeadline, StoreSent, Day, Crash
  <2>2. Said \subseteq Said'
    BY <1>0, <2>1, SaidGrows
  <2>3. ASSUME NEW s \in Senders, StoreSent(s) PROVE row'.sent \in Said'
    <3>1. row'.sent = Target(s) /\ Active(s) /\ sender[s].sent
      BY <1>0, <2>3 DEF StoreSent, Target, Active, TypeOK, Beans
    <3>2. QED
      BY <2>2, <3>1 DEF SentInv, Reached
  <2>4. CASE \A s \in Senders : ~StoreSent(s)
    <3>1. \/ row'.sent = row.sent /\ (missed => missed')
          \/ row'.sent = None
      <4>1. CASE UNCHANGED <<row, missed>>
        BY <4>1
      <4>2. ASSUME NEW k \in Monitors, StoreCheck(k)
            PROVE (row'.sent = row.sent /\ (missed => missed')) \/ row'.sent = None
        BY <4>2 DEF StoreCheck
      <4>3. QED
        BY <1>2, <2>4, <4>1, <4>2
        DEF Next, vars, hist, Beat, CheckedRecently, FindOrCreate, Reply, Lookup, StoreError,
            Work, Find, Deliver, SendOk, SendError, NextDeadline, Day, Crash
    <3>2. row'.sent = row.sent /\ (missed => missed')
      BY <3>1
    <3>3. check'[m].bean = check[m].bean \/ check'[m].bean = row
      <4>1. CASE UNCHANGED check
        BY <4>1
      <4>2. ASSUME NEW k \in Monitors, k # m, FindOrCreate(k) \/ Reply(k)
            PROVE check'[m] = check[m]
        BY <1>0, <4>2 DEF FindOrCreate, Reply, Lookup, StoreCheck, StoreError, TypeOK
      <4>3. CASE FindOrCreate(m)
        BY <1>0, <4>3 DEF FindOrCreate, TypeOK
      <4>4. CASE Lookup(m)
        BY <1>0, <4>4 DEF Lookup, TypeOK
      <4>5. check'[m].bean # NoRow
        BY DEF NoRow
      <4>6. ~StoreCheck(m) /\ ~StoreError(m) /\ ~Crash
        BY <1>0, <4>5 DEF StoreCheck, StoreError, Crash, NoCheck, TypeOK
      <4>7. QED
        BY <1>2, <2>4, <4>1, <4>2, <4>3, <4>4, <4>6
        DEF Next, vars, hist, Beat, CheckedRecently, Reply,
            Work, Find, Deliver, SendOk, SendError, NextDeadline, Day
    <3>4. row.sent \in Said \/ missed
      <4>1. CASE check'[m].bean = check[m].bean
        BY <2>1, <3>2, <4>1 DEF SentInv, Remembered
      <4>2. CASE check'[m].bean = row
        BY <2>1, <3>2, <4>2 DEF SentInv, SentWasToldUnlessMissed, SentWasTold, Said
      <4>3. QED
        BY <3>3, <4>1, <4>2
    <3>5. QED
      BY <2>2, <3>2, <3>4
  <2>5. QED
    BY <2>3, <2>4
<1>3. QED
  BY <1>1, <1>2

\* The row is reset when a check stores a new date, and a check stores back what it read.
LEMMA SentStep == ASSUME DomainAssumption PROVE SentInv /\ [Next]_vars => SentInv'
<1> SUFFICES ASSUME SentInv, [Next]_vars PROVE SentInv'
  OBVIOUS
<1>0. TypeOK /\ Days \subseteq Nat /\ None \notin Nat /\ Bad \notin Nat /\ None # Bad
  BY DaysAreNat DEF SentInv, Types, DomainAssumption
<1>1. Types' /\ Dated' /\ Reached' /\ Remembered'
  BY TypeStep, DatedStep, ReachedStep, RememberedStep DEF SentInv
<1>2. SUFFICES SentWasToldUnlessMissed'
  BY <1>1 DEF SentInv
<1>3. SUFFICES ASSUME row'.expiry = registered', row'.sent # None, ~missed'
               PROVE row'.sent \in Said'
  BY DEF SentWasToldUnlessMissed, SentWasTold, Said
<1>4. CASE Renew
  <2>1. row' = row /\ registered' > registered /\ registered' \in Nat /\ registered \in Nat
    BY <1>0, <1>4 DEF Renew, SentInv, Dated, TypeOK, DomainAssumption
  <2>2. QED
    BY <1>0, <1>3, <2>1 DEF SentInv, Dated
<1>5. CASE ~Renew
  <2>1. registered' = registered
    BY <1>5 DEF Next, vars, hist, Beat, CheckedRecently, FindOrCreate, Reply, Lookup, StoreCheck, StoreError,
       Work, Find, Deliver, SendOk, SendError, NextDeadline, StoreSent, Day, Crash
  <2>2. Said \subseteq Said'
    BY <1>0, <2>1, SaidGrows
  <2>3. CASE UNCHANGED <<row, missed>>
    BY <1>3, <2>1, <2>2, <2>3 DEF SentInv, SentWasToldUnlessMissed, SentWasTold, Said
  <2>4. ASSUME NEW s \in Senders, StoreSent(s) PROVE row'.sent \in Said'
    <3>1. row'.sent = Target(s) /\ Active(s) /\ sender[s].sent
      BY <1>0, <2>4 DEF StoreSent, Target, Active, TypeOK, Beans
    <3>2. QED
      BY <2>2, <3>1 DEF SentInv, Reached
  <2>5. ASSUME NEW m \in Monitors, StoreCheck(m) PROVE row'.sent \in Said'
    <3>. DEFINE c == check[m]
    <3>1. row'.sent = row.sent /\ row'.expiry = (IF c.answer = None THEN Bad ELSE c.answer)
      BY <1>3, <2>5 DEF StoreCheck
    <3>2. c.answer = registered /\ c.answer # None /\ registered \in Nat
      BY <1>0, <1>3, <2>1, <3>1 DEF TypeOK
    <3>3. ~IsAfter(c.answer, c.bean.expiry) \/ c.bean.sent = None
      BY <1>3, <2>5 DEF StoreCheck
    <3>4. ~missed /\ c.bean.expiry # Bad /\ c.bean.sent = row.sent
      BY <1>3, <2>5, <3>1, <3>3 DEF StoreCheck
    <3>5. c.bean.sent # None /\ c.bean.expiry # None
      BY <1>3, <3>1, <3>4 DEF SentInv, Dated
    <3>6. c.bean.expiry \in Nat
      BY <1>0, <3>4, <3>5 DEF TypeOK, Beans
    <3>7. c.bean.expiry = registered
      BY <3>2, <3>3, <3>4, <3>5, <3>6 DEF IsAfter, SentInv, Dated
    <3>8. row.sent \in Said
      BY <3>4, <3>5, <3>7 DEF SentInv, Remembered
    <3>9. QED
      BY <2>2, <3>1, <3>8
  <2>6. QED
    BY <1>5, <2>3, <2>4, <2>5
    DEF Next, vars, hist, Beat, CheckedRecently, FindOrCreate, Reply, Lookup, StoreError,
        Work, Find, Deliver, SendOk, SendError, NextDeadline, Day, Crash
<1>6. QED
  BY <1>4, <1>5

LEMMA DomainInit == ASSUME DomainAssumption PROVE Init => ToldInv /\ SentInv
<1> SUFFICES ASSUME Init PROVE ToldInv /\ SentInv
  OBVIOUS
<1>1. Types
  BY TypeInit
<1>2. \A s \in Senders : ~Active(s)
  BY DEF Init, Active, NoSender
<1>3. ToldInv
  BY <1>1, <1>2 DEF Init, ToldInv, Covered, Exclusive, NotAgain, Low, ToldOnce
<1>4. Dated
  BY <1>2, DaysAreNat DEF Init, Dated, NoRow, NoCheck, DomainAssumption
<1>5. QED
  BY <1>1, <1>2, <1>3, <1>4
  DEF Init, SentInv, Reached, Remembered, SentWasToldUnlessMissed, SentWasTold, NoRow, NoCheck

\* The row of domain_expiry, the checks and the sendNotifications() in progress
\* (server/model/domain_expiry.js) have the types declared for them.
THEOREM DomainTypes == ASSUME DomainAssumption PROVE Spec => []TypeOK
<1>1. Types => TypeOK
  BY DEF Types
<1>2. QED
  BY <1>1, TypeInit, TypeStep, PTL DEF Spec

\* sendNotifications() of several monitors of a domain tell a destination of a deadline once in
\* a period of registration, for any monitors, checks, deadlines and crashes: what was told is
\* covered by the row's last_expiry_notification_sent, or the call that told it is storing it.
THEOREM DomainToldOnce == ASSUME DomainAssumption PROVE Spec => []ToldOnce
<1>1. ToldInv => ToldOnce
  BY DEF ToldInv
<1>2. QED
  BY <1>1, DomainInit, ToldStep, PTL DEF Spec

\* checkExpiry() and sendNotifications() never leave a deadline marked as sent that nobody was
\* told of in the stored period, however often the domain is renewed, unless the renewal met a
\* row without a valid date.
THEOREM DomainSentWasTold == ASSUME DomainAssumption PROVE Spec => []SentWasToldUnlessMissed
<1>1. SentInv => SentWasToldUnlessMissed
  BY DEF SentInv
<1>2. QED
  BY <1>1, DomainInit, SentStep, PTL DEF Spec

-------------------------------------------------------------------------------
(* Types of CertExpiry.                                                         *)

CONSTANTS
  Calls,          \* handleTlsInfo() of this monitor that may be in progress together
  CertReceivers,  \* the notification destinations of the monitor
  CertNotifyDays, \* the setting tlsExpiryNotifyDays
  Validity,       \* days for which the server's certificate is issued
  IssuerEnd,      \* day on which the intermediate certificate expires
  LastDay,        \* bound: days that pass
  CertCrashes,    \* bound: crashes
  Nothing         \* no row in monitor_tls_info

VARIABLES
  today,
  leaf,          \* environment: the certificate the server presents, named by the day it expires
  info,          \* monitor_tls_info: the certificate stored for the monitor
  history,       \* notification_sent_history: the deadlines of this monitor
  call,          \* handleTlsInfo(): step, certificate, row found, notices due, whom to tell, success
  failures,      \* crashes so far
  announced,     \* history variable: <<destination, certificate, deadline>> told
  twice,         \* history variable: ... and told again for no good reason
  disturbed,     \* history variable: calls around a renewal overlapped, or a crash lost a notice
  overlapped     \* history variable: deadlines that two calls were telling at the same time

Cert == INSTANCE CertExpiry

LEMMA CertDaysAreNat ==
  ASSUME Cert!CertAssumption
  PROVE CertNotifyDays \subseteq Nat /\ Cert!Certs \subseteq Nat /\ Nothing \notin Nat /\ Nothing \notin Cert!Certs
<1>1. Cert!Certs \subseteq Nat
  BY DEF Cert!CertAssumption, Cert!Certs
<1>2. QED
  BY <1>1 DEF Cert!CertAssumption

\* The two loops of checkCertExpiryNotifications() take one of the notices that are due.
LEMMA EarliestIsDue ==
  ASSUME Cert!CertAssumption, NEW due \in SUBSET Cert!Notices, due # {} PROVE Cert!Earliest(due) \in due
<1>. DEFINE days == {n.days : n \in due}
<1>1. \A n \in due : n.days \in Nat /\ n.cert \in {"leaf", "issuer"}
  BY CertDaysAreNat DEF Cert!Notices
<1>2. PICK x \in days : \A y \in days : x <= y
  <2>1. days \in SUBSET Nat /\ days # {}
    BY <1>1
  <2>2. QED
    BY <2>1, LeastDay
<1>3. PICK m \in due : m.days = x
  OBVIOUS
<1>4. \A k \in due : x < k.days \/ x = k.days
  <2>1. \A k \in due : x <= k.days /\ x \in Nat
    BY <1>1, <1>2, <1>3
  <2>2. QED
    BY <1>1, <2>1
<1>5. PICK n \in due : n.days = x /\ (n.cert = "leaf" \/ \A k \in due : k.days = x => k.cert = "issuer")
  BY <1>1, <1>3
<1>6. \A k \in due : n.days < k.days \/ (n.days = k.days /\ (n.cert = "leaf" \/ k.cert = "issuer"))
  BY <1>4, <1>5
<1>7. QED
  BY <1>6 DEF Cert!Earliest

\* A call's progress: begun, past updateTlsInfo(), telling a notice; and that notice's deadline.
AtWork(k) == call[k].step # "idle"
TellsNow(k) == call[k].step \in {"send", "record"}
HasStored(k) == call[k].step \in {"next", "send", "record"}
CallDeadline(k) == Cert!Earliest(call[k].due).days

CertTypesOK == Cert!TypeOK /\ twice \in BOOLEAN /\ disturbed \in BOOLEAN

LEMMA DeadlineIsDue ==
  ASSUME Cert!CertAssumption, Cert!TypeOK, NEW k \in Calls, call[k].due # {} PROVE CallDeadline(k) \in CertNotifyDays
<1>1. Cert!Earliest(call[k].due) \in Cert!Notices
  BY EarliestIsDue DEF Cert!TypeOK, Cert!CallStates
<1>2. QED
  BY <1>1 DEF CallDeadline, Cert!Notices

\* What a state of a call owes to its step.
Proper(c) ==
  /\ c \in Cert!CallStates
  /\ c.step # "idle" => c.leaf \in Cert!Certs
  /\ c.step \in {"send", "record"} => c.due # {}
  /\ c.step = "record" => c.sent

LEMMA CallTypes ==
  Cert!TypeOK <=>
    /\ today \in 0..LastDay /\ leaf \in Cert!Certs
    /\ info \in Cert!Certs \cup {Nothing}
    /\ history \subseteq CertNotifyDays
    /\ call \in [Calls -> Cert!CallStates] /\ \A k \in Calls : Proper(call[k])
    /\ failures \in 0..CertCrashes
    /\ announced \subseteq CertReceivers \X Cert!Certs \X CertNotifyDays
    /\ overlapped \subseteq CertNotifyDays
BY DEF Cert!TypeOK, Proper

\* A step of one call.
LEMMA CallChanges ==
  ASSUME call \in [Calls -> Cert!CallStates], \A k \in Calls : Proper(call[k]),
         NEW k \in Calls, NEW c, Proper(c), call' = [call EXCEPT ![k] = c]
  PROVE  call' \in [Calls -> Cert!CallStates] /\ \A j \in Calls : Proper(call[j])'
BY DEF Proper

\* A step gives a call a proper state and keeps the types of what else it changes.
LEMMA TypesAgain ==
  ASSUME today' \in 0..LastDay, leaf' \in Cert!Certs, info' \in Cert!Certs \cup {Nothing},
         history' \subseteq CertNotifyDays,
         call' \in [Calls -> Cert!CallStates], \A k \in Calls : Proper(call[k])',
         failures' \in 0..CertCrashes,
         announced' \subseteq CertReceivers \X Cert!Certs \X CertNotifyDays,
         overlapped' \subseteq CertNotifyDays, twice' \in BOOLEAN, disturbed' \in BOOLEAN
  PROVE  CertTypesOK'
BY DEF CertTypesOK, Cert!TypeOK, Proper

LEMMA CertTypeInit == ASSUME Cert!CertAssumption PROVE Cert!Init => CertTypesOK
<1> SUFFICES ASSUME Cert!Init PROVE CertTypesOK
  OBVIOUS
<1>1. Cert!NoCall \in Cert!CallStates
  BY DEF Cert!NoCall, Cert!CallStates
<1>2. today \in 0..LastDay /\ leaf \in Cert!Certs /\ failures \in 0..CertCrashes
  BY DEF Cert!Init, Cert!CertAssumption, Cert!Certs
<1>3. QED
  BY <1>1, <1>2 DEF Cert!Init, CertTypesOK, Cert!TypeOK, Cert!NoCall

LEMMA CertTypeStep == ASSUME Cert!CertAssumption PROVE CertTypesOK /\ [Cert!Next]_(Cert!cvars) => CertTypesOK'
<1> SUFFICES ASSUME CertTypesOK, [Cert!Next]_(Cert!cvars) PROVE CertTypesOK'
  OBVIOUS
<1>0. /\ Cert!TypeOK /\ twice \in BOOLEAN /\ disturbed \in BOOLEAN
      /\ today \in 0..LastDay /\ leaf \in Cert!Certs /\ info \in Cert!Certs \cup {Nothing}
      /\ history \subseteq CertNotifyDays
      /\ call \in [Calls -> Cert!CallStates] /\ \A k \in Calls : Proper(call[k])
      /\ failures \in 0..CertCrashes
      /\ announced \subseteq CertReceivers \X Cert!Certs \X CertNotifyDays
      /\ overlapped \subseteq CertNotifyDays
  BY CallTypes DEF CertTypesOK
<1>1. CASE UNCHANGED Cert!cvars
  BY <1>0, <1>1 DEF CertTypesOK, Cert!TypeOK, Cert!cvars
<1>2. ASSUME NEW k \in Calls, Cert!Connect(k) PROVE CertTypesOK'
  <2>. DEFINE c == [Cert!NoCall EXCEPT !.step = "find", !.leaf = leaf, !.due = Cert!Due]
  <2>1. Cert!Due \subseteq Cert!Notices
    BY DEF Cert!Due
  <2>2. Proper(c)
    BY <1>0, <2>1 DEF Proper, Cert!CallStates, Cert!NoCall
  <2>3. call' = [call EXCEPT ![k] = c]
    BY <1>2 DEF Cert!Connect
  <2>4. call' \in [Calls -> Cert!CallStates] /\ \A j \in Calls : Proper(call[j])'
    <3>. HIDE DEF c
    <3>. QED
      BY <1>0, <2>2, <2>3, CallChanges
  <2>5. QED
    BY <1>0, <1>2, <2>4, TypesAgain DEF Cert!Connect
<1>3. ASSUME NEW k \in Calls, Cert!FindInfo(k) PROVE CertTypesOK'
  <2>1. PICK c : /\ c = [call[k] EXCEPT !.found = info,
                           !.step = IF info \in {Nothing, call[k].leaf} THEN "store" ELSE "reset"]
                 /\ call' = [call EXCEPT ![k] = c]
    BY <1>0, <1>3 DEF Cert!FindInfo
  <2>2. Proper(c)
    BY <1>0, <1>3, <2>1 DEF Proper, Cert!CallStates, Cert!FindInfo
  <2>3. QED
    BY <1>0, <1>3, <2>1, <2>2, CallChanges, TypesAgain DEF Cert!FindInfo, Cert!chist
<1>4. ASSUME NEW k \in Calls, Cert!ResetHistory(k) PROVE CertTypesOK'
  <2>1. PICK c : c = [call[k] EXCEPT !.step = "store"] /\ call' = [call EXCEPT ![k] = c]
    BY <1>0, <1>4 DEF Cert!ResetHistory
  <2>2. Proper(c)
    BY <1>0, <1>4, <2>1 DEF Proper, Cert!CallStates, Cert!ResetHistory
  <2>3. QED
    BY <1>0, <1>4, <2>1, <2>2, CallChanges, TypesAgain DEF Cert!ResetHistory
<1>5. ASSUME NEW k \in Calls, Cert!StoreInfo(k) PROVE CertTypesOK'
  <2>1. PICK c : /\ c = [call[k] EXCEPT !.step = "next", !.found = Nothing]
                 /\ call' = [call EXCEPT ![k] = c]
    BY <1>0, <1>5 DEF Cert!StoreInfo
  <2>2. Proper(c) /\ call[k].leaf \in Cert!Certs
    BY <1>0, <1>5, <2>1 DEF Proper, Cert!CallStates, Cert!StoreInfo
  <2>3. QED
    BY <1>0, <1>5, <2>1, <2>2, CallChanges, TypesAgain DEF Cert!StoreInfo, Cert!chist
<1>6. ASSUME NEW k \in Calls, Cert!NextNotice(k) PROVE CertTypesOK'
  <2>. DEFINE due == call[k].due
  <2>0. call[k].step = "next" /\ call[k] \in Cert!CallStates /\ call[k].leaf \in Cert!Certs
    BY <1>0, <1>6 DEF Cert!NextNotice, Proper
  <2>1. PICK c : /\ call' = [call EXCEPT ![k] = c]
                 /\ \/ c = Cert!NoCall
                    \/ c = [call[k] EXCEPT !.due = Cert!Later(due)]
                    \/ due # {} /\ c = [call[k] EXCEPT !.step = "send", !.to = CertReceivers]
    <3>1. \/ call' = [call EXCEPT ![k] = Cert!NoCall]
          \/ call' = [call EXCEPT ![k] = [@ EXCEPT !.due = Cert!Later(due)]]
          \/ due # {} /\ call' = [call EXCEPT ![k].step = "send", ![k].to = CertReceivers]
      BY <1>6 DEF Cert!NextNotice
    <3>2. CASE call' = [call EXCEPT ![k] = Cert!NoCall]
      BY <3>2
    <3>3. CASE call' = [call EXCEPT ![k] = [@ EXCEPT !.due = Cert!Later(due)]]
      BY <1>0, <3>3
    <3>4. CASE due # {} /\ call' = [call EXCEPT ![k].step = "send", ![k].to = CertReceivers]
      <4>1. call' = [call EXCEPT ![k] = [call[k] EXCEPT !.step = "send", !.to = CertReceivers]]
        BY <1>0, <3>4
      <4>2. QED
        BY <3>4, <4>1
    <3>5. QED
      BY <3>1, <3>2, <3>3, <3>4
  <2>2. Cert!Later(due) \subseteq Cert!Notices
    BY <2>0 DEF Cert!Later, Cert!CallStates
  <2>3. Proper(c)
    <3>1. CASE c = Cert!NoCall
      BY <3>1 DEF Proper, Cert!NoCall, Cert!CallStates
    <3>2. CASE c = [call[k] EXCEPT !.due = Cert!Later(due)]
      BY <2>0, <2>2, <3>2 DEF Proper, Cert!CallStates
    <3>3. CASE due # {} /\ c = [call[k] EXCEPT !.step = "send", !.to = CertReceivers]
      BY <2>0, <3>3 DEF Proper, Cert!CallStates
    <3>4. QED
      BY <2>1, <3>1, <3>2, <3>3
  <2>4. overlapped' \subseteq CertNotifyDays
    <3>1. CASE overlapped' = overlapped
      BY <1>0, <3>1
    <3>2. CASE overlapped' # overlapped
      <4>1. /\ due # {}
            /\ overlapped' \subseteq overlapped \cup {CallDeadline(j) : j \in Cert!Telling \cup {k}}
        BY <1>6, <3>2 DEF Cert!NextNotice, CallDeadline
      <4>2. \A j \in Cert!Telling \cup {k} : j \in Calls /\ call[j].due # {}
        BY <1>0, <4>1 DEF Cert!Telling, Proper
      <4>3. \A j \in Cert!Telling \cup {k} : CallDeadline(j) \in CertNotifyDays
        BY <1>0, <4>2, DeadlineIsDue
      <4>4. QED
        BY <1>0, <4>1, <4>3
    <3>3. QED
      BY <3>1, <3>2
  <2>5. call' \in [Calls -> Cert!CallStates] /\ \A j \in Calls : Proper(call[j])'
    BY <1>0, <2>1, <2>3, CallChanges
  <2>6. UNCHANGED <<today, leaf, info, history, failures, announced, twice, disturbed>>
    BY <1>6 DEF Cert!NextNotice
  <2>7. QED
    BY <1>0, <2>4, <2>5, <2>6, TypesAgain
<1>7. ASSUME NEW k \in Calls, NEW d \in CertReceivers, Cert!SendOk(k, d) PROVE CertTypesOK'
  <2>0. call[k] \in Cert!CallStates /\ call[k].leaf \in Cert!Certs /\ call[k].due # {} /\ call[k].step = "send"
    BY <1>0, <1>7 DEF Cert!SendOk, Proper
  <2>1. call' = [call EXCEPT ![k] = [call[k] EXCEPT !.to = call[k].to \ {d}, !.sent = TRUE]]
    BY <1>0, <1>7 DEF Cert!SendOk
  <2>2. PICK c : /\ c = [call[k] EXCEPT !.to = call[k].to \ {d}, !.sent = TRUE]
                 /\ call' = [call EXCEPT ![k] = c]
    BY <2>1
  <2>3. Proper(c)
    BY <2>0, <2>2 DEF Proper, Cert!CallStates
  <2>4. CallDeadline(k) \in CertNotifyDays
    BY <1>0, <2>0, DeadlineIsDue
  <2>5. /\ announced' = announced \cup {<<d, call[k].leaf, CallDeadline(k)>>}
        /\ twice' \in BOOLEAN
        /\ UNCHANGED <<today, leaf, info, history, failures, disturbed, overlapped>>
    BY <1>7 DEF Cert!SendOk, CallDeadline
  <2>6. announced' \subseteq CertReceivers \X Cert!Certs \X CertNotifyDays
    BY <1>0, <2>0, <2>4, <2>5
  <2>7. QED
    BY <1>0, <2>2, <2>3, <2>5, <2>6, CallChanges, TypesAgain
<1>8. ASSUME NEW k \in Calls, NEW d \in CertReceivers, Cert!SendError(k, d) PROVE CertTypesOK'
  <2>1. PICK c : c = [call[k] EXCEPT !.to = call[k].to \ {d}] /\ call' = [call EXCEPT ![k] = c]
    BY <1>0, <1>8 DEF Cert!SendError
  <2>2. Proper(c)
    BY <1>0, <1>8, <2>1 DEF Proper, Cert!CallStates, Cert!SendError
  <2>3. QED
    BY <1>0, <1>8, <2>1, <2>2, CallChanges, TypesAgain DEF Cert!SendError, Cert!chist
<1>9. ASSUME NEW k \in Calls, Cert!Sent(k) PROVE CertTypesOK'
  <2>0. call[k] \in Cert!CallStates
    BY <1>0
  <2>1. PICK c : /\ call' = [call EXCEPT ![k] = c]
                 /\ c = IF call[k].sent THEN [call[k] EXCEPT !.step = "record"]
                         ELSE [call[k] EXCEPT !.step = "next", !.due = Cert!Later(call[k].due)]
    BY <1>9, Zenon DEF Cert!Sent
  <2>2. Proper(c)
    <3>1. CASE call[k].sent
      BY <1>0, <1>9, <2>1, <3>1 DEF Proper, Cert!CallStates, Cert!Sent
    <3>2. CASE ~call[k].sent
      BY <1>0, <1>9, <2>1, <3>2 DEF Proper, Cert!CallStates, Cert!Sent, Cert!Later
    <3>3. QED
      BY <3>1, <3>2
  <2>3. QED
    BY <1>0, <1>9, <2>1, <2>2, CallChanges, TypesAgain DEF Cert!Sent, Cert!chist
<1>10. ASSUME NEW k \in Calls, Cert!Record(k) PROVE CertTypesOK'
  <2>1. PICK c : /\ call' = [call EXCEPT ![k] = c]
                 /\ c = IF CallDeadline(k) \in history THEN Cert!NoCall
                         ELSE [call[k] EXCEPT !.step = "next", !.due = Cert!Later(call[k].due), !.sent = FALSE]
    BY <1>10, Zenon DEF Cert!Record, CallDeadline
  <2>2. Proper(c)
    BY <1>0, <1>10, <2>1 DEF Proper, Cert!CallStates, Cert!Record, Cert!Later, Cert!NoCall
  <2>3. history' \subseteq CertNotifyDays
    BY <1>0, <1>10, DeadlineIsDue DEF Cert!Record, CallDeadline, Proper
  <2>4. QED
    BY <1>0, <1>10, <2>1, <2>2, <2>3, CallChanges, TypesAgain DEF Cert!Record, Cert!chist
<1>11. CASE Cert!NextDay
  BY <1>0, <1>11, TypesAgain DEF Cert!NextDay, Cert!CertAssumption, Cert!chist, Proper
<1>12. CASE Cert!RenewCert
  <2>1. leaf' \in Cert!Certs
    BY <1>0, <1>12 DEF Cert!RenewCert, Cert!Certs, Cert!CertAssumption
  <2>2. QED
    BY <1>0, <1>12, <2>1, TypesAgain DEF Cert!RenewCert, Cert!chist, Proper
<1>13. CASE Cert!Crash
  <2>1. Cert!NoCall \in Cert!CallStates /\ Proper(Cert!NoCall)
    BY DEF Cert!NoCall, Cert!CallStates, Proper
  <2>2. call' = [j \in Calls |-> Cert!NoCall] /\ failures' \in 0..CertCrashes
    BY <1>0, <1>13 DEF Cert!Crash, Cert!CertAssumption
  <2>3. call' \in [Calls -> Cert!CallStates] /\ \A j \in Calls : Proper(call[j])'
    BY <2>1, <2>2 DEF Proper
  <2>4. QED
    BY <1>0, <1>13, <2>2, <2>3, TypesAgain DEF Cert!Crash
<1>14. QED
  BY <1>1, <1>2, <1>3, <1>4, <1>5, <1>6, <1>7, <1>8, <1>9, <1>10, <1>11, <1>12, <1>13
  DEF Cert!Next, Cert!Step, Cert!Deliver

-------------------------------------------------------------------------------
(* What calls know of each other *)

\* Certificates are named by the day they end: a newer one has a greater name.
Aged ==
  /\ leaf <= today + Validity
  /\ info # Nothing => info <= leaf
  /\ \A k \in Calls : AtWork(k) => call[k].leaf <= leaf

\* A call has told a notice it has not recorded only while it is at it; it forgets what was sent
\* for a certificate it has found.
Marked ==
  \A k \in Calls : /\ call[k].sent => TellsNow(k)
                   /\ call[k].step = "reset" => call[k].found # Nothing

\* Two calls that tell at the same time: their deadlines are excused.
Alone == \A j, k \in Calls : j # k /\ TellsNow(j) /\ TellsNow(k) => CallDeadline(k) \in overlapped

\* What is being told is not covered by what was recorded.
Uncovered ==
  \A k \in Calls : TellsNow(k) /\ CallDeadline(k) \notin overlapped =>
    \A h \in history : ~(h <= CallDeadline(k))

\* A call that reached somebody has announced its notice.
SaidIt ==
  \A k \in Calls : call[k].sent =>
    \E d \in CertReceivers : <<d, call[k].leaf, CallDeadline(k)>> \in announced

CallsInv == CertTypesOK /\ Aged /\ Marked /\ Alone /\ Uncovered /\ SaidIt

\* A call that goes on with the same notice, or starts none.
Steady(k) ==
  /\ TellsNow(k)' => TellsNow(k) /\ call'[k].due = call[k].due
  /\ call'[k].sent => call[k].sent /\ call'[k].due = call[k].due /\ call'[k].leaf = call[k].leaf
  /\ call'[k].sent => TellsNow(k)'

LEMMA SameCall ==
  ASSUME Marked, NEW k \in Calls, call'[k] = call[k]
  PROVE  Steady(k)
BY DEF Steady, TellsNow, Marked

\* Steps that record nothing and tell nothing new.
LEMMA CallsKept ==
  ASSUME CallsInv, \A k \in Calls : Steady(k), overlapped \subseteq overlapped', history' \subseteq history,
         announced \subseteq announced'
  PROVE  Alone' /\ Uncovered' /\ SaidIt' /\ \A k \in Calls : call'[k].sent => TellsNow(k)'
<1>1. \A k \in Calls : TellsNow(k)' => CallDeadline(k)' = CallDeadline(k)
  BY DEF Steady, CallDeadline
<1>2. \A k \in Calls : call'[k].sent => CallDeadline(k)' = CallDeadline(k)
  BY DEF Steady, CallDeadline
<1>3. Alone'
  BY <1>1 DEF CallsInv, Alone, Steady
<1>4. Uncovered'
  BY <1>1 DEF CallsInv, Uncovered, Steady
<1>5. SaidIt'
  BY <1>2 DEF CallsInv, SaidIt, Steady
<1>6. QED
  BY <1>3, <1>4, <1>5 DEF Steady

\* A step of one call that tells nothing new.
LEMMA OneSteady ==
  ASSUME CallsInv, NEW k \in Calls, \A j \in Calls \ {k} : call'[j] = call[j],
         Steady(k), overlapped \subseteq overlapped', history' \subseteq history, announced \subseteq announced',
         UNCHANGED <<today, leaf>>, info' = info \/ info' = call[k].leaf,
         AtWork(k)' => call'[k].leaf \in {call[k].leaf, leaf},
         info' = call[k].leaf /\ info' # info => AtWork(k),
         AtWork(k)' /\ call'[k].leaf # leaf => AtWork(k),
         call'[k].step = "reset" => call'[k].found # Nothing
  PROVE  Aged' /\ Marked' /\ Alone' /\ Uncovered' /\ SaidIt'
<1>1. \A j \in Calls : Steady(j)
  BY SameCall DEF CallsInv
<1>2. Alone' /\ Uncovered' /\ SaidIt' /\ \A j \in Calls : call'[j].sent => TellsNow(j)'
  BY <1>1, CallsKept
<1>3. Marked'
  BY <1>2 DEF CallsInv, Marked
<1>4. Aged'
  <2>1. info' # Nothing => info' <= leaf
    BY DEF CallsInv, Aged
  <2>2. leaf \in Nat
    BY DEF CallsInv, CertTypesOK, Cert!TypeOK, Cert!CertAssumption, Cert!Certs
  <2>3. \A j \in Calls : AtWork(j)' => call'[j].leaf <= leaf
    BY <2>2 DEF CallsInv, Aged, AtWork
  <2>4. QED
    BY <2>1, <2>3 DEF CallsInv, Aged
<1>5. QED
  BY <1>2, <1>3, <1>4

\* Whatever happens, calls know of each other what they did.
LEMMA CallsStep == ASSUME Cert!CertAssumption PROVE CallsInv /\ [Cert!Next]_(Cert!cvars) => CallsInv'
<1> SUFFICES ASSUME CallsInv, [Cert!Next]_(Cert!cvars) PROVE CallsInv'
  OBVIOUS
<1> DEFINE Goal == Aged' /\ Marked' /\ Alone' /\ Uncovered' /\ SaidIt'
<1>0. Cert!TypeOK /\ CertTypesOK' /\ call \in [Calls -> Cert!CallStates]
  BY CertTypeStep DEF CallsInv, CertTypesOK, Cert!TypeOK
<1>a. SUFFICES Goal
  BY <1>0 DEF CallsInv
<1>b. ASSUME UNCHANGED call PROVE \A k \in Calls : Steady(k)
  BY <1>b, SameCall DEF CallsInv
<1>1. ASSUME UNCHANGED Cert!cvars PROVE Goal
  BY <1>1 DEF Cert!cvars, CallsInv, Aged, Marked, Alone, Uncovered, SaidIt, AtWork, TellsNow, CallDeadline
<1>2. ASSUME NEW k \in Calls, Cert!Connect(k) PROVE Goal
  <2>1. /\ \A j \in Calls \ {k} : call'[j] = call[j]
        /\ call'[k].step = "find" /\ ~call'[k].sent /\ call'[k].leaf = leaf
    BY <1>0, <1>2 DEF Cert!Connect, Cert!NoCall
  <2>2. Steady(k)
    BY <2>1 DEF Steady, TellsNow
  <2>3. QED
    BY <1>2, <2>1, <2>2, OneSteady DEF Cert!Connect
<1>3. ASSUME NEW k \in Calls, Cert!FindInfo(k) PROVE Goal
  <2>1. /\ \A j \in Calls \ {k} : call'[j] = call[j]
        /\ call'[k].leaf = call[k].leaf /\ call'[k].sent = call[k].sent /\ call[k].step = "find"
        /\ call'[k].step \in {"store", "reset"} /\ (call'[k].step = "reset" => call'[k].found # Nothing)
    BY <1>0, <1>3 DEF Cert!FindInfo, Cert!CallStates
  <2>2. Steady(k) /\ AtWork(k)
    BY <2>1 DEF Steady, TellsNow, CallsInv, Marked, AtWork
  <2>3. QED
    BY <1>3, <2>1, <2>2, OneSteady DEF Cert!FindInfo, Cert!chist
<1>4. ASSUME NEW k \in Calls, Cert!ResetHistory(k) PROVE Goal
  <2>1. /\ \A j \in Calls \ {k} : call'[j] = call[j]
        /\ call'[k].leaf = call[k].leaf /\ call'[k].sent = call[k].sent /\ call[k].step = "reset"
        /\ call'[k].step = "store"
    BY <1>0, <1>4 DEF Cert!ResetHistory, Cert!CallStates
  <2>2. Steady(k) /\ AtWork(k)
    BY <2>1 DEF Steady, TellsNow, CallsInv, Marked, AtWork
  <2>3. QED
    BY <1>4, <2>1, <2>2, OneSteady DEF Cert!ResetHistory
<1>5. ASSUME NEW k \in Calls, Cert!StoreInfo(k) PROVE Goal
  <2>1. /\ \A j \in Calls \ {k} : call'[j] = call[j]
        /\ call'[k].leaf = call[k].leaf /\ call'[k].sent = call[k].sent /\ call[k].step = "store"
        /\ call'[k].step = "next"
    BY <1>0, <1>5 DEF Cert!StoreInfo, Cert!CallStates
  <2>2. Steady(k) /\ AtWork(k)
    BY <2>1 DEF Steady, TellsNow, CallsInv, Marked, AtWork
  <2>3. QED
    BY <1>5, <2>1, <2>2, OneSteady DEF Cert!StoreInfo, Cert!chist
<1>6. ASSUME NEW k \in Calls, Cert!NextNotice(k) PROVE Goal
  <2>0. call[k].step = "next" /\ ~call[k].sent /\ AtWork(k)
    BY <1>6 DEF Cert!NextNotice, CallsInv, Marked, TellsNow, AtWork
  <2>1. CASE call[k].due = {} \/ Cert!Covered(Cert!Earliest(call[k].due))
    <3>1. /\ \A j \in Calls \ {k} : call'[j] = call[j]
          /\ ~call'[k].sent /\ call'[k].step \in {"idle", "next"}
          /\ AtWork(k)' => call'[k].leaf = call[k].leaf
      BY <1>0, <1>6, <2>0, <2>1 DEF Cert!NextNotice, Cert!NoCall, Cert!CallStates, AtWork
    <3>2. Steady(k)
      BY <3>1 DEF Steady, TellsNow
    <3>3. QED
      BY <1>6, <2>0, <2>1, <3>1, <3>2, OneSteady DEF Cert!NextNotice
  <2>2. CASE ~(call[k].due = {} \/ Cert!Covered(Cert!Earliest(call[k].due)))
    <3>1. /\ \A j \in Calls \ {k} : call'[j] = call[j]
          /\ call'[k].due = call[k].due /\ call'[k].leaf = call[k].leaf
          /\ call'[k].sent = call[k].sent /\ call'[k].step = "send"
      BY <1>0, <1>6, <2>2 DEF Cert!NextNotice, Cert!CallStates
    <3>2. /\ UNCHANGED <<today, leaf, info, history, announced>>
          /\ overlapped' = overlapped \cup
               (IF Cert!Telling = {} THEN {} ELSE {CallDeadline(c) : c \in Cert!Telling \cup {k}})
      BY <1>6, <2>2 DEF Cert!NextNotice, CallDeadline
    <3>3. \A j \in Calls : CallDeadline(j)' = CallDeadline(j) /\ (TellsNow(j)' <=> TellsNow(j) \/ j = k)
      BY <3>1 DEF CallDeadline, TellsNow
    <3>4. Aged' /\ Marked' /\ SaidIt'
      BY <2>0, <3>1, <3>2, <3>3 DEF CallsInv, Aged, Marked, SaidIt, AtWork, TellsNow
    <3>5. Alone'
      <4>1. SUFFICES ASSUME NEW i \in Calls, NEW j \in Calls, i # j, TellsNow(i)', TellsNow(j)'
                     PROVE CallDeadline(j) \in overlapped'
        BY <3>3 DEF Alone
      <4>2. CASE i # k /\ j # k
        BY <3>2, <3>3, <4>1, <4>2 DEF CallsInv, Alone
      <4>3. CASE i = k \/ j = k
        <5>1. Cert!Telling # {} /\ j \in Cert!Telling \cup {k}
          BY <3>3, <4>1, <4>3 DEF Cert!Telling, TellsNow
        <5>2. QED
          BY <3>2, <5>1
      <4>4. QED
        BY <4>2, <4>3
    <3>6. \A h \in history : ~(h <= CallDeadline(k))
      BY <2>2 DEF Cert!Covered, CallDeadline
    <3>7. Uncovered'
      <4>1. SUFFICES ASSUME NEW j \in Calls, TellsNow(j)', CallDeadline(j) \notin overlapped', NEW h \in history
                     PROVE ~(h <= CallDeadline(j))
        BY <3>2, <3>3 DEF Uncovered
      <4>2. QED
        BY <3>2, <3>3, <3>6, <4>1 DEF CallsInv, Uncovered
    <3>8. QED
      BY <3>4, <3>5, <3>7
  <2>3. QED
    BY <2>1, <2>2
<1>7. ASSUME NEW k \in Calls, NEW d \in CertReceivers, Cert!SendOk(k, d) PROVE Goal
  <2>1. /\ \A j \in Calls \ {k} : call'[j] = call[j]
        /\ call'[k].due = call[k].due /\ call'[k].leaf = call[k].leaf
        /\ call'[k].step = "send" /\ call[k].step = "send"
    BY <1>0, <1>7 DEF Cert!SendOk, Cert!CallStates
  <2>2. /\ UNCHANGED <<today, leaf, info, history, overlapped>>
        /\ announced' = announced \cup {<<d, call[k].leaf, CallDeadline(k)>>}
    BY <1>7 DEF Cert!SendOk, CallDeadline
  <2>3. \A j \in Calls : CallDeadline(j)' = CallDeadline(j) /\ (TellsNow(j)' <=> TellsNow(j))
    BY <2>1 DEF CallDeadline, TellsNow
  <2>4. Aged' /\ Marked' /\ Alone' /\ Uncovered'
    BY <2>1, <2>2, <2>3 DEF CallsInv, Aged, Marked, Alone, Uncovered, AtWork, TellsNow
  <2>5. SaidIt'
    <3>1. SUFFICES ASSUME NEW j \in Calls, call'[j].sent
                   PROVE \E e \in CertReceivers : <<e, call[j].leaf, CallDeadline(j)>> \in announced'
      BY <2>1, <2>3 DEF SaidIt
    <3>2. CASE j = k
      BY <2>2, <3>2
    <3>3. CASE j # k
      BY <2>1, <2>2, <3>1, <3>3 DEF CallsInv, SaidIt
    <3>4. QED
      BY <3>2, <3>3
  <2>6. QED
    BY <2>4, <2>5
<1>8. ASSUME NEW k \in Calls, NEW d \in CertReceivers, Cert!SendError(k, d) PROVE Goal
  <2>1. /\ \A j \in Calls \ {k} : call'[j] = call[j]
        /\ call'[k].due = call[k].due /\ call'[k].leaf = call[k].leaf /\ call'[k].sent = call[k].sent
        /\ call'[k].step = "send" /\ call[k].step = "send"
    BY <1>0, <1>8 DEF Cert!SendError, Cert!CallStates
  <2>2. Steady(k) /\ AtWork(k)
    BY <2>1 DEF Steady, TellsNow, AtWork
  <2>3. QED
    BY <1>8, <2>1, <2>2, OneSteady DEF Cert!SendError, Cert!chist
<1>9. ASSUME NEW k \in Calls, Cert!Sent(k) PROVE Goal
  <2>1. /\ \A j \in Calls \ {k} : call'[j] = call[j]
        /\ call'[k].leaf = call[k].leaf /\ call'[k].sent = call[k].sent /\ call[k].step = "send"
        /\ \/ call[k].sent /\ call'[k].step = "record" /\ call'[k].due = call[k].due
           \/ ~call[k].sent /\ call'[k].step = "next"
    BY <1>0, <1>9 DEF Cert!Sent, Cert!CallStates
  <2>2. Steady(k) /\ AtWork(k)
    BY <2>1 DEF Steady, TellsNow, AtWork
  <2>3. QED
    BY <1>9, <2>1, <2>2, OneSteady DEF Cert!Sent, Cert!chist
<1>10. ASSUME NEW k \in Calls, Cert!Record(k) PROVE Goal
  <2>1. /\ \A j \in Calls \ {k} : call'[j] = call[j]
        /\ ~call'[k].sent /\ call[k].step = "record" /\ call'[k].step \in {"idle", "next"}
        /\ AtWork(k)' => call'[k].leaf = call[k].leaf
    BY <1>0, <1>10 DEF Cert!Record, Cert!CallStates, Cert!NoCall, AtWork
  <2>2. /\ UNCHANGED <<today, leaf, info, announced, overlapped>>
        /\ history' = history \cup {CallDeadline(k)}
    BY <1>10 DEF Cert!Record, CallDeadline, Cert!chist
  <2>3. \A j \in Calls : TellsNow(j)' => j # k /\ TellsNow(j) /\ CallDeadline(j)' = CallDeadline(j)
    BY <2>1 DEF CallDeadline, TellsNow
  <2>4. Aged' /\ Marked' /\ Alone'
    BY <2>1, <2>2, <2>3 DEF CallsInv, Aged, Marked, Alone, AtWork, TellsNow
  <2>5. SaidIt'
    BY <2>1, <2>2 DEF CallsInv, SaidIt, CallDeadline
  <2>6. Uncovered'
    <3>1. SUFFICES ASSUME NEW j \in Calls, TellsNow(j)', CallDeadline(j) \notin overlapped, NEW h \in history'
                   PROVE ~(h <= CallDeadline(j))
      BY <2>2, <2>3 DEF Uncovered
    <3>2. TellsNow(j) /\ TellsNow(k) /\ j # k
      BY <2>1, <2>3, <3>1 DEF TellsNow
    <3>3. CallDeadline(j) \in overlapped
      BY <3>2 DEF CallsInv, Alone
    <3>4. QED
      BY <3>1, <3>3
  <2>7. QED
    BY <2>4, <2>5, <2>6
<1>11. ASSUME Cert!NextDay PROVE Goal
  <2>1. Aged' /\ Marked'
    <3>1. today \in Nat /\ leaf \in Nat /\ Validity \in Nat
      BY <1>0, CertDaysAreNat DEF Cert!TypeOK, Cert!CertAssumption
    <3>2. QED
      BY <1>11, <3>1 DEF Cert!NextDay, CallsInv, Aged, Marked, AtWork, TellsNow
  <2>2. QED
    BY <1>11, <1>b, <2>1, CallsKept DEF Cert!NextDay, Cert!chist
<1>12. ASSUME Cert!RenewCert PROVE Goal
  <2>1. leaf \in Nat /\ leaf' \in Nat /\ leaf < leaf' /\ leaf' = today' + Validity
    BY <1>0, <1>12, CertDaysAreNat DEF Cert!RenewCert, Cert!TypeOK, Cert!CertAssumption, CallsInv, Aged
  <2>2. info # Nothing => info \in Nat
    BY <1>0, CertDaysAreNat DEF Cert!TypeOK
  <2>3. \A k \in Calls : AtWork(k) => call[k].leaf \in Nat
    BY <1>0, CertDaysAreNat DEF Cert!TypeOK, AtWork
  <2>4. UNCHANGED <<info, call>>
    BY <1>12 DEF Cert!RenewCert
  <2>5. Aged'
    BY <2>1, <2>2, <2>3, <2>4 DEF CallsInv, Aged, AtWork
  <2>6. Marked'
    BY <2>4 DEF CallsInv, Marked, TellsNow
  <2>7. QED
    BY <1>12, <1>b, <2>5, <2>6, CallsKept DEF Cert!RenewCert, Cert!chist
<1>13. ASSUME Cert!Crash PROVE Goal
  <2>1. \A k \in Calls : call'[k].step = "idle" /\ ~call'[k].sent
    BY <1>13 DEF Cert!Crash, Cert!NoCall
  <2>2. \A k \in Calls : Steady(k)
    BY <2>1 DEF Steady, TellsNow
  <2>3. QED
    BY <1>13, <2>1, <2>2, CallsKept DEF Cert!Crash, CallsInv, Aged, Marked, AtWork
<1>14. QED
  BY <1>1, <1>2, <1>3, <1>4, <1>5, <1>6, <1>7, <1>8, <1>9, <1>10, <1>11, <1>12, <1>13
  DEF Cert!Next, Cert!Step, Cert!Deliver

-------------------------------------------------------------------------------
(* While calls around a renewal do not overlap *)

\* All calls at work have met the same certificate ...
OneCert == \A j, k \in Calls : AtWork(j) /\ AtWork(k) => call[j].leaf = call[k].leaf

\* ... which is at least as new as the stored one, and is stored before anything is told.
Known ==
  \A k \in Calls : AtWork(k) =>
    /\ info # Nothing => info <= call[k].leaf
    /\ HasStored(k) => info = call[k].leaf
    /\ call[k].step = "store" /\ call[k].found = Nothing /\ info # Nothing => info = call[k].leaf
    /\ call[k].step = "store" /\ info # call[k].leaf => history = {}

\* Nothing is recorded before a certificate is stored, or told of a newer one than that.
Past ==
  /\ info = Nothing => history = {}
  /\ \A d \in CertReceivers, c \in Cert!Certs, n \in CertNotifyDays :
       <<d, c, n>> \in announced => info # Nothing /\ c <= info

\* What was told of a certificate that may still be told of is recorded, or about to be.
MayBeTold(c) == c = leaf \/ \E k \in Calls : AtWork(k) /\ call[k].leaf = c
IsRecorded(n) == \E h \in history : h <= n
TellsOf(k, d, c, n) ==
  call[k].sent /\ call[k].leaf = c /\ CallDeadline(k) = n /\ d \notin call[k].to

StillTold ==
  \A d \in CertReceivers, c \in Cert!Certs, n \in CertNotifyDays \ overlapped :
    <<d, c, n>> \in announced /\ MayBeTold(c) =>
      IsRecorded(n) \/ \E k \in Calls : TellsOf(k, d, c, n)

Undisturbed == OneCert /\ Known /\ Past /\ StillTold /\ Cert!HistoryIsOfThisCert
CertInv == CallsInv /\ (disturbed \/ Undisturbed) /\ Cert!CertToldOnce

\* What a call goes on with when nothing is told or recorded.
Onward(k) ==
  /\ AtWork(k)' => AtWork(k) /\ call'[k].leaf = call[k].leaf
  /\ \A d \in CertReceivers, c \in Cert!Certs, n \in CertNotifyDays :
       TellsOf(k, d, c, n) => TellsOf(k, d, c, n)'

LEMMA SameOnward == ASSUME NEW k \in Calls, call'[k] = call[k] PROVE Onward(k)
BY DEF Onward, AtWork, TellsOf, CallDeadline

\* Steps after which every call goes on with what it has told.
LEMMA KeptOn ==
  ASSUME Undisturbed, \A k \in Calls : Onward(k), leaf' = leaf,
         UNCHANGED <<announced, history>>, overlapped \subseteq overlapped'
  PROVE  OneCert' /\ StillTold'
<1>1. OneCert'
  BY DEF Undisturbed, OneCert, Onward
<1>2. \A c : MayBeTold(c)' => MayBeTold(c)
  BY DEF MayBeTold, Onward
<1>3. \A n : IsRecorded(n)' <=> IsRecorded(n)
  BY DEF IsRecorded
<1>4. StillTold'
  <2>1. SUFFICES ASSUME NEW d \in CertReceivers, NEW c \in Cert!Certs, NEW n \in CertNotifyDays \ overlapped',
                        <<d, c, n>> \in announced, MayBeTold(c)
                 PROVE IsRecorded(n) \/ \E k \in Calls : TellsOf(k, d, c, n)'
    BY <1>2, <1>3 DEF StillTold
  <2>2. IsRecorded(n) \/ \E k \in Calls : TellsOf(k, d, c, n)
    BY <2>1 DEF Undisturbed, StillTold
  <2>3. QED
    BY <2>2 DEF Onward
<1>5. QED
  BY <1>1, <1>4

\* Calls around a renewal do not overlap, or the history variable says that they did.
LEMMA CertStep == ASSUME Cert!CertAssumption PROVE CertInv /\ [Cert!Next]_(Cert!cvars) => CertInv'
<1> SUFFICES ASSUME CertInv, [Cert!Next]_(Cert!cvars) PROVE CertInv'
  OBVIOUS
<1> DEFINE Goal == Undisturbed' /\ Cert!CertToldOnce'
<1>0. /\ CallsInv /\ CallsInv' /\ Cert!TypeOK /\ Cert!TypeOK' /\ Aged /\ Marked
      /\ call \in [Calls -> Cert!CallStates] /\ twice = FALSE
  BY CallsStep DEF CertInv, CallsInv, CertTypesOK, Cert!TypeOK, Cert!CertToldOnce
<1>n. Cert!Certs \subseteq Nat /\ Nothing \notin Nat /\ leaf \in Nat /\ (info # Nothing => info \in Nat)
  BY <1>0, CertDaysAreNat DEF Cert!TypeOK
<1>a. CASE disturbed
  <2>1. disturbed' /\ twice' = FALSE
    BY <1>0, <1>a DEF Cert!Next, Cert!cvars, Cert!chist, Cert!Step, Cert!Deliver, Cert!Connect, Cert!FindInfo, Cert!ResetHistory, Cert!StoreInfo, Cert!NextNotice, Cert!SendOk,
       Cert!SendError, Cert!Sent, Cert!Record, Cert!NextDay, Cert!RenewCert, Cert!Crash, CallsInv, CertTypesOK
  <2>2. QED
    BY <1>0, <2>1 DEF CertInv, Cert!CertToldOnce
<1>b. CASE ~disturbed
  <2>0. Undisturbed
    BY <1>b DEF CertInv
  <2>a. CASE disturbed'
    <3>1. twice' = FALSE
      BY <1>0, <1>b, <2>a DEF Cert!Next, Cert!cvars, Cert!chist, Cert!Step, Cert!Deliver, Cert!Connect, Cert!FindInfo, Cert!ResetHistory, Cert!StoreInfo, Cert!NextNotice, Cert!SendOk,
       Cert!SendError, Cert!Sent, Cert!Record, Cert!NextDay, Cert!RenewCert, Cert!Crash
    <3>2. QED
      BY <1>0, <2>a, <3>1 DEF CertInv, Cert!CertToldOnce
  <2>b. SUFFICES ASSUME ~disturbed' PROVE Goal
    BY <1>0, <2>a DEF CertInv
  <2>c. ASSUME UNCHANGED <<info, history, announced, twice>>
        PROVE /\ Past' /\ Cert!CertToldOnce' /\ Cert!HistoryIsOfThisCert'
    BY <1>0, <1>b, <2>0, <2>c DEF Undisturbed, Past, Cert!CertToldOnce, Cert!HistoryIsOfThisCert
  <2>d. ASSUME UNCHANGED call PROVE \A k \in Calls : Onward(k)
    BY <2>d, SameOnward
  <2>1. ASSUME UNCHANGED Cert!cvars PROVE Goal
    <3>1. Known'
      BY <2>0, <2>1 DEF Cert!cvars, Undisturbed, Known, AtWork, HasStored
    <3>2. QED
      BY <2>0, <2>1, <2>c, <2>d, <3>1, KeptOn DEF Cert!cvars, Undisturbed
  <2>2. ASSUME NEW k \in Calls, Cert!Connect(k) PROVE Goal
    <3>1. /\ \A j \in Calls \ {k} : call'[j] = call[j]
          /\ call'[k].step = "find" /\ ~call'[k].sent /\ call'[k].leaf = leaf
          /\ ~AtWork(k) /\ ~call[k].sent
          /\ UNCHANGED <<today, leaf, info, history, failures, announced, twice, overlapped>>
      BY <1>0, <2>2 DEF Cert!Connect, Cert!NoCall, AtWork, Marked, TellsNow
    <3>2. \A j \in Calls : AtWork(j) => call[j].leaf = leaf
      BY <1>0, <1>b, <2>2, <2>b DEF Cert!Connect, AtWork, CallsInv, CertTypesOK
    <3>3. \A j \in Calls : AtWork(j)' => call'[j].leaf = leaf
      BY <3>1, <3>2 DEF AtWork
    <3>4. OneCert'
      BY <3>3 DEF OneCert
    <3>5. Known'
      BY <1>0, <2>0, <3>1 DEF Undisturbed, Known, AtWork, HasStored, Aged
    <3>6. StillTold'
      <4>1. \A c : MayBeTold(c)' => MayBeTold(c)
        BY <3>1, <3>3 DEF MayBeTold
      <4>2. \A j \in Calls : \A d, c, n : TellsOf(j, d, c, n) => TellsOf(j, d, c, n)'
        BY <3>1 DEF TellsOf, CallDeadline
      <4>3. \A n : IsRecorded(n) => IsRecorded(n)'
        BY <3>1 DEF IsRecorded
      <4>4. QED
        BY <2>0, <3>1, <4>1, <4>2, <4>3 DEF Undisturbed, StillTold
    <3>7. QED
      BY <2>c, <3>1, <3>4, <3>5, <3>6 DEF Undisturbed
  <2>3. ASSUME NEW k \in Calls, Cert!FindInfo(k) PROVE Goal
    <3>1. /\ \A j \in Calls \ {k} : call'[j] = call[j]
          /\ call'[k].leaf = call[k].leaf /\ call'[k].sent = call[k].sent /\ call[k].step = "find"
          /\ call'[k].found = info /\ call'[k].to = call[k].to /\ call'[k].due = call[k].due
          /\ call'[k].step = (IF info \in {Nothing, call[k].leaf} THEN "store" ELSE "reset")
          /\ UNCHANGED <<today, leaf, info, history, failures, Cert!chist>>
      BY <1>0, <2>3 DEF Cert!FindInfo, Cert!CallStates
    <3>2. AtWork(k) /\ Onward(k)
      BY <3>1 DEF AtWork, Onward, TellsOf, CallDeadline
    <3>3. \A j \in Calls : Onward(j)
      BY <3>1, <3>2, SameOnward
    <3>4. Known'
      BY <2>0, <3>1, <3>2 DEF Undisturbed, Known, Past, AtWork, HasStored
    <3>5. QED
      BY <2>0, <2>c, <3>1, <3>3, <3>4, KeptOn DEF Undisturbed, Cert!chist
  <2>4. ASSUME NEW k \in Calls, Cert!ResetHistory(k) PROVE Goal
    <3>1. /\ \A j \in Calls \ {k} : call'[j] = call[j]
          /\ call'[k].leaf = call[k].leaf /\ call'[k].sent = call[k].sent /\ call[k].step = "reset"
          /\ call'[k].found = call[k].found /\ call'[k].step = "store"
          /\ UNCHANGED <<today, leaf, info, failures, announced, twice, overlapped>> /\ history' = {}
      BY <1>0, <2>4 DEF Cert!ResetHistory, Cert!CallStates
    <3>2. info # call[k].leaf /\ AtWork(k) /\ call[k].found # Nothing
      BY <1>0, <1>b, <2>4, <2>b, <3>1 DEF Cert!ResetHistory, AtWork, Marked
    <3>3. \A j \in Calls : /\ AtWork(j)' <=> AtWork(j)
                            /\ call'[j].leaf = call[j].leaf
      BY <3>1 DEF AtWork
    <3>4. OneCert'
      BY <2>0, <3>3 DEF Undisturbed, OneCert
    <3>5. Known'
      BY <2>0, <3>1, <3>2, <3>3 DEF Undisturbed, Known, AtWork, HasStored
    <3>6. Past' /\ Cert!HistoryIsOfThisCert' /\ Cert!CertToldOnce'
      BY <1>0, <2>0, <3>1 DEF Undisturbed, Past, Cert!HistoryIsOfThisCert, Cert!CertToldOnce
    <3>7. ASSUME NEW d \in CertReceivers, NEW c \in Cert!Certs, NEW n \in CertNotifyDays, <<d, c, n>> \in announced, MayBeTold(c)
          PROVE FALSE
      <4>1. info # Nothing /\ c <= info /\ info <= call[k].leaf /\ call[k].leaf <= leaf
        BY <1>0, <2>0, <3>2, <3>7 DEF Undisturbed, Past, Known, Aged
      <4>2. c = leaf \/ c = call[k].leaf
        BY <2>0, <3>2, <3>7 DEF Undisturbed, OneCert, MayBeTold
      <4>3. c \in Nat /\ info \in Nat /\ call[k].leaf \in Nat
        BY <1>0, <1>n, <3>2, <4>1 DEF Cert!TypeOK, AtWork
      <4>4. QED
        BY <1>n, <3>2, <4>1, <4>2, <4>3
    <3>8. \A c : MayBeTold(c)' => MayBeTold(c)
      BY <3>1, <3>3 DEF MayBeTold
    <3>9. StillTold'
      BY <3>1, <3>7, <3>8 DEF StillTold
    <3>10. QED
      BY <3>4, <3>5, <3>6, <3>9 DEF Undisturbed
  <2>5. ASSUME NEW k \in Calls, Cert!StoreInfo(k) PROVE Goal
    <3>1. /\ \A j \in Calls \ {k} : call'[j] = call[j]
          /\ call'[k].leaf = call[k].leaf /\ call'[k].sent = call[k].sent /\ call[k].step = "store"
          /\ call'[k].to = call[k].to /\ call'[k].due = call[k].due /\ call'[k].step = "next"
          /\ info' = IF call[k].found = Nothing /\ info # Nothing THEN info ELSE call[k].leaf
          /\ UNCHANGED <<today, leaf, history, failures, Cert!chist>>
      BY <1>0, <2>5 DEF Cert!StoreInfo, Cert!CallStates
    <3>2. AtWork(k) /\ Onward(k)
      BY <3>1 DEF AtWork, Onward, TellsOf, CallDeadline
    <3>3. \A j \in Calls : Onward(j)
      BY <3>1, <3>2, SameOnward
    <3>4. info' = call[k].leaf /\ call[k].leaf \in Nat
      BY <1>0, <1>n, <2>0, <3>1, <3>2 DEF Undisturbed, Known, Cert!TypeOK, AtWork
    <3>5. \A j \in Calls : AtWork(j)' => call'[j].leaf = info'
      BY <2>0, <3>1, <3>2, <3>4 DEF Undisturbed, OneCert, AtWork
    <3>6. Known'
      BY <3>4, <3>5 DEF Known
    <3>7. Past'
      <4>1. info # Nothing => info <= info'
        BY <2>0, <3>2, <3>4 DEF Undisturbed, Known
      <4>2. ASSUME NEW c \in Cert!Certs, info # Nothing, c <= info PROVE c <= info'
        <5>1. c \in Nat /\ info \in Nat /\ info' \in Nat
          BY <1>n, <3>4, <4>2
        <5>2. QED
          BY <4>1, <4>2, <5>1
      <4>3. QED
        BY <1>n, <2>0, <3>1, <3>4, <4>2 DEF Undisturbed, Past, Cert!chist
    <3>8. Cert!HistoryIsOfThisCert'
      BY <1>b, <2>0, <3>1, <3>2, <3>4 DEF Undisturbed, Known, Cert!HistoryIsOfThisCert, Cert!chist
    <3>9. QED
      BY <1>0, <2>0, <3>1, <3>3, <3>6, <3>7, <3>8, KeptOn DEF Undisturbed, Cert!CertToldOnce, Cert!chist
  <2>6. ASSUME NEW k \in Calls, Cert!NextNotice(k) PROVE Goal
    <3>0. call[k].step = "next" /\ ~call[k].sent /\ AtWork(k)
      BY <1>0, <2>6 DEF Cert!NextNotice, Marked, TellsNow, AtWork
    <3>1. /\ \A j \in Calls \ {k} : call'[j] = call[j]
          /\ call'[k].step \in {"idle", "next", "send"}
          /\ AtWork(k)' => call'[k].leaf = call[k].leaf
      BY <1>0, <2>6, <3>0 DEF Cert!NextNotice, Cert!NoCall, Cert!CallStates, AtWork
    <3>2. UNCHANGED <<today, leaf, info, history, failures, announced, twice>> /\ overlapped \subseteq overlapped'
      BY <2>6 DEF Cert!NextNotice
    <3>3. Onward(k)
      BY <3>0, <3>1 DEF Onward, TellsOf
    <3>4. \A j \in Calls : Onward(j)
      BY <3>1, <3>3, SameOnward
    <3>5. Known'
      BY <2>0, <3>0, <3>1, <3>2 DEF Undisturbed, Known, AtWork, HasStored
    <3>6. QED
      BY <2>0, <2>c, <3>2, <3>4, <3>5, KeptOn DEF Undisturbed
  <2>7. ASSUME NEW k \in Calls, NEW e \in CertReceivers, Cert!SendOk(k, e) PROVE Goal
    <3>0. PICK m : m = CallDeadline(k)
      OBVIOUS
    <3>1. /\ \A j \in Calls \ {k} : call'[j] = call[j]
          /\ call'[k].due = call[k].due /\ call'[k].leaf = call[k].leaf
          /\ call'[k].step = "send" /\ call[k].step = "send" /\ e \in call[k].to
          /\ call'[k].to = call[k].to \ {e} /\ call'[k].sent
      BY <1>0, <2>7 DEF Cert!SendOk, Cert!CallStates
    <3>2. /\ UNCHANGED <<today, leaf, info, history, failures, disturbed, overlapped>>
          /\ announced' = announced \cup {<<e, call[k].leaf, m>>}
          /\ twice' = (twice \/ (<<e, call[k].leaf, m>> \in announced /\ ~disturbed /\ m \notin overlapped))
      BY <2>7, <3>0 DEF Cert!SendOk, CallDeadline
    <3>3. m \in CertNotifyDays /\ call[k].leaf \in Cert!Certs /\ AtWork(k) /\ HasStored(k) /\ TellsNow(k)
      BY <1>0, <3>0, <3>1, DeadlineIsDue DEF Cert!TypeOK, AtWork, HasStored, TellsNow
    <3>4. info = call[k].leaf
      BY <2>0, <3>3 DEF Undisturbed, Known
    <3>5. OneCert' /\ Known'
      BY <2>0, <3>1, <3>2 DEF Undisturbed, OneCert, Known, AtWork, HasStored
    <3>6. Past'
      BY <1>n, <2>0, <3>2, <3>3, <3>4 DEF Undisturbed, Past
    <3>7. Cert!HistoryIsOfThisCert'
      BY <1>b, <2>0, <3>2 DEF Undisturbed, Cert!HistoryIsOfThisCert
    <3>8. TellsOf(k, e, call[k].leaf, m)'
      BY <3>0, <3>1 DEF TellsOf, CallDeadline
    <3>9. \A j \in Calls : Onward(j)
      <4>1. Onward(k)
        BY <3>1, <3>3 DEF Onward, TellsOf, CallDeadline
      <4>2. QED
        BY <3>1, <4>1, SameOnward
    <3>10. StillTold'
      <4>1. SUFFICES ASSUME NEW d \in CertReceivers, NEW c \in Cert!Certs, NEW n \in CertNotifyDays \ overlapped,
                            <<d, c, n>> \in announced', MayBeTold(c)'
                     PROVE IsRecorded(n)' \/ \E j \in Calls : TellsOf(j, d, c, n)'
        BY <3>2 DEF StillTold
      <4>2. CASE <<d, c, n>> \in announced
        <5>1. MayBeTold(c)
          BY <3>2, <3>9, <4>1 DEF MayBeTold, Onward
        <5>2. IsRecorded(n) \/ \E j \in Calls : TellsOf(j, d, c, n)
          BY <2>0, <4>1, <4>2, <5>1 DEF Undisturbed, StillTold
        <5>3. IsRecorded(n)' <=> IsRecorded(n)
          BY <3>2 DEF IsRecorded
        <5>4. QED
          BY <3>9, <5>2, <5>3 DEF Onward
      <4>3. CASE <<d, c, n>> \notin announced
        <5>1. d = e /\ c = call[k].leaf /\ n = m
          BY <3>2, <4>1, <4>3
        <5>2. TellsOf(k, d, c, n)'
          BY <3>0, <3>1, <5>1 DEF TellsOf, CallDeadline
        <5>3. QED
          BY <5>2
      <4>4. QED
        BY <4>2, <4>3
    <3>11. Cert!CertToldOnce'
      <4>1. SUFFICES ASSUME <<e, call[k].leaf, m>> \in announced, m \notin overlapped PROVE FALSE
        BY <1>0, <3>2 DEF Cert!CertToldOnce
      <4>2. MayBeTold(call[k].leaf)
        BY <3>3 DEF MayBeTold
      <4>3. ~IsRecorded(m)
        BY <1>0, <3>0, <3>3, <4>1 DEF CallsInv, Uncovered, IsRecorded
      <4>4. PICK j \in Calls : TellsOf(j, e, call[k].leaf, m)
        BY <2>0, <3>3, <4>1, <4>2, <4>3 DEF Undisturbed, StillTold
      <4>5. j # k /\ TellsNow(j)
        BY <1>0, <3>1, <4>4 DEF TellsOf, Marked
      <4>6. CallDeadline(k) \in overlapped
        BY <1>0, <3>3, <4>5 DEF CallsInv, Alone
      <4>7. QED
        BY <3>0, <4>1, <4>6
    <3>12. QED
      BY <3>5, <3>6, <3>7, <3>10, <3>11 DEF Undisturbed
  <2>8. ASSUME NEW k \in Calls, NEW d \in CertReceivers, Cert!SendError(k, d) PROVE Goal
    <3>1. /\ \A j \in Calls \ {k} : call'[j] = call[j]
          /\ call'[k].due = call[k].due /\ call'[k].leaf = call[k].leaf /\ call'[k].sent = call[k].sent
          /\ call'[k].to = call[k].to \ {d} /\ call'[k].step = "send" /\ call[k].step = "send"
          /\ UNCHANGED <<today, leaf, info, history, failures, Cert!chist>>
      BY <1>0, <2>8 DEF Cert!SendError, Cert!CallStates
    <3>2. Onward(k)
      BY <3>1 DEF AtWork, Onward, TellsOf, CallDeadline
    <3>3. \A j \in Calls : Onward(j)
      BY <3>1, <3>2, SameOnward
    <3>4. Known'
      BY <2>0, <3>1 DEF Undisturbed, Known, AtWork, HasStored
    <3>5. QED
      BY <2>0, <2>c, <3>1, <3>3, <3>4, KeptOn DEF Undisturbed, Cert!chist
  <2>9. ASSUME NEW k \in Calls, Cert!Sent(k) PROVE Goal
    <3>1. /\ \A j \in Calls \ {k} : call'[j] = call[j]
          /\ call'[k].leaf = call[k].leaf /\ call'[k].sent = call[k].sent /\ call[k].step = "send"
          /\ call'[k].to = call[k].to /\ call'[k].step \in {"record", "next"}
          /\ call[k].sent => call'[k].due = call[k].due
          /\ UNCHANGED <<today, leaf, info, history, failures, Cert!chist>>
      BY <1>0, <2>9 DEF Cert!Sent, Cert!CallStates
    <3>2. Onward(k)
      BY <3>1 DEF AtWork, Onward, TellsOf, CallDeadline
    <3>3. \A j \in Calls : Onward(j)
      BY <3>1, <3>2, SameOnward
    <3>4. Known'
      BY <2>0, <3>1 DEF Undisturbed, Known, AtWork, HasStored
    <3>5. QED
      BY <2>0, <2>c, <3>1, <3>3, <3>4, KeptOn DEF Undisturbed, Cert!chist
  <2>10. ASSUME NEW k \in Calls, Cert!Record(k) PROVE Goal
    <3>0. PICK m : m = CallDeadline(k)
      OBVIOUS
    <3>1. /\ \A j \in Calls \ {k} : call'[j] = call[j]
          /\ call[k].step = "record" /\ call'[k].step \in {"idle", "next"}
          /\ AtWork(k)' => call'[k].leaf = call[k].leaf
          /\ UNCHANGED <<today, leaf, info, failures, Cert!chist>> /\ history' = history \cup {m}
      BY <1>0, <2>10, <3>0 DEF Cert!Record, Cert!CallStates, Cert!NoCall, AtWork, CallDeadline
    <3>2. AtWork(k) /\ HasStored(k) /\ call[k].sent /\ m \in CertNotifyDays
      BY <1>0, <3>0, <3>1, DeadlineIsDue DEF AtWork, HasStored, Cert!TypeOK
    <3>3. info = call[k].leaf /\ info # Nothing
      BY <1>0, <1>n, <2>0, <3>2 DEF Undisturbed, Known, Cert!TypeOK, AtWork
    <3>4. \A j \in Calls : AtWork(j) => call[j].leaf = info
      BY <2>0, <3>2, <3>3 DEF Undisturbed, OneCert
    <3>5. \A j \in Calls : AtWork(j)' => AtWork(j) /\ call'[j].leaf = call[j].leaf
      BY <3>1, <3>2 DEF AtWork
    <3>6. OneCert' /\ Known' /\ Past'
      <4>1. OneCert'
        BY <3>4, <3>5 DEF OneCert
      <4>2. Known'
        BY <1>n, <3>1, <3>3, <3>4, <3>5 DEF Known
      <4>3. Past'
        BY <2>0, <3>1, <3>3 DEF Undisturbed, Past, Cert!chist
      <4>4. QED
        BY <4>1, <4>2, <4>3
    <3>7. Cert!HistoryIsOfThisCert'
      <4>1. PICK d \in CertReceivers : <<d, info, m>> \in announced
        BY <1>0, <3>0, <3>2, <3>3 DEF CallsInv, SaidIt
      <4>2. QED
        BY <1>b, <2>0, <3>1, <4>1 DEF Undisturbed, Cert!HistoryIsOfThisCert, Cert!chist
    <3>8. StillTold'
      <4>1. SUFFICES ASSUME NEW d \in CertReceivers, NEW c \in Cert!Certs, NEW n \in CertNotifyDays \ overlapped,
                            <<d, c, n>> \in announced, MayBeTold(c)'
                     PROVE IsRecorded(n)' \/ \E j \in Calls : TellsOf(j, d, c, n)'
        BY <3>1 DEF StillTold, Cert!chist
      <4>2. MayBeTold(c)
        BY <3>1, <3>5, <4>1 DEF MayBeTold
      <4>3. IsRecorded(n) \/ \E j \in Calls : TellsOf(j, d, c, n)
        BY <2>0, <4>1, <4>2 DEF Undisturbed, StillTold
      <4>4. CASE IsRecorded(n)
        BY <3>1, <4>4 DEF IsRecorded
      <4>5. CASE \E j \in Calls : TellsOf(j, d, c, n)
        <5>1. PICK j \in Calls : TellsOf(j, d, c, n)
          BY <4>5
        <5>2. CASE j = k
          <6>1. n = m /\ m \in Nat
            BY <3>0, <3>2, <5>1, <5>2, CertDaysAreNat DEF TellsOf
          <6>2. QED
            BY <3>1, <6>1 DEF IsRecorded
        <5>3. CASE j # k
          <6>1. TellsOf(j, d, c, n)'
            BY <3>1, <5>1, <5>3 DEF TellsOf, CallDeadline
          <6>2. QED
            BY <6>1
        <5>4. QED
          BY <5>2, <5>3
      <4>6. QED
        BY <4>3, <4>4, <4>5
    <3>9. QED
      BY <1>0, <3>1, <3>6, <3>7, <3>8 DEF Undisturbed, Cert!CertToldOnce, Cert!chist
  <2>11. ASSUME Cert!NextDay PROVE Goal
    <3>1. Known'
      BY <2>0, <2>11 DEF Cert!NextDay, Undisturbed, Known, AtWork, HasStored
    <3>2. QED
      BY <2>0, <2>11, <2>c, <2>d, <3>1, KeptOn DEF Cert!NextDay, Undisturbed, Cert!chist
  <2>12. ASSUME Cert!RenewCert PROVE Goal
    <3>1. leaf' > leaf /\ leaf' \in Nat
      BY <1>0, <1>n, <2>12, CertDaysAreNat DEF Cert!RenewCert, Aged, Cert!TypeOK, Cert!CertAssumption
    <3>2. UNCHANGED <<today, info, history, call, failures, Cert!chist>>
      BY <2>12 DEF Cert!RenewCert
    <3>3. OneCert' /\ Known'
      BY <2>0, <3>2 DEF Undisturbed, OneCert, Known, AtWork, HasStored
    <3>4. StillTold'
      <4>1. SUFFICES ASSUME NEW d \in CertReceivers, NEW c \in Cert!Certs, NEW n \in CertNotifyDays \ overlapped,
                            <<d, c, n>> \in announced, MayBeTold(c)'
                     PROVE IsRecorded(n)' \/ \E j \in Calls : TellsOf(j, d, c, n)'
        BY <3>2 DEF StillTold, Cert!chist
      <4>2. c <= info /\ info <= leaf /\ info # Nothing
        BY <1>0, <2>0, <4>1 DEF Undisturbed, Past, Aged
      <4>3. c # leaf'
        BY <1>n, <3>1, <4>2
      <4>4. MayBeTold(c)
        BY <3>2, <4>1, <4>3 DEF MayBeTold, AtWork
      <4>5. IsRecorded(n) \/ \E j \in Calls : TellsOf(j, d, c, n)
        BY <2>0, <4>1, <4>4 DEF Undisturbed, StillTold
      <4>6. QED
        BY <3>2, <4>5 DEF IsRecorded, TellsOf, CallDeadline
    <3>5. QED
      BY <2>c, <3>2, <3>3, <3>4 DEF Undisturbed, Cert!chist
  <2>13. ASSUME Cert!Crash PROVE Goal
    <3>1. /\ \A k \in Calls : ~AtWork(k)'
          /\ \A k \in Calls : ~TellsNow(k)
          /\ UNCHANGED <<today, leaf, info, history, announced, twice, overlapped>>
      BY <2>13, <2>b DEF Cert!Crash, Cert!NoCall, AtWork, TellsNow
    <3>2. OneCert' /\ Known'
      BY <3>1 DEF OneCert, Known
    <3>3. StillTold'
      <4>1. SUFFICES ASSUME NEW d \in CertReceivers, NEW c \in Cert!Certs, NEW n \in CertNotifyDays \ overlapped,
                            <<d, c, n>> \in announced, MayBeTold(c)'
                     PROVE IsRecorded(n)'
        BY <3>1 DEF StillTold
      <4>2. MayBeTold(c)
        BY <3>1, <4>1 DEF MayBeTold
      <4>3. \A j \in Calls : ~TellsOf(j, d, c, n)
        BY <1>0, <3>1 DEF TellsOf, Marked
      <4>4. IsRecorded(n)
        BY <2>0, <4>1, <4>2, <4>3 DEF Undisturbed, StillTold
      <4>5. QED
        BY <3>1, <4>4 DEF IsRecorded
    <3>4. QED
      BY <2>c, <3>1, <3>2, <3>3 DEF Undisturbed
  <2>14. QED
    BY <2>1, <2>2, <2>3, <2>4, <2>5, <2>6, <2>7, <2>8, <2>9, <2>10, <2>11, <2>12, <2>13
    DEF Cert!Next, Cert!Step, Cert!Deliver
<1>1. QED
  BY <1>a, <1>b

LEMMA CertInit == ASSUME Cert!CertAssumption PROVE Cert!Init => CertInv
<1> SUFFICES ASSUME Cert!Init PROVE CertInv
  OBVIOUS
<1>1. CertTypesOK
  BY CertTypeInit
<1>2. \A k \in Calls : ~AtWork(k) /\ ~TellsNow(k) /\ ~call[k].sent /\ call[k].step = "idle"
  BY DEF Cert!Init, AtWork, TellsNow, Cert!NoCall
<1>3. CallsInv
  BY <1>1, <1>2 DEF Cert!Init, CallsInv, Aged, Marked, Alone, Uncovered, SaidIt, Cert!CertAssumption
<1>4. Undisturbed
  BY <1>2 DEF Cert!Init, Undisturbed, OneCert, Known, Past, StillTold, Cert!HistoryIsOfThisCert
<1>5. QED
  BY <1>3, <1>4 DEF Cert!Init, CertInv, Cert!CertToldOnce

\* The stored certificate, the rows of notification_sent_history and the calls of handleTlsInfo()
\* in progress (server/model/monitor.js) have the types declared for them.
THEOREM CertTypes == ASSUME Cert!CertAssumption PROVE Cert!Spec => []Cert!TypeOK
<1>1. CertTypesOK => Cert!TypeOK
  BY DEF CertTypesOK
<1>2. QED
  BY <1>1, CertTypeInit, CertTypeStep, PTL DEF Cert!Spec

\* sendCertNotificationByTargetDays() tells a destination of a certificate and a deadline once,
\* across heartbeats, renewals and restarts, for any number of calls, unless calls for two
\* certificates or for one deadline overlap or a crash loses what was sent.
THEOREM CertToldOnceHolds == ASSUME Cert!CertAssumption PROVE Cert!Spec => []Cert!CertToldOnce
<1>1. CertInv => Cert!CertToldOnce
  BY DEF CertInv
<1>2. QED
  BY <1>1, CertInit, CertStep, PTL DEF Cert!Spec

\* updateTlsInfo() never leaves a deadline in notification_sent_history that nobody was told of
\* for the certificate that is stored, unless calls for two certificates overlapped.
THEOREM HistoryHolds == ASSUME Cert!CertAssumption PROVE Cert!Spec => []Cert!HistoryIsOfThisCert
<1>1. CertInv => Cert!HistoryIsOfThisCert
  BY DEF CertInv, Undisturbed, Cert!HistoryIsOfThisCert
<1>2. QED
  BY <1>1, CertInit, CertStep, PTL DEF Cert!Spec

================================================================================
