------------------------------ MODULE CertExpiry ------------------------------
(***************************************************************************)
(* The notices that a certificate of a monitored server will expire:         *)
(* handleTlsInfo and updateTlsInfo (server/model/monitor.js) with             *)
(* checkCertExpiryNotifications (server/util-server.js).                      *)
(*                                                                           *)
(* For an HTTPS monitor the call is made by a listener of the TLS socket,    *)
(* which the heartbeat does not await: a call that waits for a slow          *)
(* notification service overlaps with the calls of later heartbeats.  What   *)
(* was sent is remembered per monitor and deadline in                        *)
(* notification_sent_history, without the certificate it was sent for.       *)
(***************************************************************************)
EXTENDS Integers

CONSTANTS
  Calls,          \* handleTlsInfo() of this monitor that may be in progress together
  CertReceivers,  \* the notification destinations of the monitor
  CertNotifyDays, \* the setting tlsExpiryNotifyDays
  Validity,       \* days for which the server's certificate is issued
  IssuerEnd,      \* day on which the intermediate certificate expires
  LastDay,        \* bound: days that pass
  CertCrashes,    \* bound: crashes
  Nothing         \* no row in monitor_tls_info

\* What an instance has to satisfy.
CertAssumption ==
  /\ CertNotifyDays \subseteq (Nat \ {0})
  /\ Validity \in Nat /\ IssuerEnd \in Nat /\ LastDay \in Nat /\ CertCrashes \in Nat
  /\ Nothing \notin Nat

VARIABLES
  today,
  leaf,          \* environment: the certificate the server presents, named by the day it expires
  info,          \* monitor_tls_info: the certificate stored for the monitor
  history,       \* notification_sent_history: the deadlines of this monitor
  call,          \* handleTlsInfo(): step, certificate, row found, notices due, whom to tell, success
  failures,      \* crashes so far
  announced,     \* history variable: <<destination, certificate, deadline>> told
  twice,         \* history variable: ... and told again for no good reason
  disturbed,     \* history variable: calls around a renewal overlapped, or a crash lost a notice
  overlapped     \* history variable: deadlines that two calls were telling at the same time

cvars == <<today, leaf, info, history, call, failures, announced, twice, disturbed, overlapped>>
chist == <<announced, twice, disturbed, overlapped>>

Certs   == 0..(LastDay + Validity)
Notices == [days : CertNotifyDays, cert : {"leaf", "issuer"}]
NoCall  == [step |-> "idle", leaf |-> Nothing, found |-> Nothing, due |-> {}, to |-> {},
            sent |-> FALSE]
CallStates ==
  [step : {"idle", "find", "reset", "store", "next", "send", "record"},
   leaf : Certs \cup {Nothing}, found : Certs \cup {Nothing}, due : SUBSET Notices,
   to : SUBSET CertReceivers, sent : BOOLEAN]

TypeOK ==
  /\ today \in 0..LastDay /\ leaf \in Certs
  /\ info \in Certs \cup {Nothing}
  /\ history \subseteq CertNotifyDays
  /\ call \in [Calls -> CallStates]
  /\ \A k \in Calls :
       /\ call[k].step # "idle" => call[k].leaf \in Certs
       /\ call[k].step \in {"send", "record"} => call[k].due # {}
       /\ call[k].step = "record" => call[k].sent
  /\ failures \in 0..CertCrashes
  /\ announced \subseteq CertReceivers \X Certs \X CertNotifyDays
  /\ overlapped \subseteq CertNotifyDays

Init ==
  /\ today = 0 /\ leaf = Validity
  /\ info = Nothing /\ history = {}
  /\ call = [k \in Calls |-> NoCall]
  /\ failures = 0
  /\ announced = {} /\ twice = FALSE /\ disturbed = FALSE /\ overlapped = {}

-----------------------------------------------------------------------------
Ends == [leaf |-> leaf, issuer |-> IssuerEnd]

\* The notices due for a chain up to a known root.  Nothing is sent on the day a certificate
\* expires, since zero days count as no information.
Due == IF leaf = today THEN {} ELSE {n \in Notices : Ends[n.cert] - today <= n.days}

\* The order of the two loops: deadlines as the settings page keeps them, ascending, and for
\* each the chain.
Earliest(due) ==
  CHOOSE n \in due : \A k \in due :
    n.days < k.days \/ (n.days = k.days /\ (n.cert = "leaf" \/ k.cert = "issuer"))

Later(due) == due \ {Earliest(due)}

\* A heartbeat has connected.
Connect(k) ==
  /\ call[k].step = "idle"
  /\ call' = [call EXCEPT ![k] = [NoCall EXCEPT !.step = "find", !.leaf = leaf, !.due = Due]]
  /\ disturbed' = (disturbed \/ \E c \in Calls : call[c].step # "idle" /\ call[c].leaf # leaf)
  /\ UNCHANGED <<today, leaf, info, history, failures, announced, twice, overlapped>>

\* updateTlsInfo(): the row of the monitor, if there is one ...
FindInfo(k) ==
  /\ call[k].step = "find"
  /\ call' = [call EXCEPT ![k].found = info,
                ![k].step = IF info \in {Nothing, call[k].leaf} THEN "store" ELSE "reset"]
  /\ UNCHANGED <<today, leaf, info, history, failures, chist>>

\* mutant: what was sent for the old certificate still counts
ResetHistory_Keeps(k) ==
  /\ call[k].step = "reset"
  /\ call' = [call EXCEPT ![k].step = "store"]
  /\ UNCHANGED <<today, leaf, info, history, failures, chist>>

\* ... the certificate changed: what was sent is forgotten, a second time if two calls met the
\* old row ...
ResetHistory(k) ==
  /\ call[k].step = "reset"
  /\ history' = {}
  /\ call' = [call EXCEPT ![k].step = "store"]
  /\ disturbed' = (disturbed \/ info = call[k].leaf)
  /\ UNCHANGED <<today, leaf, info, failures, announced, twice, overlapped>>

\* ... and the row is stored.  Two calls that found none both insert one; findOne() reads the
\* first of them from then on.
StoreInfo(k) ==
  /\ call[k].step = "store"
  /\ info' = IF call[k].found = Nothing /\ info # Nothing THEN info ELSE call[k].leaf
  /\ call' = [call EXCEPT ![k].step = "next", ![k].found = Nothing]
  /\ UNCHANGED <<today, leaf, history, failures, chist>>

\* mutant: only earlier deadlines cover
Covered_Strict(n) == \E d \in history : d < n.days

\* sendCertNotificationByTargetDays(): a deadline that was sent covers the later ones.
Covered(n) == \E d \in history : d <= n.days

Telling == {k \in Calls : call[k].step \in {"send", "record"}}

NextNotice(k) ==
  LET due == call[k].due
  IN /\ call[k].step = "next"
     /\ IF due = {} \/ Covered(Earliest(due))
        THEN /\ call' = [call EXCEPT ![k] = IF due = {} THEN NoCall ELSE [@ EXCEPT !.due = Later(due)]]
             /\ UNCHANGED overlapped
        ELSE /\ call' = [call EXCEPT ![k].step = "send", ![k].to = CertReceivers]
             /\ overlapped' = overlapped \cup
                  (IF Telling = {} THEN {} ELSE {Earliest(call[c].due).days : c \in Telling \cup {k}})
     /\ UNCHANGED <<today, leaf, info, history, failures, announced, twice, disturbed>>

\* One destination after another, with or without success.
SendOk(k, d) ==
  LET told == <<d, call[k].leaf, Earliest(call[k].due).days>>
  IN /\ call[k].step = "send" /\ d \in call[k].to
     /\ call' = [call EXCEPT ![k].to = @ \ {d}, ![k].sent = TRUE]
     /\ announced' = announced \cup {told}
     /\ twice' = (twice \/ (told \in announced /\ ~disturbed /\ told[3] \notin overlapped))
     /\ UNCHANGED <<today, leaf, info, history, failures, disturbed, overlapped>>

SendError(k, d) ==
  /\ call[k].step = "send" /\ d \in call[k].to
  /\ call' = [call EXCEPT ![k].to = @ \ {d}]
  /\ UNCHANGED <<today, leaf, info, history, failures, chist>>

\* mutant: an attempt that reached nobody counts as sent
Sent_Always(k) ==
  /\ call[k].step = "send" /\ call[k].to = {}
  /\ call' = [call EXCEPT ![k].step = "record"]
  /\ UNCHANGED <<today, leaf, info, history, failures, chist>>

\* One success is enough for the deadline to count as sent.
Sent(k) ==
  /\ call[k].step = "send" /\ call[k].to = {}
  /\ call' = [call EXCEPT ![k] = IF @.sent THEN [@ EXCEPT !.step = "record"]
                                 ELSE [@ EXCEPT !.step = "next", !.due = Later(call[k].due)]]
  /\ UNCHANGED <<today, leaf, info, history, failures, chist>>

\* The deadline is unique per monitor: a second insert throws, and the call ends there.
Record(k) ==
  LET n == Earliest(call[k].due).days
  IN /\ call[k].step = "record"
     /\ history' = history \cup {n}
     /\ call' = [call EXCEPT ![k] = IF n \in history THEN NoCall
                                    ELSE [@ EXCEPT !.step = "next", !.due = Later(call[k].due), !.sent = FALSE]]
     /\ UNCHANGED <<today, leaf, info, failures, chist>>

-----------------------------------------------------------------------------
NextDay ==
  /\ today < LastDay /\ today' = today + 1
  /\ UNCHANGED <<leaf, info, history, call, failures, chist>>

RenewCert ==
  /\ leaf # today + Validity
  /\ leaf' = today + Validity
  /\ UNCHANGED <<today, info, history, call, failures, chist>>

\* A crash between the delivery and the insert loses what was sent.
Crash ==
  /\ failures < CertCrashes /\ failures' = failures + 1
  /\ call' = [k \in Calls |-> NoCall]
  /\ disturbed' = (disturbed \/ \E k \in Calls : call[k].step \in {"send", "record"})
  /\ UNCHANGED <<today, leaf, info, history, announced, twice, overlapped>>

Deliver(k) == \E d \in CertReceivers : SendOk(k, d) \/ SendError(k, d)
Step(k) == \/ FindInfo(k) \/ ResetHistory(k) \/ StoreInfo(k)
           \/ NextNotice(k) \/ Deliver(k) \/ Sent(k) \/ Record(k)

Next ==
  \/ \E k \in Calls : Connect(k) \/ Step(k)
  \/ NextDay
  \/ RenewCert
  \/ Crash

\* Heartbeats connect again and again, queries and deliveries end.
Fairness == \A k \in Calls : WF_cvars(Connect(k)) /\ WF_cvars(Step(k))

Spec == Init /\ [][Next]_cvars /\ Fairness

-----------------------------------------------------------------------------
(* Properties *)

\* A destination is told of a certificate and a deadline once, across heartbeats and restarts,
\* unless calls overlap or a crash loses what was sent.
CertToldOnce == ~twice

\* "trigger notification when TLS certificate expires in" (src/lang/en.json:473): a deadline
\* that counts as sent was announced to somebody for the very certificate that is stored, also
\* while a call is changing the two.  What was sent for an older certificate never silences it,
\* unless calls for the two overlapped.
HistoryIsOfThisCert ==
  ~disturbed => \A n \in history : \E d \in CertReceivers : <<d, info, n>> \in announced

\* A certificate that runs out is announced to somebody in the end, also when the first
\* attempts failed, if heartbeats meet it before its last day.
CertIsAnnounced ==
  (/\ <>[](leaf > today /\ \E n \in CertNotifyDays : leaf - today <= n)
   /\ <>[](~disturbed)
   /\ <>[][\A k \in Calls, d \in CertReceivers : ~SendError(k, d)]_cvars)
  => <>[](\E t \in announced : t[2] = leaf)

=============================================================================
