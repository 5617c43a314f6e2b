----------------------------- MODULE MonitorTypes -----------------------------
(***************************************************************************)
(* One check of one monitor, by its type (server/monitor-types and the types  *)
(* that beat() of model/monitor.js checks itself).                            *)
(*                                                                           *)
(* beat() makes a heartbeat that is DOWN, or UP in upside-down mode, and the    *)
(* check turns it into what it found: it sets the status and returns, or        *)
(* throws.  A type is here what its check() awaits and in which order it sets    *)
(* the status: a set of plans, and a plan is a sequence of steps.  What is asked  *)
(* for and how the answer is compared is left out; that a comparison may fail is   *)
(* a step.                                                                        *)
(***************************************************************************)
EXTENDS Naturals, Sequences

VARIABLES
  type, upside,  \* the monitor
  plan,          \* steps left
  tries,         \* how often a step may be tried yet
  status,        \* of the heartbeat
  found,         \* history: the status the check set last, "none" before
  open,          \* a connection of the check is open
  mute,          \* who has stopped answering: the service, the destinations of notices
  stage          \* "none", "checking", "returned", "thrown"

tvars == <<type, upside, plan, tries, status, found, open, mute, stage>>

\* beat() without retries, upside down or not.
Straight == INSTANCE HeartbeatRules WITH
  MaxRetries <- 0, ResendInterval <- 0, UpsideDown <- FALSE, OnlyStatusCode <- FALSE
Reversed == INSTANCE HeartbeatRules WITH
  MaxRetries <- 0, ResendInterval <- 0, UpsideDown <- TRUE, OnlyStatusCode <- FALSE

UP       == Straight!UP
DOWN     == Straight!DOWN
Statuses == Straight!Statuses

-----------------------------------------------------------------------------
(* Steps.  A request that the code gives a time limit fails when the service stays silent; of one
   without, only a driver's own limit is left, which is not the code's. *)

Step(does)     == [does |-> does, limited |-> TRUE, attempts |-> 1, again |-> "any", lands |-> DOWN]
Ask            == Step("ask")
Open           == Step("open")
Unlimited(step) == [step EXCEPT !.limited = FALSE]
\* Up to n attempts, of which one must succeed, after any failure or only after some.
Attempts(n, step)  == [step EXCEPT !.attempts = n]
Sometimes(n, step) == [step EXCEPT !.attempts = n, !.again = "some"]
\* Its failure is ignored.
Spare          == Step("spare")
\* A comparison, a file, something in the database: it may throw, and waits for nobody outside.
Test           == Step("test")
Close          == Step("close")
Set(s)         == [Step("set") EXCEPT !.lands = s]
Up             == Set(UP)

\* `closes`: the ends at which a check closes what it opened, by a finally or in a handler.
\* `custom`: allowCustomStatus, or a type that beat() lets end with any status.
Ends        == {"return", "failure", "timeout"}
Type(plans) == [plans |-> plans, closes |-> {}, custom |-> FALSE]
Closing(t)  == [t EXCEPT !.closes = Ends]
Custom(t)   == [t EXCEPT !.custom = TRUE]

\* sendCertNotificationByTargetDays(): a notice of a certificate is awaited, however long its
\* delivery takes; a failed one is only logged.
CertNotices == Unlimited(Step("tell"))

\* A step that the settings of the monitor add in front.
Maybe(step, plans) == plans \cup {<<step>> \o p : p \in plans}

\* getOidcTokenClientCredentials().
Token     == Ask
\* checkCertificate() and checkStatusCode(): they compare, or throw at what they cannot read.
Certified == Test
Accepted  == Test
\* handleTlsInfo(): what was found is stored; if it is to expire soon, this is told and recorded.
TlsHandled == {<<Certified>>, <<Certified, CertNotices, Test>>}
\* evaluateJsonQuery(), and evaluateExpressionGroup() of the conditions.
JsonQuery  == Test
Conditions == Test
\* ping(): again with IPv6 if there was no message.
Pinged    == Sometimes(2, Ask)
\* makeAxiosRequest(): again with a new token or with other encodings.
Requested == {<<Sometimes(2, Ask)>>, <<Ask, Token, Ask>>}

-----------------------------------------------------------------------------
(* The types of server/monitor-types *)

\* The worst status of the children, which are read one by one; DOWN is thrown.
GroupMonitorType ==
  Custom(Type({<<Test, Set("PENDING")>>, <<Test, Up>>}))

ManualMonitorType == Custom(Type({<<Set(s)>> : s \in {UP, DOWN, "PENDING"}}))

\* The resolver, then the records, which are also stored in the monitor.
Resolvers  == Unlimited(Ask)
dnsResolve == Unlimited(Ask)
DnsMonitorType == Type({<<Test, Resolvers, dnsResolve, Conditions, Up>>})

GameDigMonitorType == Type({<<Unlimited(Ask), Up>>})

\* One more attempt if the API fails (500), then the result is waited for; of a request the TLS
\* information is stored as well.  A subtype that is none of the three returns at once.
Measured         == <<Sometimes(2, Unlimited(Ask)), Unlimited(Ask), Test>>
globalpingAnswer == Test
globalpingTLS    == TlsHandled
globalpingHttp   == Maybe(Token, {Measured \o <<Accepted, globalpingAnswer, Up>>,
                                  Measured \o <<Accepted, Up>>}
                           \cup {Measured \o <<Accepted>> \o h \o <<Up>> : h \in globalpingTLS})
globalpingDns    == {Measured \o <<globalpingAnswer, Up>>, Measured \o <<Up>>}
GlobalpingMonitorType ==
  Type({<<Test>> \o p : p \in {<<>>, Measured \o <<Up>>} \cup globalpingHttp \cup globalpingDns})

\* The client is never closed.
GrpcKeywordMonitorType == Type({<<Unlimited(Open), Unlimited(Ask), Test, Up>>})

MongodbMonitorType == Type({<<Test, Unlimited(Open), Unlimited(Ask), Close, Test, Up>>})

\* mutant: the status is set as soon as a message has arrived
MqttMonitorType_UpBeforeCheck == Closing(Type({<<Open, Ask, Up, Test>>}))

\* One limit for the connection and the message, which is then compared.
MqttCompared    == Test
MqttMonitorType == Closing(Type({<<Open, Ask, MqttCompared, Up>>}))

\* mutant: no finally
PostgresMonitorType_LeftOpen == Type({<<Unlimited(Open), Unlimited(Ask), Close, Up>>})

PostgresMonitorType == Closing(Type({<<Unlimited(Open), Unlimited(Ask), Up>>}))
MssqlMonitorType    == Closing(Type({<<Unlimited(Open), Unlimited(Ask), Up>>,
                                   <<Unlimited(Open), Unlimited(Ask), Conditions, Up>>}))
MysqlMonitorType    == MssqlMonitorType
OracleDbMonitorType == MssqlMonitorType

\* mutant: the timer is armed when the name has been looked up
NTPMonitorType_LateTimer == Closing(Type({<<Test, Unlimited(Ask), Open, Ask, Test, Up>>}))

NTPMonitorType == Closing(Type({<<Test, Ask, Open, Ask, Test, Up>>}))

PM2MonitorType == Type({<<Ask, Test, Up>>})

\* Each of two nodes, until one is well.
RabbitMqMonitorType == Type({<<Test, Attempts(2, Ask), Up>>})

\* The context is closed whatever happens, which may fail itself.
RealBrowserMonitorType ==
  Closing(Type({<<Test, Unlimited(Open), Test, Ask, Unlimited(Ask), Test, Up, Unlimited(Ask)>>}))

\* The client is closed by its own errors and after the ping, but not when the ping fails.
RedisMonitorType == Type({<<Unlimited(Open), Unlimited(Ask), Close, Up>>})

SFTPMonitorType == Closing(Type({<<Test, Open, Up>>, <<Test, Open, Unlimited(Ask), Up>>}))

\* Output without "200 OK" is passed over in silence.
SIPMonitorType == Type({<<Ask, Up>>, <<Ask>>})

SMTPMonitorType == Closing(Type({<<Unlimited(Open), Up>>}))
SNMPMonitorType == Closing(Type({<<Test, Open, Ask, JsonQuery, Up>>}))

SteamMonitorType == Type({<<Test, Unlimited(Ask), Ask, Accepted, Test, Up, Spare>>, <<Test, Ask, Accepted, Test, Up, Spare>>})

SystemServiceMonitorType == Type({<<Test, Ask, Up>>})

\* "pong from" sets the status before the time is read; empty lines are passed over.
TailscalePing == Type({<<Ask, Test, Up, Test>>, <<Ask>>})

\* The port; with a certificate to watch, the TLS connection after it, which is open while the
\* notices are sent; or an expected TLS alert.
tcping             == Ask
StartTls           == <<Open, Ask>>
CertificateChecked == {<<Open>> \o h : h \in TlsHandled}
TlsAlert           == {<<Open>> \o h \o <<Up>> : h \in TlsHandled}
TCPMonitorType ==
  Closing(Type({<<tcping, Up>>} \cup TlsAlert
               \cup {<<tcping, Up>> \o s \o c : s \in {<<>>, StartTls}, c \in CertificateChecked}))

\* mutant: the close code is not compared
WebSocketMonitorType_AnyCode == Closing(Type(Maybe(Token, {<<Open, Up>>, <<Open>>})))

WebSocketMonitorType == Closing(Type(Maybe(Token, {<<Open, Accepted, Up>>})))

(* The types in beat() *)

\* A token, the request with a limit and an abort signal, the TLS information (which the check
\* waits for if no event has brought it), the answer.
Answered == {h \o t : h \in {<<>>} \cup TlsHandled, t \in {<<>>, <<Test>>, <<JsonQuery>>}}
http == Type(Maybe(Token, {<<Test>> \o r \o a \o <<Up>> : r \in Requested, a \in Answered}))
pingType == Type({<<Pinged, Up>>})
docker ==
  Custom(Type({<<Test, Ask, Test, Up>>, <<Test, Ask, Test, Set("PENDING")>>}))
radius == Type({<<Ask, Up>>})

\* The producer is disconnected when it fails, but not when it succeeds or the time is over.
kafkaProducer == [Type({<<Open, Ask, Up>>}) EXCEPT !.closes = {"failure"}]

\* UptimeKumaServer.monitorTypeList and the branches of beat() ("push" is HeartbeatChain's).
monitorTypeList == [
  http |-> http, ping |-> pingType, docker |-> docker, radius |-> radius,
  kafkaProducer |-> kafkaProducer, realBrowser |-> RealBrowserMonitorType,
  tailscalePing |-> TailscalePing, websocketUpgrade |-> WebSocketMonitorType,
  dns |-> DnsMonitorType, postgres |-> PostgresMonitorType, mqtt |-> MqttMonitorType,
  smtp |-> SMTPMonitorType, group |-> GroupMonitorType, snmp |-> SNMPMonitorType,
  grpcKeyword |-> GrpcKeywordMonitorType, mongodb |-> MongodbMonitorType,
  rabbitmq |-> RabbitMqMonitorType, sftp |-> SFTPMonitorType, sipOptions |-> SIPMonitorType,
  gamedig |-> GameDigMonitorType, steam |-> SteamMonitorType, port |-> TCPMonitorType,
  manual |-> ManualMonitorType, globalping |-> GlobalpingMonitorType, redis |-> RedisMonitorType,
  systemService |-> SystemServiceMonitorType, pm2 |-> PM2MonitorType,
  sqlserver |-> MssqlMonitorType, mysql |-> MysqlMonitorType, oracledb |-> OracleDbMonitorType,
  ntp |-> NTPMonitorType ]

Types == DOMAIN monitorTypeList

\* Whom a check may wait for.
Others == {"service", "destinations"}

-----------------------------------------------------------------------------
TypeOK ==
  /\ type \in Types \cup {"none"}
  /\ upside \in BOOLEAN /\ open \in BOOLEAN /\ mute \subseteq Others
  /\ tries \in 0..2
  /\ status \in Statuses /\ found \in Statuses \cup {"none"}
  /\ stage \in {"none", "checking", "returned", "thrown"}

Init ==
  /\ type = "none" /\ upside = FALSE /\ plan = <<>> /\ tries = 0
  /\ status = DOWN /\ found = "none"
  /\ open = FALSE /\ mute = {} /\ stage = "none"

\* The check has these steps left.
Proceed(steps) ==
  /\ plan' = steps
  /\ tries' = IF steps = <<>> THEN 0 ELSE Head(steps).attempts
  /\ stage' = IF steps = <<>> THEN "returned" ELSE "checking"

\* beat(): the heartbeat as it is before the check, and the check of the type.
Check(t, mirrored) ==
  /\ stage = "none"
  /\ type' = t /\ upside' = mirrored
  /\ status' = IF mirrored THEN Straight!flipStatus(DOWN) ELSE DOWN
  /\ \E p \in monitorTypeList[t].plans : Proceed(p)
  /\ UNCHANGED <<found, open, mute>>

AtStep(kinds) == stage = "checking" /\ plan # <<>> /\ Head(plan).does \in kinds

\* What a check has open is closed at its end, if its type sees to that.
Closed(end) == open' = (open /\ end \notin monitorTypeList[type].closes)
EndOf(steps) == IF steps = <<>> THEN "return" ELSE "none"

Throw(end) ==
  /\ stage' = "thrown" /\ plan' = <<>> /\ tries' = 0
  /\ Closed(end)
  /\ UNCHANGED <<type, upside, status, found, mute>>

\* The kinds of steps, and those that wait for somebody who is silent.
Kinds == {"ask", "open", "spare", "test", "close", "set", "tell"}
Unanswered == (IF "service" \in mute THEN {"ask", "open", "spare"} ELSE {})
              \cup (IF "destinations" \in mute THEN {"tell"} ELSE {})

\* The next step succeeds.
Succeed ==
  /\ AtStep(Kinds \ Unanswered)
  /\ Proceed(Tail(plan))
  /\ CASE Head(plan).does = "open"  -> open' = (EndOf(Tail(plan)) \notin monitorTypeList[type].closes)
       [] Head(plan).does = "close" -> open' = FALSE
       [] OTHER                     -> Closed(EndOf(Tail(plan)))
  /\ IF Head(plan).does = "set"
       THEN status' = Head(plan).lands /\ found' = Head(plan).lands
       ELSE UNCHANGED <<status, found>>
  /\ UNCHANGED <<type, upside, mute>>

\* An attempt fails: there is another one, or the check throws, or goes on if it was a spare one.
Failed(end) ==
  \/ /\ Head(plan).does = "spare"
     /\ Proceed(Tail(plan)) /\ Closed(EndOf(Tail(plan)))
     /\ UNCHANGED <<type, upside, status, found, mute>>
  \/ /\ tries > 1
     /\ tries' = tries - 1
     /\ UNCHANGED <<type, upside, plan, status, found, open, mute, stage>>
  \/ /\ Head(plan).does # "spare" /\ (tries > 1 => Head(plan).again = "some")
     /\ Throw(end)

\* The service, or the comparison, says no.
Fail ==
  /\ AtStep({"ask", "open", "spare", "test"} \ Unanswered)
  /\ Failed("failure")

\* The time limit that the code has set passes.
TimeOut ==
  /\ AtStep({"ask", "open", "spare"}) /\ Head(plan).limited
  /\ Failed("timeout")

\* From now on nobody answers any more.
FallSilent(who) ==
  /\ stage = "checking" /\ who \notin mute
  /\ mute' = mute \cup {who}
  /\ UNCHANGED <<type, upside, plan, tries, status, found, open, stage>>

Next ==
  \/ \E t \in Types, mirrored \in BOOLEAN : Check(t, mirrored)
  \/ Succeed \/ Fail \/ TimeOut
  \/ \E who \in Others : FallSilent(who)

\* The code runs, time passes, and whoever is not silent answers.
Goes == Succeed \/ Fail
Fairness == WF_tvars(Goes) /\ WF_tvars(TimeOut)

Spec == Init /\ [][Next]_tvars /\ Fairness

-----------------------------------------------------------------------------
(* The heartbeat that comes of it *)

\* How the check ends for beat(): an implementation that returns without UP "must throw error".
outcome ==
  IF stage = "thrown" \/ (status # UP /\ ~monitorTypeList[type].custom)
  THEN IF status = UP /\ ~upside THEN "lateError" ELSE "error"
  ELSE status

verdict == (IF upside THEN Reversed!beatResult(outcome, 0) ELSE Straight!beatResult(outcome, 0)).status

-----------------------------------------------------------------------------
(* Properties *)

Ended == stage \in {"returned", "thrown"}

\* Checks that set the status to UP and may throw after that, and checks that may return without
\* a word.
SetsUpEarly == {"port", "realBrowser", "tailscalePing"}
MayBeMute   == {"sipOptions", "tailscalePing", "globalping"}

\* The heartbeat says of the service what the check has found out: UP if it returned having found
\* the service up, and the opposite in upside-down mode.  There are two ways for it not to: a
\* check that throws after it has set UP leaves an UP heartbeat, and one that returns without
\* having set anything is taken for a success upside down, the heartbeat having been UP before.
VerdictIsEarned ==
  LET good == stage = "returned" /\ found = UP
      bad  == stage = "thrown" \/ found \in {"none", DOWN}
  IN Ended =>
       \/ good /\ verdict = (IF upside THEN DOWN ELSE UP)
       \/ bad /\ verdict = (IF upside THEN UP ELSE DOWN)
       \/ stage = "returned" /\ found = "PENDING" /\ verdict = "PENDING"
       \/ type \in SetsUpEarly /\ stage = "thrown" /\ found = UP /\ ~upside
       \/ type \in MayBeMute /\ stage = "returned" /\ found = "none" /\ upside

\* Types whose clients stay open when a command fails, or always.
LeavesOpen == {"redis", "mongodb", "grpcKeyword", "kafkaProducer"}

\* A check closes what it opened, however it ends.
NothingLeftOpen == Ended /\ type \notin LeavesOpen => ~open

\* What a check is worth.
ChecksAreSound == VerdictIsEarned /\ NothingLeftOpen

\* Types that ask something without a limit of their own.
Patient ==
  {"dns", "gamedig", "globalping", "grpcKeyword", "mongodb", "postgres", "sqlserver", "mysql",
   "oracledb", "realBrowser", "redis", "sftp", "smtp", "steam"}

\* The check waits for a destination that does not answer to a notice of a certificate, for ever.
Untold == AtStep({"tell"}) /\ "destinations" \in mute

\* A check of any other type ends even if the service falls silent at any point, so that the
\* monitor goes on beating, unless it hangs on a notice about a certificate.
ChecksEnd == stage = "checking" /\ type \notin Patient ~> Ended \/ Untold

===============================================================================
