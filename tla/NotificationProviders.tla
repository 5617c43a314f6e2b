--------------------------- MODULE NotificationProviders ---------------------------
(***************************************************************************)
(* Sending one notification (server/notification.js and the classes under     *)
(* server/notification-providers).                                            *)
(*                                                                           *)
(* What the callers know of a send is whether its promise was resolved or     *)
(* rejected: an alert of a site check is sent again after the one and never    *)
(* after the other.  A provider is here what its send() asks of the outside    *)
(* world and how it takes the answers: a set of plans, by what the notice is   *)
(* about, and a plan is a sequence of stages.  What a message says, and how it  *)
(* is put into a request, is left out; everything that can throw on the way is  *)
(* a stage.                                                                   *)
(***************************************************************************)
EXTENDS Naturals, Sequences, FiniteSets

CONSTANT Many  \* recipients configured where a provider sends to each by itself

ProvidersAssumption == Many \in Nat \ {0}

VARIABLES
  provider, about,  \* the send
  plan,             \* stages left, the one under way first
  out,              \* recipients whose answer is outstanding
  again,            \* how often the stage may still be asked again
  noted,            \* a failure was noted and left for the end
  told,             \* history: of a recipient, how often it took the message
  trouble,          \* history: something went wrong
  promise           \* "none", "pending", "resolved", "rejected"

pvars == <<provider, about, plan, out, again, noted, told, trouble, promise>>

\* A notice without a heartbeat (a test, a certificate, a domain), of an outage, of a recovery.
Abouts == {"none", "down", "up"}

\* 0 stands for what delivers nothing: a look-up, a login, a setting, a template, the arguments.
One == {1}
All == 1..Many
Recipients == 0..Many

\* What a request comes to: taken; taken, but the answer is lost; refused in the body of a good
\* answer; told to come back later (HTTP 429); any other failure.
Results == {"ok", "lost", "denied", "busy", "error"}

-----------------------------------------------------------------------------
(* Stages.  `to` is asked at once; `mode` says what is made of a failure: "must" rejects the send,
   "note" rejects it at the end if the body says no and at once otherwise, "some" rejects it at
   the end if nobody took the message, "try" ignores it, "loose" does not wait for the answers,
   and "throw" is no request but a throw. *)

Stage(to, mode) == [to |-> to, mode |-> mode, reads |-> FALSE, tries |-> 0, retryOn |-> {}]
Reading(stage)  == [stage EXCEPT !.reads = TRUE]

\* await axios.post(...), with or without a look at the body.
Post     == Stage(One, "must")
PostRead == Reading(Post)

\* await of something that may throw and delivers nothing.
Look         == Stage({0}, "must")
SettingRead  == Look
Rendered     == Look
\* A throw before anything is sent.
Throw        == Stage({0}, "throw")

\* Promise.all over several recipients, and a loop over them, whose answers may be read.
AtOnce(to)   == IF to = {} THEN <<>> ELSE <<Stage(to, "must")>>
InTurn       == [i \in All |-> Stage({i}, "must")]
InTurnRead   == [i \in All |-> Reading(Stage({i}, "must"))]

\* The same plan whatever the notice is about; another one for a notice with a heartbeat.
Always(plans)       == [k \in Abouts |-> plans]
Beats(none, plans)  == [k \in Abouts |-> IF k = "none" THEN none ELSE plans]
\* A step that the settings of the notification add.
Maybe(steps, plans) == plans \cup {steps \o p : p \in plans}

Simple   == Always({<<Post>>})
Careful  == Always({<<PostRead>>})
Linked   == Always({<<SettingRead, Post>>})
Template == Always(Maybe(<<Rendered>>, {<<Post>>}))

-----------------------------------------------------------------------------
(* One request, whose failure alone is taken note of. *)

Alerta == Simple
Bale == Simple
Bitrix24 == Simple
CallMeBot == Simple
ClickUp == Simple
EgoSMS == Simple
Elks == Simple
Feishu == Simple
FreeMobile == Simple
GoAlert == Simple
GoogleSheets == Simple
Gorush == Simple
Gotify == Simple
GtxMessaging == Simple
HomeAssistant == Simple
Keep == Simple
Kook == Simple
Line == Simple
LunaSea == Simple
Mattermost == Simple
Milky == Simple
NotifyApp == Simple
OneBot == Simple
OneChat == Simple
Onesender == Simple
Opsgenie == Simple
Pinglet == Simple
Plivo == Simple
Pumble == Simple
Pushbullet == Simple
PushPlus == Simple
Pushy == Simple
SendGrid == Simple
ServerChan == Simple
SevenIO == Simple
SIGNL4 == Simple
SMSManager == Simple
SpugPush == Simple
Squadcast == Simple
TechulusPush == Simple
Telnyx == Simple
TurboSMTP == Simple
Twilio == Simple
WAHA == Simple
WeCom == Simple
Whapi == Simple
ZohoCliq == Simple

(* One request, whose body or status is read as well. *)

\* mutant: whether the message was taken is not read
AliyunSMS_Unread == Simple

AliyunSMS == Careful
Apprise == Careful
Bark == Careful
Brevo == Careful
Cellsynt == Careful
ClickSendSMS == Careful
DingDing == Careful
Flowtriq == Careful
HaloPSA == Careful
NextcloudTalk == Careful
PromoSMS == Careful
PushDeer == Careful
Resend == Careful
SerwerSMS == Careful
Signalgrid == Careful
SMSC == Careful
SMSPartner == Careful
SMSPlanet == Careful
VK == Careful
WPush == Careful
YZJ == Careful

(* The base URL of the server or the keys are read from the settings first. *)

AlertNow == Linked
FlashDuty == Always({<<SettingRead, PostRead>>})
HeiiOnCall == Linked
Notifery == Linked
Pushover == Linked
Stackfield == Linked
Teams == Beats({<<Post>>}, {<<SettingRead, Post>>})
Webpush == Always({<<SettingRead, SettingRead, Post>>})

\* Slack.deprecateURL(): a button URL becomes the base URL of the server if there is none.
DeprecateURL == {<<SettingRead>>, <<SettingRead, Look>>}
Slack ==
  Beats({<<Post>>},
        {<<SettingRead, Post>>, <<SettingRead, Rendered, Post>>}
          \cup {<<SettingRead>> \o d \o <<Post>> : d \in DeprecateURL})
RocketChat ==
  Beats({<<Post>>}, {<<SettingRead, Post>>} \cup {d \o <<SettingRead, Post>> : d \in DeprecateURL})

(* A template of the user's may be rendered first. *)

Evolution == Template
Matrix == Template
MaxMessenger == Template
Ntfy == Always(Maybe(<<Rendered>>, Maybe(<<Rendered>>, {<<Post>>})))
Signal == Template
SMTP == Always({<<Throw>>} \cup Maybe(<<Rendered>>, Maybe(<<Rendered>>, {<<Post>>})))
Telegram == Template
VKTeams == Always(Maybe(<<Rendered>>, {<<PostRead>>}))
Webhook == Always({<<Throw>>} \cup Maybe(<<Rendered>>, {<<Post>>}))

(* Others with one request *)

\* Whether the webhook has an avatar is looked up; nothing hangs on the answer.
Discord == Always({<<Stage({0}, "try")>> \o p : p \in Maybe(<<Rendered>>, {<<Post>>})})
Fluxer == Always({<<Stage({0}, "try")>> \o p : p \in Maybe(<<Rendered>>, {<<Post>>})})

\* mutant: every failure is tried again
GoogleChat_AlwaysAgain ==
  LET patient == [Post EXCEPT !.tries = 2, !.retryOn = Results \ {"ok"}]
  IN Beats({<<patient>>}, {<<SettingRead, patient>>})

\* Again after a while, but only if the answer says so, and up to a number of times, of which two
\* stand for the nine there can be.  The form takes no number below one; a negative one, which
\* another client may store, would post nothing and be resolved.
GoogleChat ==
  LET patient(n) == [Post EXCEPT !.tries = n, !.retryOn = {"busy"}]
  IN Always(UNION {{<<Rendered, patient(n)>>, <<SettingRead, patient(n)>>} : n \in 0..2})

GrafanaOncall == Always({<<Throw>>, <<Post>>})

\* The alert that is to be closed is looked up by its alias.
JiraServiceManagement == [Simple EXCEPT !["up"] = {<<Look, Post>>}]

Octopush == Always({<<Throw>>, <<Post>>, <<PostRead>>})

\* mutant: an outage is not reported either where recoveries are not to be
PagerDuty_QuietDown == [k \in Abouts |-> {<<SettingRead, PostRead>>} \cup IF k = "none" THEN {} ELSE {<<>>}]

\* Recoveries are reported only if that is configured.
PagerDuty == [k \in Abouts |-> {<<SettingRead, PostRead>>} \cup IF k = "up" THEN {<<>>} ELSE {}]
PagerTree == PagerDuty
Splunk == PagerDuty

Teltonika == Always({<<Throw>>, <<Reading(Look), PostRead>>})
Threema == Always({<<Throw>>, <<Post>>})

(* Several recipients *)

\* Numbers, then groups, each kind at once.
Whatsapp360messenger == Always({<<Throw>>} \cup {AtOnce(1..k) \o AtOnce((k + 1)..Many) : k \in 0..Many})

\* mutant: the loop over the numbers sends to the first one only
AmootSMS_FirstOnly == Always({<<PostRead>>})

\* One request for all numbers, whose body tells of each, or one for each.
AmootSMS ==
  Always({<<Throw>>, <<Reading(Stage(All, "must"))>>, InTurnRead})

\* One request for all; it is enough if one of them got it.
BearSMS == Always({<<Reading(Stage(All, "some"))>>})
SMSEagle == Always({<<Reading(Stage(All, "some"))>>})

\* Batches.
Ooredoo == Always({<<Throw>>, InTurnRead})
WxPusher == Always({<<Throw>>, InTurnRead})

OpenWa == Always({<<Throw>>} \cup Maybe(<<Rendered>>, {InTurn}))

\* mutant: the last answer decides
SMSGateway_Forgets == Always({[i \in All |-> Reading(Stage({i}, IF i = Many THEN "must" ELSE "try"))]})

\* The others are told even if one number failed.
SMSGateway == Always({[i \in All |-> Reading(Stage({i}, "note"))]})

\* The callback that is to make the requests returns nothing to Promise.all.
SMSIR == Always({<<Stage(All, "loose")>>})

\* A recipient is a relay here.  Every one must let itself be connected to, one must take the
\* events; what one did not take may be sent to it a second time.
Nostr ==
  LET publish(i) == [Stage({i}, "some") EXCEPT !.tries = 1, !.retryOn = Results \ {"ok"}]
  IN Always({<<Throw>>, [n \in 1..(2 * Many) |-> IF n % 2 = 1 THEN Look ELSE publish(n \div 2)]})

\* Notification.init().
providerList == [
  Alerta |-> Alerta, AlertNow |-> AlertNow, AliyunSMS |-> AliyunSMS, Apprise |-> Apprise,
  Bale |-> Bale, Bark |-> Bark, BearSMS |-> BearSMS, Bitrix24 |-> Bitrix24, ClickUp |-> ClickUp,
  ClickSendSMS |-> ClickSendSMS, CallMeBot |-> CallMeBot, SMSC |-> SMSC, DingDing |-> DingDing,
  Discord |-> Discord, Fluxer |-> Fluxer, Elks |-> Elks, EgoSMS |-> EgoSMS, Feishu |-> Feishu,
  FreeMobile |-> FreeMobile, GoogleChat |-> GoogleChat, GoogleSheets |-> GoogleSheets,
  Gorush |-> Gorush, Gotify |-> Gotify, GrafanaOncall |-> GrafanaOncall,
  HomeAssistant |-> HomeAssistant, HeiiOnCall |-> HeiiOnCall, Keep |-> Keep, Kook |-> Kook,
  Line |-> Line, LunaSea |-> LunaSea, Matrix |-> Matrix, Mattermost |-> Mattermost,
  NextcloudTalk |-> NextcloudTalk, Nostr |-> Nostr, NotifyApp |-> NotifyApp, Ntfy |-> Ntfy,
  Octopush |-> Octopush, OneChat |-> OneChat, OneBot |-> OneBot, Onesender |-> Onesender,
  Ooredoo |-> Ooredoo, Opsgenie |-> Opsgenie, JiraServiceManagement |-> JiraServiceManagement,
  PagerDuty |-> PagerDuty, FlashDuty |-> FlashDuty, Flowtriq |-> Flowtriq, PagerTree |-> PagerTree,
  Pinglet |-> Pinglet, Plivo |-> Plivo, PromoSMS |-> PromoSMS, Pumble |-> Pumble,
  Pushbullet |-> Pushbullet, PushDeer |-> PushDeer, Pushover |-> Pushover, PushPlus |-> PushPlus,
  Pushy |-> Pushy, RocketChat |-> RocketChat, ServerChan |-> ServerChan, SerwerSMS |-> SerwerSMS,
  Signal |-> Signal, Signalgrid |-> Signalgrid, SIGNL4 |-> SIGNL4, SMSManager |-> SMSManager,
  SMSPartner |-> SMSPartner, Slack |-> Slack, SMSEagle |-> SMSEagle, SMSGateway |-> SMSGateway,
  SMTP |-> SMTP, Squadcast |-> Squadcast, Stackfield |-> Stackfield, Teams |-> Teams,
  TechulusPush |-> TechulusPush, Telegram |-> Telegram, Teltonika |-> Teltonika, Telnyx |-> Telnyx,
  Threema |-> Threema, Twilio |-> Twilio, Splunk |-> Splunk, Webhook |-> Webhook, WeCom |-> WeCom,
  GoAlert |-> GoAlert, ZohoCliq |-> ZohoCliq, SevenIO |-> SevenIO, Whapi |-> Whapi, WAHA |-> WAHA,
  Evolution |-> Evolution, OpenWa |-> OpenWa, GtxMessaging |-> GtxMessaging, Cellsynt |-> Cellsynt,
  WPush |-> WPush, WxPusher |-> WxPusher, Brevo |-> Brevo, Resend |-> Resend, YZJ |-> YZJ,
  AmootSMS |-> AmootSMS, SMSPlanet |-> SMSPlanet, SpugPush |-> SpugPush, Notifery |-> Notifery,
  SMSIR |-> SMSIR, SendGrid |-> SendGrid, TurboSMTP |-> TurboSMTP, Webpush |-> Webpush,
  Whatsapp360messenger |-> Whatsapp360messenger, HaloPSA |-> HaloPSA, Max |-> MaxMessenger,
  VK |-> VK, VKTeams |-> VKTeams, Milky |-> Milky ]

Providers == DOMAIN providerList

-----------------------------------------------------------------------------
(* The services *)

\* Whose addresses are several, each told by itself.
SendsToEach ==
  {"Whatsapp360messenger", "AmootSMS", "BearSMS", "SMSEagle", "Ooredoo", "WxPusher", "OpenWa",
   "SMSGateway", "SMSIR", "Nostr"}

\* Which say no in the body of a good answer.
AnswersInBody ==
  {"AliyunSMS", "AmootSMS", "Apprise", "BearSMS", "Cellsynt", "ClickSendSMS", "DingDing", "Octopush",
   "Ooredoo", "PromoSMS", "PushDeer", "SerwerSMS", "Signalgrid", "SMSC", "SMSEagle", "SMSGateway",
   "SMSPartner", "SMSPlanet", "Teltonika", "VK", "VKTeams", "WPush", "WxPusher", "YZJ"}

Wanted == IF provider \in SendsToEach THEN All ELSE One

\* What an answer can be.  Octopush does so in its first version only.
CanAnswer(r, result) ==
  result = "denied" => provider \in AnswersInBody /\ (provider = "Octopush" => plan = <<PostRead>>)

-----------------------------------------------------------------------------
TypeOK ==
  /\ provider \in Providers \cup {"none"}
  /\ about \in Abouts
  /\ out \subseteq Recipients
  /\ again \in 0..2
  /\ noted \in BOOLEAN /\ trouble \in BOOLEAN
  /\ told \in [Recipients -> 0..3]
  /\ promise \in {"none", "pending", "resolved", "rejected"}

Init ==
  /\ provider = "none" /\ about = "none" /\ plan = <<>> /\ out = {} /\ again = 0
  /\ noted = FALSE /\ trouble = FALSE
  /\ told = [r \in Recipients |-> 0] /\ promise = "none"

\* The stages `steps` are what is left: the next requests, or the end of send().
Proceed(steps, failed, heard) ==
  /\ plan' = steps
  /\ IF steps = <<>>
       THEN /\ promise' = IF failed THEN "rejected" ELSE "resolved"
            /\ again' = 0
            /\ out' = {}
            /\ trouble' = heard
       ELSE LET stage == Head(steps)
            IN /\ out' = IF stage.mode = "throw" THEN {} ELSE stage.to
               /\ again' = stage.tries
               /\ promise' = CASE stage.mode = "throw" -> "rejected"
                               [] stage.mode = "loose" -> "resolved"
                               [] OTHER -> "pending"
               /\ trouble' = (heard \/ stage.mode = "throw")

\* Notification.send().
Call(p, k) ==
  /\ promise = "none"
  /\ provider' = p /\ about' = k
  /\ \E steps \in providerList[p][k] : Proceed(steps, FALSE, FALSE)
  /\ UNCHANGED <<noted, told>>

Took(result)  == result \in {"ok", "lost"}
\* What the code makes of it: a good answer whose body is not read is a good one.
Heard(stage, result) == result \notin {"ok", "denied"} \/ (result = "denied" /\ stage.reads)

\* mutant: Promise.all is an allSettled
Fatal_Never(stage, result) == FALSE

\* Whether it ends the send at once.
Fatal(stage, result) ==
  Heard(stage, result) /\ (stage.mode = "must" \/ (stage.mode = "note" /\ result # "denied"))

\* The answer of a recipient while send() waits for it.
Answer(r, result) ==
  LET stage == Head(plan)
      failed == noted \/ (Heard(stage, result) /\ stage.mode = "note")
      tally == [told EXCEPT ![r] = @ + IF Took(result) THEN 1 ELSE 0]
      last  == Tail(plan) = <<>> /\ out = {r}
      nobody == stage.mode = "some" /\ \A s \in All : tally[s] = 0
  IN /\ promise = "pending" /\ r \in out /\ CanAnswer(r, result)
     /\ told' = tally
     /\ IF Heard(stage, result) /\ result \in stage.retryOn /\ again > 0
          THEN again' = again - 1 /\ trouble' = TRUE /\ UNCHANGED <<plan, out, noted, promise>>
        ELSE IF Fatal(stage, result)
          THEN /\ promise' = "rejected" /\ out' = out \ {r} /\ trouble' = TRUE
               /\ UNCHANGED <<plan, again, noted>>
        ELSE IF out = {r}
          THEN /\ Proceed(Tail(plan), last /\ (failed \/ nobody), trouble \/ result # "ok")
               /\ noted' = failed
        ELSE /\ out' = out \ {r} /\ noted' = failed /\ trouble' = (trouble \/ result # "ok")
             /\ UNCHANGED <<plan, again, promise>>
     /\ UNCHANGED <<provider, about>>

\* An answer that nobody waits for any more: of the others in a Promise.all, or of SMSIR's.
Ignored(r, result) ==
  /\ promise \in {"resolved", "rejected"} /\ r \in out /\ CanAnswer(r, result)
  /\ told' = [told EXCEPT ![r] = @ + IF Took(result) THEN 1 ELSE 0]
  /\ out' = out \ {r}
  /\ UNCHANGED <<provider, about, plan, again, noted, trouble, promise>>

Next ==
  \/ \E p \in Providers, k \in Abouts : Call(p, k)
  \/ \E r \in Recipients, result \in Results : Answer(r, result) \/ Ignored(r, result)

Spec == Init /\ [][Next]_pvars

-----------------------------------------------------------------------------
(* Properties *)

\* Where one of several recipients is enough, and where nothing is waited for.
Lenient == {"BearSMS", "SMSEagle", "Nostr"}
Unawaited == {"SMSIR"}

\* A send that is resolved has told everybody it is configured for, or somebody where that is
\* enough, or is of a recovery that is not to be told of.
ResolvedIsTold ==
  promise = "resolved" =>
    \/ provider \in Unawaited
    \/ provider \in Lenient /\ \E r \in Wanted : told[r] > 0
    \/ \A r \in Wanted : told[r] > 0
    \/ about = "up" /\ provider \in {"PagerDuty", "PagerTree", "Splunk"}

\* A send is rejected for a reason.
RejectedHasAReason == promise = "rejected" => trouble

\* Nobody gets the same notice twice from one send.  Nostr's events are known by their hash.
NobodyIsToldTwice == provider # "Nostr" => \A r \in All : told[r] <= 1

\* What a caller of Notification.send() may rely on.
SendsAreHonest == ResolvedIsTold /\ RejectedHasAReason /\ NobodyIsToldTwice

===============================================================================
