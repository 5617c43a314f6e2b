--------------------------- MODULE NotificationNeeds ---------------------------
(* What each notification provider takes from its stored configuration without a fallback of its
   own: without it the request has no address, key, recipient or kind of event, or building it
   throws (server/notification-providers). One definition per provider, in the order of
   src/components/notifications/index.js. What a provider has a default for (`||`) or leaves out
   of the request when it is not there is not listed. *)
EXTENDS TLC

\* `always`: needs to be filled in; `only`: the same, under one choice of the form; `anyOf`: one of
\* them does, under one choice; `orAbsent`: may be absent, not empty (`??`); `orEmpty`: may be
\* empty, not absent (`!== ""`).
Needs(fields) == [always |-> fields, only |-> <<>>, anyOf |-> <<>>, orAbsent |-> {}, orEmpty |-> {}]

AlertaNeeds ==
  Needs({"alertaApiEndpoint", "alertaEnvironment", "alertaApiKey", "alertaAlertState",
       "alertaRecoverState"})
AlertNowNeeds == Needs({"alertNowWebhookURL"})
AliyunSMSNeeds ==
  Needs({"accessKeyId", "secretAccessKey", "phonenumber", "templateCode", "signName"})
AppriseNeeds == Needs({"appriseURL"})
BaleNeeds == Needs({"baleBotToken", "baleChatID"})
BarkNeeds == Needs({"barkEndpoint"})
BearSMSNeeds == Needs({"bearsmsUsername", "bearsmsHashKey", "bearsmsPhoneNumber"})
Bitrix24Needs == Needs({"bitrix24WebhookURL", "bitrix24UserID"})
ClickUpNeeds == Needs({"clickupToken", "clickupWorkspaceId", "clickupChannelId"})
ClickSendSMSNeeds == Needs({"clicksendsmsLogin", "clicksendsmsPassword", "clicksendsmsToNumber"})
CallMeBotNeeds == Needs({"callMeBotEndpoint"})
AmootSMSNeeds ==
  [Needs({"amootApiToken", "amootMobiles"}) EXCEPT
     !.only = [number |-> {"amootLineNumber"}, pattern |-> {"amootPatternCodeId"},
       patternOwnLine |-> {"amootPatternCodeId", "amootLineNumber"}]]
SMSCNeeds ==
  [Needs({"smscLogin", "smscPassword", "smscToNumber"}) EXCEPT
     !.orEmpty = {"smscSenderName"}]
SMSIRNeeds == Needs({"smsirApiKey", "smsirNumber", "smsirTemplate"})
DingDingNeeds ==
  [Needs({"webHookUrl", "secretKey"}) EXCEPT
     !.only = ("specify-mobiles" :> {"mobileList"} @@ "specify-users" :> {"userList"})]
DiscordNeeds ==
  [Needs({"discordWebhookUrl"}) EXCEPT
     !.only = [createNewForumPost |-> {"postName"}, postToThread |-> {"threadId"}]]
FluxerNeeds == Needs({"fluxerWebhookUrl"})
ElksNeeds == Needs({"elksUsername", "elksAuthToken", "elksFromNumber", "elksToNumber"})
EgoSMSNeeds == Needs({"egosmsUsername", "egosmsPassword", "egosmsPhoneNumber"})
FeishuNeeds == Needs({"feishuWebHookUrl"})
FreeMobileNeeds == Needs({"freemobileUser", "freemobilePass"})
GoogleChatNeeds == Needs({"googleChatWebhookURL"})
GoogleSheetsNeeds == Needs({"googleSheetsWebhookUrl"})
GorushNeeds == Needs({"gorushDeviceToken", "gorushServerURL"})
GotifyNeeds == Needs({"gotifyapplicationToken", "gotifyserverurl"})
GrafanaOncallNeeds == Needs({"GrafanaOncallURL"})
HomeAssistantNeeds == Needs({"homeAssistantUrl", "longLivedAccessToken"})
HeiiOnCallNeeds == Needs({"heiiOnCallApiKey", "heiiOnCallTriggerId"})
KeepNeeds == Needs({"webhookURL", "webhookAPIKey"})
KookNeeds == Needs({"kookBotToken", "kookGuildID"})
LineNeeds == Needs({"lineChannelAccessToken", "lineUserID"})
LunaSeaNeeds ==
  [Needs({}) EXCEPT
     !.only = [device |-> {"lunaseaDevice"}, user |-> {"lunaseaUserID"}]]
MatrixNeeds ==
  [Needs({"homeserverUrl", "internalRoomId", "accessToken"}) EXCEPT
     !.only = [template |-> {"matrixTemplate"}]]
MattermostNeeds == Needs({"mattermostWebhookUrl"})
NextcloudTalkNeeds == Needs({"botSecret", "host", "conversationToken"})
NostrNeeds == Needs({"relays", "sender", "recipients"})
NotifyAppNeeds == Needs({"notifyAppDeviceId", "notifyAppToken"})
NtfyNeeds ==
  [Needs({"ntfytopic", "ntfyserverurl"}) EXCEPT
     !.only = [usernamePassword |-> {"ntfyusername", "ntfypassword"},
       accessToken |-> {"ntfyaccesstoken"}]]
OctopushNeeds ==
  [Needs({}) EXCEPT
     !.only = ("unset" :> {"octopushAPIKey", "octopushLogin", "octopushPhoneNumber"} @@
       "2" :> {"octopushAPIKey", "octopushLogin", "octopushPhoneNumber"} @@
       "1" :> {"octopushDMLogin", "octopushDMAPIKey", "octopushDMPhoneNumber"})]
OneChatNeeds == Needs({"accessToken", "recieverId", "botId"})
OneBotNeeds == Needs({"httpAddr", "accessToken", "recieverId"})
OnesenderNeeds == Needs({"onesenderURL", "onesenderToken", "onesenderReceiver"})
OoredooNeeds ==
  Needs({"ooredooUsername", "ooredooAccessKey", "ooredooBearerToken", "ooredooToNumber"})
OpsgenieNeeds == Needs({"opsgenieApiKey"})
JiraServiceManagementNeeds == Needs({"jsmCloudId", "jsmEmail", "jsmApiToken"})
PagerDutyNeeds ==
  Needs({"pagerdutyIntegrationKey", "pagerdutyIntegrationUrl", "pagerdutyAutoResolve"})
FlashDutyNeeds == Needs({"flashdutySeverity", "flashdutyIntegrationKey"})
FlowtriqNeeds == Needs({"flowtriqWebhookUrl"})
PagerTreeNeeds == Needs({"pagertreeIntegrationUrl"})
PingletNeeds == Needs({"pingletPublishUrl", "pingletApiKey"})
PlivoNeeds ==
  [Needs({"plivoAuthID", "plivoAuthToken", "plivoFromNumber", "plivoToNumber"}) EXCEPT
     !.only = [call |-> {"plivoAnswerUrl"}]]
PromoSMSNeeds == Needs({"promosmsLogin", "promosmsPassword", "promosmsPhoneNumber"})
PumbleNeeds == Needs({"webhookURL"})
PushbulletNeeds == Needs({"pushbulletAccessToken"})
TechulusPushNeeds == Needs({"pushAPIKey"})
PushDeerNeeds == Needs({"pushdeerKey"})
PushoverNeeds == Needs({"pushoveruserkey", "pushoverapptoken"})
PushPlusNeeds == Needs({"pushPlusSendKey"})
PushyNeeds == Needs({"pushyAPIKey", "pushyToken"})
RocketChatNeeds == Needs({"rocketwebhookURL"})
SerwerSMSNeeds ==
  [Needs({"serwersmsUsername", "serwersmsPassword"}) EXCEPT
     !.only = [unset |-> {"serwersmsPhoneNumber"}, phone |-> {"serwersmsPhoneNumber"},
       group |-> {"serwersmsGroupId"}]]
SignalNeeds ==
  [Needs({"signalURL", "signalNumber", "signalRecipients"}) EXCEPT
     !.only = [template |-> {"signalTemplate"}]]
SignalgridNeeds == Needs({"signalgridClientKey", "signalgridChannel"})
SIGNL4Needs == Needs({"webhookURL"})
SMSGatewayNeeds == Needs({"smsgatewayUrl", "smsgatewayApiKey", "smsgatewayTo"})
SMSManagerNeeds == Needs({"smsmanagerApiKey", "numbers"})
SMSPartnerNeeds == Needs({"smspartnerApikey", "smspartnerPhoneNumber", "smspartnerSenderName"})
SlackNeeds ==
  [Needs({"slackwebhookURL"}) EXCEPT
     !.only = [template |-> {"slackTemplate"}]]
SquadcastNeeds == Needs({"squadcastWebhookURL"})
\* API v2 takes any of three kinds of recipients, and is posted to without any as well.
SMSEagleNeeds ==
  LET v2 == {"smseagleRecipientTo", "smseagleRecipientGroup", "smseagleRecipientContact"}
  IN  [Needs({"smseagleUrl", "smseagleToken"}) EXCEPT
         !.only = [v1 |-> {"smseagleRecipient"}, v1Call |-> {"smseagleRecipient"},
           v1Voice |-> {"smseagleRecipient"}],
         !.anyOf = [v2 |-> v2, v2Call |-> v2, v2Voice |-> v2]]
SMTPNeeds ==
  [Needs({"smtpHost", "smtpPort", "smtpFrom"}) EXCEPT
     !.only = [to |-> {"smtpTo"}, cc |-> {"smtpCC"}, bcc |-> {"smtpBCC"}]]
StackfieldNeeds == Needs({"stackfieldwebhookURL"})
TeamsNeeds == Needs({"webhookUrl"})
TelegramNeeds ==
  [Needs({"telegramBotToken", "telegramChatID"}) EXCEPT
     !.only = [template |-> {"telegramTemplateParseMode", "telegramTemplate"}],
     !.orAbsent = {"telegramServerUrl"}]
TeltonikaNeeds ==
  Needs({"teltonikaUrl", "teltonikaUsername", "teltonikaPassword", "teltonikaModem",
       "teltonikaPhoneNumber"})
TelnyxNeeds == Needs({"telnyxApiKey", "telnyxPhoneNumber", "telnyxToNumber"})
ThreemaNeeds ==
  [Needs({"threemaSenderIdentity", "threemaSecret"}) EXCEPT
     !.only = [identity |-> {"threemaRecipient"}, phone |-> {"threemaRecipient"},
       email |-> {"threemaRecipient"}]]
TwilioNeeds == Needs({"twilioAccountSID", "twilioAuthToken", "twilioFromNumber", "twilioToNumber"})
SplunkNeeds == Needs({"splunkRestURL", "splunkSeverity", "splunkAutoResolve"})
SpugPushNeeds == Needs({"templateKey"})
WebhookNeeds ==
  [Needs({"webhookURL"}) EXCEPT
     !.only = [custom |-> {"webhookCustomBody"}]]
WeComNeeds == Needs({"weComBotKey"})
GoAlertNeeds == Needs({"goAlertBaseURL", "goAlertToken"})
ServerChanNeeds == Needs({"serverChanSendKey"})
ZohoCliqNeeds == Needs({"webhookUrl"})
SevenIONeeds == Needs({"sevenioApiKey", "sevenioReceiver"})
WhapiNeeds == Needs({"whapiAuthToken", "whapiRecipient"})
EvolutionNeeds == Needs({"evolutionInstanceName", "evolutionAuthToken", "evolutionRecipient"})
OpenWaNeeds == Needs({"openwaApiUrl", "openwaApiKey", "openwaSession", "openwaChatId"})
NotiferyNeeds == Needs({"notiferyApiKey"})
WAHANeeds == Needs({"wahaApiUrl", "wahaSession", "wahaChatId"})
Whatsapp360messengerNeeds ==
  [Needs({"Whatsapp360messengerAuthToken"}) EXCEPT
     !.only = [recipient |-> {"Whatsapp360messengerRecipient"},
       groups |-> {"Whatsapp360messengerGroupIds"},
       recipientTemplate |-> {"Whatsapp360messengerRecipient"},
       groupsTemplate |-> {"Whatsapp360messengerGroupIds"}]]
GtxMessagingNeeds == Needs({"gtxMessagingApiKey", "gtxMessagingFrom", "gtxMessagingTo"})
CellsyntNeeds ==
  Needs({"cellsyntLogin", "cellsyntPassword", "cellsyntOriginator", "cellsyntDestination"})
WPushNeeds == Needs({"wpushAPIkey", "wpushChannel"})
WxPusherNeeds == Needs({"wxpusherSPT"})
SendGridNeeds == Needs({"sendgridApiKey", "sendgridFromEmail", "sendgridToEmail"})
TurboSMTPNeeds ==
  Needs({"turbosmtpConsumerKey", "turbosmtpConsumerSecret", "turbosmtpFromEmail", "turbosmtpToEmail"})
BrevoNeeds == Needs({"brevoApiKey", "brevoFromEmail", "brevoToEmail"})
ResendNeeds == Needs({"resendApiKey", "resendFromEmail", "resendToEmail"})
YZJNeeds == Needs({"yzjWebHookUrl", "yzjToken"})
SMSPlanetNeeds == Needs({"smsplanetApiToken", "smsplanetPhoneNumbers"})
WebpushNeeds == Needs({"subscription"})
HaloPSANeeds == Needs({"halowebhookurl"})
MaxNeeds == Needs({"maxBotToken", "maxChatID"})
VKNeeds == Needs({"vkAccessToken", "vkApiVersion", "vkPeerId"})
VKTeamsNeeds == Needs({"vkteamsBotToken", "vkteamsChatId"})
MilkyNeeds == Needs({"httpAddr", "accessToken", "recieverId"})

NeedsOf ==
  "alerta" :> AlertaNeeds @@ "AlertNow" :> AlertNowNeeds @@ "AliyunSMS" :> AliyunSMSNeeds @@
  "apprise" :> AppriseNeeds @@ "bale" :> BaleNeeds @@ "Bark" :> BarkNeeds @@
  "bearsms" :> BearSMSNeeds @@ "Bitrix24" :> Bitrix24Needs @@ "ClickUp" :> ClickUpNeeds @@
  "clicksendsms" :> ClickSendSMSNeeds @@ "CallMeBot" :> CallMeBotNeeds @@
  "amootsms" :> AmootSMSNeeds @@ "smsc" :> SMSCNeeds @@ "smsir" :> SMSIRNeeds @@
  "DingDing" :> DingDingNeeds @@ "discord" :> DiscordNeeds @@ "fluxer" :> FluxerNeeds @@
  "Elks" :> ElksNeeds @@ "egosms" :> EgoSMSNeeds @@ "Feishu" :> FeishuNeeds @@
  "FreeMobile" :> FreeMobileNeeds @@ "GoogleChat" :> GoogleChatNeeds @@
  "GoogleSheets" :> GoogleSheetsNeeds @@ "gorush" :> GorushNeeds @@ "gotify" :> GotifyNeeds @@
  "GrafanaOncall" :> GrafanaOncallNeeds @@ "HomeAssistant" :> HomeAssistantNeeds @@
  "HeiiOnCall" :> HeiiOnCallNeeds @@ "Keep" :> KeepNeeds @@ "Kook" :> KookNeeds @@
  "line" :> LineNeeds @@ "lunasea" :> LunaSeaNeeds @@ "matrix" :> MatrixNeeds @@
  "mattermost" :> MattermostNeeds @@ "nextcloudtalk" :> NextcloudTalkNeeds @@
  "nostr" :> NostrNeeds @@ "notifyapp" :> NotifyAppNeeds @@ "ntfy" :> NtfyNeeds @@
  "octopush" :> OctopushNeeds @@ "OneChat" :> OneChatNeeds @@ "OneBot" :> OneBotNeeds @@
  "Onesender" :> OnesenderNeeds @@ "Ooredoo" :> OoredooNeeds @@ "Opsgenie" :> OpsgenieNeeds @@
  "JiraServiceManagement" :> JiraServiceManagementNeeds @@ "PagerDuty" :> PagerDutyNeeds @@
  "FlashDuty" :> FlashDutyNeeds @@ "Flowtriq" :> FlowtriqNeeds @@ "PagerTree" :> PagerTreeNeeds @@
  "pinglet" :> PingletNeeds @@ "plivo" :> PlivoNeeds @@ "promosms" :> PromoSMSNeeds @@
  "pumble" :> PumbleNeeds @@ "pushbullet" :> PushbulletNeeds @@
  "PushByTechulus" :> TechulusPushNeeds @@ "PushDeer" :> PushDeerNeeds @@
  "pushover" :> PushoverNeeds @@ "PushPlus" :> PushPlusNeeds @@ "pushy" :> PushyNeeds @@
  "rocket.chat" :> RocketChatNeeds @@ "serwersms" :> SerwerSMSNeeds @@ "signal" :> SignalNeeds @@
  "signalgrid" :> SignalgridNeeds @@ "SIGNL4" :> SIGNL4Needs @@ "SMSGateway" :> SMSGatewayNeeds @@
  "SMSManager" :> SMSManagerNeeds @@ "SMSPartner" :> SMSPartnerNeeds @@ "slack" :> SlackNeeds @@
  "squadcast" :> SquadcastNeeds @@ "SMSEagle" :> SMSEagleNeeds @@ "smtp" :> SMTPNeeds @@
  "stackfield" :> StackfieldNeeds @@ "teams" :> TeamsNeeds @@ "telegram" :> TelegramNeeds @@
  "Teltonika" :> TeltonikaNeeds @@ "telnyx" :> TelnyxNeeds @@ "threema" :> ThreemaNeeds @@
  "twilio" :> TwilioNeeds @@ "Splunk" :> SplunkNeeds @@ "SpugPush" :> SpugPushNeeds @@
  "webhook" :> WebhookNeeds @@ "WeCom" :> WeComNeeds @@ "GoAlert" :> GoAlertNeeds @@
  "ServerChan" :> ServerChanNeeds @@ "ZohoCliq" :> ZohoCliqNeeds @@ "SevenIO" :> SevenIONeeds @@
  "whapi" :> WhapiNeeds @@ "evolution" :> EvolutionNeeds @@ "openwa" :> OpenWaNeeds @@
  "notifery" :> NotiferyNeeds @@ "waha" :> WAHANeeds @@
  "Whatsapp360messenger" :> Whatsapp360messengerNeeds @@ "gtxmessaging" :> GtxMessagingNeeds @@
  "Cellsynt" :> CellsyntNeeds @@ "WPush" :> WPushNeeds @@ "WxPusher" :> WxPusherNeeds @@
  "SendGrid" :> SendGridNeeds @@ "TurboSMTP" :> TurboSMTPNeeds @@ "Brevo" :> BrevoNeeds @@
  "Resend" :> ResendNeeds @@ "YZJ" :> YZJNeeds @@ "SMSPlanet" :> SMSPlanetNeeds @@
  "Webpush" :> WebpushNeeds @@ "HaloPSA" :> HaloPSANeeds @@ "max" :> MaxNeeds @@ "VK" :> VKNeeds @@
  "VKTeams" :> VKTeamsNeeds @@ "Milky" :> MilkyNeeds

================================================================================
