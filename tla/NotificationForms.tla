--------------------------- MODULE NotificationForms ---------------------------
(* The forms of the notification types, one definition per file of
   src/components/notifications: which fields a form asks for (`required`), which it only offers,
   and what it sets when it is mounted. A text, a number and a list are alike here: a field is
   absent, empty or filled in. Where a select or a check box decides what else is shown, its
   choices are the form's `picks`. *)
EXTENDS TLC

\* What a choice shows: fields asked for and fields offered.
Shows(asks, offers) == [asks |-> asks, offers |-> offers]
Asks(fields) == Shows(fields, {})

\* A form with one choice only. `fills`: set by mounted() where absent; `refills`: set where absent
\* or empty (`||=`, `!`); `preset`: the choice of a new notification, "open" where there is none
\* and one is required.
Form(asks, offers) ==
  [asks |-> asks, offers |-> offers, fills |-> {}, refills |-> {},
   picks |-> [plain |-> Asks({})], preset |-> "plain"]

Alerta == Form({"alertaApiEndpoint", "alertaEnvironment", "alertaApiKey", "alertaAlertState",
    "alertaRecoverState"}, {})
AlertNow == Form({"alertNowWebhookURL"}, {})
AliyunSMS == Form({"accessKeyId", "secretAccessKey", "phonenumber", "templateCode", "signName"},
    {"optionalParameters"})
Apprise == Form({"appriseURL"}, {"title"})
Bale == Form({"baleBotToken", "baleChatID"}, {})
Bark == Form({"apiVersion", "barkEndpoint", "barkGroup", "barkSound"}, {})
BearSMS == Form({"bearsmsUsername", "bearsmsHashKey", "bearsmsPhoneNumber"}, {"bearsmsSenderId"})
Bitrix24 == Form({"bitrix24WebhookURL", "bitrix24UserID"}, {})
ClickUp == Form({"clickupToken", "clickupWorkspaceId", "clickupChannelId"}, {"clickupDisableUrl"})
ClickSendSMS == Form({"clicksendsmsLogin", "clicksendsmsPassword", "clicksendsmsToNumber"},
    {"clicksendsmsSenderName"})
CallMeBot == Form({"callMeBotEndpoint"}, {})
AmootSMS ==
  [Form({"amootApiToken", "amootMobiles"}, {}) EXCEPT
     !.refills = {"amootLineNumber"},
     !.picks = [number |-> Asks({"amootLineNumber"}), pattern |-> Asks({"amootPatternCodeId"}),
       patternOwnLine |-> Asks({"amootPatternCodeId", "amootLineNumber"})],
     !.preset = "number"]
SMSC == Form({"smscLogin", "smscPassword", "smscToNumber"}, {"smscSenderName", "smscTranslit"})
SMSIR == Form({"smsirApiKey", "smsirNumber", "smsirTemplate"}, {})
DingDing ==
  [Form({"webHookUrl", "secretKey"}, {}) EXCEPT
     !.picks = ("nobody" :> Asks({}) @@ "everyone" :> Asks({}) @@
       "specify-mobiles" :> Asks({"mobileList"}) @@ "specify-users" :> Asks({"userList"})),
     !.preset = "nobody"]
Discord ==
  [Form({"discordWebhookUrl"}, {"discordUsername", "discordPrefixMessage",
    "discordMessageTemplate"}) EXCEPT
     !.picks = [channel |-> Asks({}), createNewForumPost |-> Shows({}, {"postName"}),
       postToThread |-> Shows({}, {"threadId"})],
     !.preset = "channel"]
Fluxer == Form({"fluxerWebhookUrl"}, {"fluxerUsername", "fluxerPrefixMessage",
    "fluxerMessageTemplate"})
Elks == Form({"elksUsername", "elksAuthToken", "elksFromNumber", "elksToNumber"}, {})
EgoSMS == Form({"egosmsUsername", "egosmsPassword", "egosmsPhoneNumber"}, {"egosmsSender"})
Feishu == Form({"feishuWebHookUrl"}, {})
FreeMobile == Form({"freemobileUser", "freemobilePass"}, {})
GoogleChat ==
  [Form({"googleChatWebhookURL", "googleChatMaxRetries"}, {}) EXCEPT
     !.refills = {"googleChatMaxRetries"},
     !.picks = [plain |-> Asks({}), template |-> Asks({"googleChatTemplate"})],
     !.preset = "plain"]
GoogleSheets == Form({"googleSheetsWebhookUrl"}, {})
Gorush == Form({"gorushDeviceToken", "gorushServerURL"}, {"gorushPlatform", "gorushTitle",
    "gorushPriority", "gorushRetry", "gorushTopic"})
Gotify ==
  [Form({"gotifyapplicationToken", "gotifyserverurl", "gotifyPriority"}, {}) EXCEPT
     !.fills = {"gotifyPriority"}]
GrafanaOncall == Form({"GrafanaOncallURL"}, {})
HomeAssistant == Form({"homeAssistantUrl", "longLivedAccessToken"}, {"notificationService"})
HeiiOnCall == Form({"heiiOnCallApiKey", "heiiOnCallTriggerId"}, {})
Keep == Form({"webhookURL", "webhookAPIKey"}, {})
Kook == Form({"kookBotToken", "kookGuildID"}, {})
Line == Form({"lineChannelAccessToken", "lineUserID"}, {})
LunaSea ==
  [Form({}, {}) EXCEPT
     !.picks = [device |-> Shows({}, {"lunaseaDevice"}), user |-> Shows({}, {"lunaseaUserID"})],
     !.preset = "device"]
Matrix ==
  [Form({"homeserverUrl", "internalRoomId", "accessToken"}, {}) EXCEPT
     !.picks = [plain |-> Asks({}), template |-> Asks({"matrixTemplate"})],
     !.preset = "plain"]
Mattermost == Form({"mattermostWebhookUrl"}, {"mattermostusername", "mattermosticonurl",
    "mattermosticonemo", "mattermostchannel"})
NextcloudTalk == Form({"botSecret"}, {"host", "conversationToken", "sendSilentUp",
    "sendSilentDown"})
Nostr == Form({"relays", "sender", "recipients"}, {})
NotifyApp == Form({"notifyAppDeviceId", "notifyAppToken"}, {"notifyAppIconUrl"})
Ntfy ==
  [Form({"ntfytopic", "ntfyserverurl", "ntfyPriority", "ntfyPriorityDown"}, {"ntfyIcon", "ntfyCall",
    "ntfyCustomTitle", "ntfyCustomMessage"}) EXCEPT
     !.fills = {"ntfyserverurl", "ntfyPriority", "ntfyPriorityDown"},
     !.picks = [none |-> Asks({}), usernamePassword |-> Shows({}, {"ntfyusername",
       "ntfypassword"}), accessToken |-> Shows({}, {"ntfyaccesstoken"})],
     !.preset = "none"]
Octopush ==
  [Form({"octopushAPIKey", "octopushLogin", "octopushPhoneNumber"}, {"octopushSMSType",
    "octopushSenderName"}) EXCEPT
     !.picks = ("unset" :> Asks({}) @@ "2" :> Asks({}) @@ "1" :> Asks({})),
     !.preset = "unset"]
OneChat == Form({"accessToken", "recieverId", "botId"}, {})
OneBot == Form({"httpAddr", "accessToken", "recieverId"}, {"msgType"})
Onesender == Form({"onesenderURL", "onesenderToken", "onesenderTypeReceiver", "onesenderReceiver"},
    {})
Ooredoo == Form({"ooredooUsername", "ooredooAccessKey", "ooredooBearerToken", "ooredooToNumber"},
    {"ooredooServerUrl"})
Opsgenie == Form({"opsgenieRegion", "opsgenieApiKey"}, {"opsgeniePriority"})
JiraServiceManagement == Form({"jsmCloudId", "jsmEmail", "jsmApiToken"}, {"jsmPriority"})
PagerDuty ==
  [Form({"pagerdutyIntegrationKey"}, {"pagerdutyIntegrationUrl", "pagerdutyPriority",
    "pagerdutyAutoResolve"}) EXCEPT
     !.fills = {"pagerdutyIntegrationUrl"}]
FlashDuty == Form({"flashdutySeverity"}, {"flashdutyIntegrationKey"})
Flowtriq == Form({"flowtriqWebhookUrl"}, {"flowtriqApiKey"})
PagerTree == Form({}, {"pagertreeIntegrationUrl", "pagertreeUrgency", "pagertreeAutoResolve"})
Pinglet == Form({"pingletPublishUrl", "pingletApiKey"}, {})
Plivo ==
  [Form({"plivoAuthID", "plivoAuthToken", "plivoFromNumber", "plivoToNumber"}, {}) EXCEPT
     !.picks = [sms |-> Asks({}), call |-> Asks({"plivoAnswerUrl"})],
     !.preset = "sms"]
PromoSMS == Form({"promosmsLogin", "promosmsPassword", "promosmsPhoneNumber"}, {"promosmsSMSType",
    "promosmsSenderName", "promosmsAllowLongSMS"})
Pumble == Form({"webhookURL"}, {})
Pushbullet == Form({"pushbulletAccessToken"}, {})
TechulusPush ==
  [Form({"pushAPIKey"}, {"pushTitle", "pushChannel", "pushSound", "pushTimeSensitive"}) EXCEPT
     !.fills = {"pushTitle", "pushChannel", "pushSound", "pushTimeSensitive"}]
PushDeer == Form({"pushdeerKey"}, {"pushdeerServer"})
Pushover == Form({"pushoveruserkey", "pushoverapptoken"}, {"pushoverdevice", "pushovertitle",
    "pushoverpriority", "pushoversounds", "pushoversounds_up", "pushoverttl"})
PushPlus == Form({"pushPlusSendKey"}, {})
Pushy == Form({"pushyAPIKey", "pushyToken"}, {})
RocketChat == Form({"rocketwebhookURL"}, {"rocketusername", "rocketiconemo", "rocketchannel"})
SerwerSMS ==
  [Form({"serwersmsUsername", "serwersmsPassword"}, {"serwersmsSenderName"}) EXCEPT
     !.picks = [unset |-> Asks({"serwersmsPhoneNumber"}), phone |-> Asks({"serwersmsPhoneNumber"}),
       group |-> Asks({"serwersmsGroupId"})],
     !.preset = "unset"]
Signal ==
  [Form({"signalURL", "signalNumber", "signalRecipients"}, {}) EXCEPT
     !.picks = [plain |-> Asks({}), template |-> Asks({"signalTemplate"})],
     !.preset = "plain"]
Signalgrid == Form({"signalgridClientKey", "signalgridChannel"}, {})
SIGNL4 == Form({"webhookURL"}, {})
SMSGateway == Form({"smsgatewayUrl", "smsgatewayApiKey", "smsgatewayTo"}, {})
SMSManager == Form({}, {"smsmanagerApiKey", "numbers", "messageType"})
SMSPartner == Form({"smspartnerApikey", "smspartnerPhoneNumber", "smspartnerSenderName"}, {})
Slack ==
  [Form({"slackwebhookURL"}, {"slackusername", "slackiconemo", "slackchannel", "slackrichmessage",
    "slackIncludeGroupName", "slackchannelnotify"}) EXCEPT
     !.fills = {"slackIncludeGroupName"},
     !.picks = [plain |-> Asks({}), template |-> Asks({"slackTemplate"})],
     !.preset = "plain"]
Squadcast == Form({"squadcastWebhookURL"}, {})
SMSEagle ==
  [Form({"smseagleUrl", "smseagleToken"}, {}) EXCEPT
     !.picks = [v1 |-> Shows({"smseagleRecipient", "smseaglePriority"}, {"smseagleEncoding"}),
       v1Call |-> Shows({"smseagleRecipient"}, {"smseagleDuration"}),
       v1Voice |-> Shows({"smseagleRecipient", "smseagleTtsModel"}, {"smseagleDuration"}),
       v2 |-> Shows({}, {"smseagleRecipientTo", "smseagleRecipientGroup",
       "smseagleRecipientContact", "smseaglePriority", "smseagleEncoding"}), v2Call |-> Shows({},
       {"smseagleRecipientTo", "smseagleRecipientGroup", "smseagleRecipientContact",
       "smseaglePriority", "smseagleEncoding", "smseagleDuration"}),
       v2Voice |-> Shows({"smseagleTtsModel"}, {"smseagleRecipientTo", "smseagleRecipientGroup",
       "smseagleRecipientContact", "smseaglePriority", "smseagleEncoding", "smseagleDuration"})],
     !.preset = "v1"]
SMTP ==
  [Form({"smtpHost", "smtpPort", "smtpFrom"}, {"smtpSecure", "smtpUsername", "smtpPassword",
    "smtpAdditionalHeaders", "customSubject", "customBody", "smtpDkimDomain"}) EXCEPT
     !.fills = {"smtpSecure"},
     !.picks = [to |-> Asks({"smtpTo"}), cc |-> Asks({"smtpCC"}), bcc |-> Asks({"smtpBCC"})],
     !.preset = "open"]
Stackfield == Form({"stackfieldwebhookURL"}, {})
Teams == Form({"webhookUrl"}, {"teamsEnableTags"})
Telegram ==
  [Form({"telegramBotToken", "telegramChatID"}, {"telegramMessageThreadID", "telegramServerUrl",
    "telegramSendSilently", "telegramProtectContent"}) EXCEPT
     !.refills = {"telegramServerUrl"},
     !.picks = [plain |-> Asks({}), template |-> Asks({"telegramTemplateParseMode",
       "telegramTemplate"})],
     !.preset = "plain"]
Teltonika == Form({"teltonikaUrl", "teltonikaUsername", "teltonikaPassword", "teltonikaModem",
    "teltonikaPhoneNumber"}, {"teltonikaUnsafeTls"})
Telnyx == Form({"telnyxApiKey", "telnyxPhoneNumber", "telnyxToNumber"},
    {"telnyxMessagingProfileId"})
Threema ==
  [Form({"threemaSenderIdentity", "threemaSecret"}, {}) EXCEPT
     !.picks = [identity |-> Asks({"threemaRecipient"}), phone |-> Asks({"threemaRecipient"}),
       email |-> Asks({"threemaRecipient"})],
     !.preset = "open"]
Twilio == Form({"twilioAccountSID", "twilioAuthToken", "twilioFromNumber", "twilioToNumber"},
    {"twilioApiKey", "twilioMessagingServiceSID"})
Splunk == Form({"splunkRestURL"}, {"splunkSeverity", "splunkAutoResolve"})
SpugPush == Form({"templateKey"}, {})
Webhook ==
  [Form({"webhookURL"}, {"webhookAdditionalHeaders"}) EXCEPT
     !.picks = ("get" :> Asks({}) @@ "json" :> Asks({}) @@ "form-data" :> Asks({}) @@
       "custom" :> Asks({"webhookCustomBody"})),
     !.preset = "open"]
WeCom == Form({"weComBotKey"}, {"weComMentionedMobileList"})
GoAlert == Form({"goAlertBaseURL", "goAlertToken"}, {})
ServerChan == Form({"serverChanSendKey"}, {})
ZohoCliq == Form({"webhookUrl"}, {})
SevenIO == Form({"sevenioApiKey", "sevenioReceiver"}, {"sevenioSender"})
Whapi == Form({"whapiAuthToken", "whapiRecipient"}, {"whapiApiUrl"})
Evolution ==
  [Form({"evolutionInstanceName", "evolutionAuthToken", "evolutionRecipient"},
       {"evolutionApiUrl"}) EXCEPT
     !.picks = [plain |-> Asks({}), custom |-> Asks({"evolutionCustomMessage"})],
     !.preset = "plain"]
OpenWa ==
  [Form({"openwaApiUrl", "openwaApiKey", "openwaSession", "openwaChatId"}, {}) EXCEPT
     !.picks = [plain |-> Asks({}), custom |-> Asks({"openwaCustomMessage"})],
     !.preset = "plain"]
Notifery == Form({"notiferyApiKey"}, {"notiferyTitle", "notiferyGroup"})
WAHA == Form({"wahaApiUrl", "wahaSession", "wahaChatId"}, {"wahaApiKey"})
Whatsapp360messenger ==
  [Form({"Whatsapp360messengerAuthToken"}, {}) EXCEPT
     !.picks = [recipient |-> Asks({"Whatsapp360messengerRecipient"}),
       groups |-> Asks({"Whatsapp360messengerGroupIds"}),
       recipientTemplate |-> Asks({"Whatsapp360messengerRecipient",
       "Whatsapp360messengerTemplate"}), groupsTemplate |-> Asks({"Whatsapp360messengerGroupIds",
       "Whatsapp360messengerTemplate"})],
     !.preset = "recipient"]
GtxMessaging == Form({"gtxMessagingApiKey", "gtxMessagingFrom", "gtxMessagingTo"}, {})
Cellsynt ==
  [Form({"cellsyntLogin", "cellsyntPassword", "cellsyntOriginatortype", "cellsyntOriginator",
    "cellsyntDestination"}, {"cellsyntAllowLongSMS"}) EXCEPT
     !.refills = {"cellsyntOriginatortype", "cellsyntOriginator"}]
WPush == Form({"wpushAPIkey", "wpushChannel"}, {})
WxPusher == Form({"wxpusherSPT"}, {})
SendGrid ==
  [Form({"sendgridApiKey", "sendgridFromEmail", "sendgridToEmail"}, {"sendgridCcEmail",
    "sendgridBccEmail", "sendgridSubject"}) EXCEPT
     !.fills = {"sendgridSubject"}]
TurboSMTP ==
  [Form({"turbosmtpConsumerKey", "turbosmtpConsumerSecret", "turbosmtpRegion", "turbosmtpFromEmail",
    "turbosmtpToEmail"}, {"turbosmtpCcEmail", "turbosmtpBccEmail", "turbosmtpSubject"}) EXCEPT
     !.fills = {"turbosmtpRegion", "turbosmtpSubject"}]
Brevo ==
  [Form({"brevoApiKey", "brevoFromEmail", "brevoToEmail"}, {"brevoFromName", "brevoCcEmail",
    "brevoBccEmail", "brevoSubject"}) EXCEPT
     !.fills = {"brevoSubject", "brevoFromName"}]
Resend ==
  [Form({"resendApiKey", "resendFromEmail", "resendToEmail"}, {"resendFromName",
       "resendSubject"}) EXCEPT
     !.fills = {"resendSubject", "resendFromName"}]
YZJ == Form({"yzjWebHookUrl", "yzjToken"}, {})
SMSPlanet == Form({"smsplanetApiToken", "smsplanetPhoneNumbers"}, {"smsplanetSenderName"})
Webpush == Form({}, {"subscription"})
HaloPSA == Form({"halowebhookurl"}, {"haloUsername", "haloPassword"})
Max ==
  [Form({"maxBotToken", "maxApiUrl", "maxChatID"}, {}) EXCEPT
     !.refills = {"maxApiUrl", "maxTemplateFormat"},
     !.picks = [plain |-> Asks({}), template |-> Asks({"maxTemplateFormat", "maxTemplate"})],
     !.preset = "plain"]
VK ==
  [Form({"vkAccessToken", "vkApiVersion", "vkPeerId"}, {"vkDontParseLinks"}) EXCEPT
     !.refills = {"vkApiVersion"}]
VKTeams ==
  [Form({"vkteamsBotToken", "vkteamsChatId", "vkteamsBaseUrl"}, {}) EXCEPT
     !.refills = {"vkteamsBaseUrl", "vkteamsTemplateFormat"},
     !.picks = [plain |-> Asks({}), template |-> Asks({"vkteamsTemplateFormat", "vkteamsTemplate"})],
     !.preset = "plain"]
Milky == Form({"httpAddr", "accessToken", "recieverId"}, {"msgType"})

\* NotificationFormList; its keys are the types.
FormOf ==
  "alerta" :> Alerta @@ "AlertNow" :> AlertNow @@ "AliyunSMS" :> AliyunSMS @@
  "apprise" :> Apprise @@ "bale" :> Bale @@ "Bark" :> Bark @@ "bearsms" :> BearSMS @@
  "Bitrix24" :> Bitrix24 @@ "ClickUp" :> ClickUp @@ "clicksendsms" :> ClickSendSMS @@
  "CallMeBot" :> CallMeBot @@ "amootsms" :> AmootSMS @@ "smsc" :> SMSC @@ "smsir" :> SMSIR @@
  "DingDing" :> DingDing @@ "discord" :> Discord @@ "fluxer" :> Fluxer @@ "Elks" :> Elks @@
  "egosms" :> EgoSMS @@ "Feishu" :> Feishu @@ "FreeMobile" :> FreeMobile @@
  "GoogleChat" :> GoogleChat @@ "GoogleSheets" :> GoogleSheets @@ "gorush" :> Gorush @@
  "gotify" :> Gotify @@ "GrafanaOncall" :> GrafanaOncall @@ "HomeAssistant" :> HomeAssistant @@
  "HeiiOnCall" :> HeiiOnCall @@ "Keep" :> Keep @@ "Kook" :> Kook @@ "line" :> Line @@
  "lunasea" :> LunaSea @@ "matrix" :> Matrix @@ "mattermost" :> Mattermost @@
  "nextcloudtalk" :> NextcloudTalk @@ "nostr" :> Nostr @@ "notifyapp" :> NotifyApp @@
  "ntfy" :> Ntfy @@ "octopush" :> Octopush @@ "OneChat" :> OneChat @@ "OneBot" :> OneBot @@
  "Onesender" :> Onesender @@ "Ooredoo" :> Ooredoo @@ "Opsgenie" :> Opsgenie @@
  "JiraServiceManagement" :> JiraServiceManagement @@ "PagerDuty" :> PagerDuty @@
  "FlashDuty" :> FlashDuty @@ "Flowtriq" :> Flowtriq @@ "PagerTree" :> PagerTree @@
  "pinglet" :> Pinglet @@ "plivo" :> Plivo @@ "promosms" :> PromoSMS @@ "pumble" :> Pumble @@
  "pushbullet" :> Pushbullet @@ "PushByTechulus" :> TechulusPush @@ "PushDeer" :> PushDeer @@
  "pushover" :> Pushover @@ "PushPlus" :> PushPlus @@ "pushy" :> Pushy @@
  "rocket.chat" :> RocketChat @@ "serwersms" :> SerwerSMS @@ "signal" :> Signal @@
  "signalgrid" :> Signalgrid @@ "SIGNL4" :> SIGNL4 @@ "SMSGateway" :> SMSGateway @@
  "SMSManager" :> SMSManager @@ "SMSPartner" :> SMSPartner @@ "slack" :> Slack @@
  "squadcast" :> Squadcast @@ "SMSEagle" :> SMSEagle @@ "smtp" :> SMTP @@
  "stackfield" :> Stackfield @@ "teams" :> Teams @@ "telegram" :> Telegram @@
  "Teltonika" :> Teltonika @@ "telnyx" :> Telnyx @@ "threema" :> Threema @@ "twilio" :> Twilio @@
  "Splunk" :> Splunk @@ "SpugPush" :> SpugPush @@ "webhook" :> Webhook @@ "WeCom" :> WeCom @@
  "GoAlert" :> GoAlert @@ "ServerChan" :> ServerChan @@ "ZohoCliq" :> ZohoCliq @@
  "SevenIO" :> SevenIO @@ "whapi" :> Whapi @@ "evolution" :> Evolution @@ "openwa" :> OpenWa @@
  "notifery" :> Notifery @@ "waha" :> WAHA @@ "Whatsapp360messenger" :> Whatsapp360messenger @@
  "gtxmessaging" :> GtxMessaging @@ "Cellsynt" :> Cellsynt @@ "WPush" :> WPush @@
  "WxPusher" :> WxPusher @@ "SendGrid" :> SendGrid @@ "TurboSMTP" :> TurboSMTP @@
  "Brevo" :> Brevo @@ "Resend" :> Resend @@ "YZJ" :> YZJ @@ "SMSPlanet" :> SMSPlanet @@
  "Webpush" :> Webpush @@ "HaloPSA" :> HaloPSA @@ "max" :> Max @@ "VK" :> VK @@
  "VKTeams" :> VKTeams @@ "Milky" :> Milky

================================================================================
