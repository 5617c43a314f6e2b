--------------------------- MODULE NotificationDialog --------------------------
(* The dialog that adds and edits a notification (src/components/NotificationDialog.vue), the forms
   it shows (NotificationForms) and what is left for the provider to send with
   (NotificationNeeds). The dialog is one component that stays when it is hidden: a form of the
   type shown last is still mounted when the next notification is opened, and mounted() does not
   run again for it. *)
EXTENDS Naturals, NotificationForms, NotificationNeeds

CONSTANT MaxMoves  \* bound: how often a user changes the type or goes through the form

DialogAssumption == MaxMoves \in Nat

VARIABLES
  note,   \* the notification in the dialog: type, fields filled in, emptied ones, choices made
  form,   \* the type whose form is mounted, or "none"
  shown,  \* the dialog is open
  config, \* the stored configuration of the notification, or NoConfig
  moves   \* counts toward MaxMoves

dialogVars == <<note, form, shown, config, moves>>

Types == DOMAIN FormOf

Blank(type) == [type |-> type, filled |-> {}, empty |-> {}, pick |-> <<>>]

NoConfig == Blank("none")

\* The choice of the form of a notification's type.
Pick(n) == IF n.type \in DOMAIN n.pick THEN n.pick[n.type] ELSE FormOf[n.type].preset

Chosen(n) == IF Pick(n) = "open" THEN Asks({}) ELSE FormOf[n.type].picks[Pick(n)]

Required(n) == FormOf[n.type].asks \cup Chosen(n).asks
Optional(n) == FormOf[n.type].offers \cup Chosen(n).offers

Fields(type) ==
  FormOf[type].asks \cup FormOf[type].offers \cup
  UNION {FormOf[type].picks[p].asks \cup FormOf[type].picks[p].offers : p \in DOMAIN FormOf[type].picks}

\* mutant: a form sets its defaults for a new notification only
Mounted_NewOnly(n) ==
  IF n.filled # {} THEN n
  ELSE [n EXCEPT !.filled = @ \cup FormOf[n.type].fills \cup FormOf[n.type].refills]

\* mounted(): the defaults of a form that is new on the screen.
Mounted(n) ==
  LET absent == FormOf[n.type].fills \ n.empty
      falsy  == FormOf[n.type].refills
  IN  [n EXCEPT !.filled = @ \cup absent \cup falsy, !.empty = @ \ falsy]

\* The form of a type already mounted stays as it is.
Show(n) ==
  /\ note' = IF form = n.type THEN n ELSE Mounted(n)
  /\ form' = n.type
  /\ shown' = TRUE

-----------------------------------------------------------------------------
DialogInit ==
  /\ note = NoConfig
  /\ form = "none"
  /\ shown = FALSE
  /\ config = NoConfig
  /\ moves = 0

\* show() without an id; one notification is followed at a time.
ShowNew ==
  /\ ~shown
  /\ Show(Blank("telegram"))
  /\ config' = NoConfig
  /\ UNCHANGED moves

\* show(id): JSON.parse(n.config).
ShowOld ==
  /\ ~shown
  /\ config # NoConfig
  /\ Show(config)
  /\ UNCHANGED <<config, moves>>

\* Nothing was typed into the form the dialog opens with.
Untouched == note.type = "telegram" /\ note.filled \cup note.empty \subseteq FormOf["telegram"].refills

\* Bound: after the user has typed something, only a type with a field of the same name shows
\* anything new.
Related(type) == Untouched \/ Fields(type) \cap (note.filled \cup note.empty) # {}

\* Another type is selected: the form of the old one is unmounted, the fields stay.
ChangeType(type) ==
  /\ shown
  /\ type # note.type
  /\ Related(type)
  /\ moves < MaxMoves
  /\ moves' = moves + 1
  /\ Show([note EXCEPT !.type = type])
  /\ UNCHANGED config

\* The user goes through the form: makes a choice, then leaves everything alone or fills in what it
\* asks for, and fills in or empties what it offers.
Fill(p, how) ==
  /\ shown
  /\ moves < MaxMoves
  /\ moves' = moves + 1
  /\ LET n == [note EXCEPT !.pick = (note.type :> p) @@ @]
         written == (IF how = "none" THEN {} ELSE Required(n)) \cup (IF how = "all" THEN Optional(n) ELSE {})
         erased  == IF how = "emptied" THEN Optional(n) ELSE {}
     IN  note' = [n EXCEPT !.filled = (@ \cup written) \ erased, !.empty = (@ \ written) \cup erased]
  /\ UNCHANGED <<form, shown, config>>

\* The user empties a field the form asks for.
Erase ==
  /\ shown
  /\ moves < MaxMoves
  /\ moves' = moves + 1
  /\ note' = [note EXCEPT !.filled = @ \ Required(note), !.empty = @ \cup Required(note)]
  /\ UNCHANGED <<form, shown, config>>

\* mutant: the type is required, the fields of its choice are not
Valid_FormOnly(n) == FormOf[n.type].asks \subseteq n.filled

\* The browser submits no form with a required field empty.
Valid(n) == Pick(n) # "open" /\ Required(n) \subseteq n.filled

\* submit(): addNotification, and Notification.save() stores the object as it came.
Submit ==
  /\ shown
  /\ Valid(note)
  /\ config' = note
  /\ shown' = FALSE
  /\ UNCHANGED <<note, form, moves>>

\* The dialog is closed without saving.
Cancel ==
  /\ shown
  /\ shown' = FALSE
  /\ UNCHANGED <<note, form, config, moves>>

\* deleteNotification(), of a notification that is stored.
Delete ==
  /\ shown
  /\ config # NoConfig
  /\ config' = NoConfig
  /\ shown' = FALSE
  /\ UNCHANGED <<note, form, moves>>

DialogNext ==
  \/ ShowNew
  \/ ShowOld
  \/ \E type \in Types : ChangeType(type)
  \/ shown /\ \E p \in DOMAIN FormOf[note.type].picks, how \in {"none", "asked", "all", "emptied"} :
       Fill(p, how)
  \/ Erase
  \/ Submit
  \/ Cancel
  \/ Delete

-----------------------------------------------------------------------------
\* The provider's part: what a stored configuration lacks.
Lacks(n) ==
  LET needs == NeedsOf[n.type]
      only  == IF Pick(n) \in DOMAIN needs.only THEN needs.only[Pick(n)] ELSE {}
      anyOf == IF Pick(n) \in DOMAIN needs.anyOf THEN needs.anyOf[Pick(n)] ELSE {}
  IN  {f \in needs.always \cup only : f \notin n.filled}
        \cup (IF anyOf \cap n.filled = {} THEN anyOf ELSE {})
        \cup (needs.orAbsent \cap n.empty)
        \cup {f \in needs.orEmpty : f \notin n.filled \cup n.empty}

DialogTypeOK ==
  /\ moves \in 0..MaxMoves
  /\ form \in Types \cup {"none"}
  /\ shown \in BOOLEAN
  /\ note.filled \cap note.empty = {}
  /\ config.type \in Types \cup {"none"}
  /\ shown => form = note.type

\* Fields a form does not ask for although its provider cannot do without: saved with any of them
\* left out (of SMSEagle's recipients, all of them), the configuration is good for nothing or for
\* a part of the messages.
NotAskedFor ==
  {"flashdutyIntegrationKey", "pagerdutyAutoResolve", "pagertreeIntegrationUrl", "splunkSeverity",
   "splunkAutoResolve", "host", "conversationToken", "smsmanagerApiKey", "numbers", "subscription",
   "lunaseaDevice", "lunaseaUserID", "postName", "threadId", "ntfyusername", "ntfypassword",
   "ntfyaccesstoken", "smscSenderName",
   "smseagleRecipientTo", "smseagleRecipientGroup", "smseagleRecipientContact",
   "octopushDMLogin", "octopushDMAPIKey", "octopushDMPhoneNumber"}

\* Fields with a default that a user can empty.
Emptied == {"pagerdutyIntegrationUrl", "telegramServerUrl"}

\* A notification that was saved can be sent: whatever types and choices were tried in the dialog
\* on the way, the provider finds every field it cannot do without, but for the ones above.
SavedIsComplete ==
  config # NoConfig =>
    \A f \in Lacks(config) : f \in NotAskedFor \/ (f \in Emptied /\ f \in config.empty)

===============================================================================
