--------------------------- MODULE SettingsForms ---------------------------
(***************************************************************************)
(* The forms on which administrators change a stored record: the           *)
(* appliance's settings, the sections of a company's settings, an          *)
(* employee, a job, the memberships of a user.  Each holds a draft beside  *)
(* the record it was filled from, others change the record meanwhile, and  *)
(* the answer to a save arrives while its author goes on typing.           *)
(*                                                                         *)
(* A behaviour follows one form, and up to two of its fields, from its     *)
(* opening on.  A draft maps the fields it would send to their values.     *)
(***************************************************************************)
EXTENDS Naturals, FiniteSets, Functions

CONSTANT
  Values  \* what a field may hold

ASSUME FormsAssumption == Values # {}

VARIABLES
  form,     \* the form that is open
  fields,   \* the fields that are followed
  stored,   \* their values in the database
  draft,    \* what the next save would send
  asking,   \* a question is put to the author before the save goes out
  save,     \* the save under way: its patch and how far it is
  touched,  \* history: edited by the author since his last answered save
  late      \* history: edited while a save was under way

formVars == <<form, fields, stored, draft, asking, save, touched, late>>

-----------------------------------------------------------------------------
(* The forms *)

(* sends: the edited fields, or all of them as the form was filled.
   after: what a successful answer does to the draft.
   asks:  fields whose change has to be confirmed. *)
Form(names, sends, after, asks) ==
  [names |-> names, sends |-> sends, after |-> after, asks |-> asks]

BrandingSection == {"displayName"}
EmailItSection == {"emailit.apiKey", "fromEmail", "fromName", "apiBaseUrl"}
SmsSection ==
  {"sms.provider", "twilioAccountSid", "twilioAuthToken", "twilioFromNumber",
   "textlinkApiKey", "textlinkFromNumber", "textlinkBaseUrl"}
AISection == {"ai.provider", "ai.apiKey", "model", "baseUrl"}
RetentionSection == {"retentionDays"}
LogLevelSection == {"logLevel"}

(* Mutant of ApplianceForm: the answer to a save leaves the flags set. *)
ApplianceFormKept ==
  Form(BrandingSection \cup EmailItSection \cup SmsSection \cup AISection
         \cup RetentionSection \cup LogLevelSection,
       "edited", "keep", {})

(* The sections of the appliance page share one draft, with a flag per field
   that says it was edited; a saved draft is filled anew from the answer. *)
ApplianceForm ==
  Form(BrandingSection \cup EmailItSection \cup SmsSection \cup AISection
         \cup RetentionSection \cup LogLevelSection,
       "edited", "clear", {})

(* The sections of a company's page keep what they have sent: their fields
   are not filled from the record, and are sent again with every save until
   another section is opened. *)
GeneralSection ==
  Form({"name", "slug", "timezone", "weekStartDay", "payPeriodType"},
       "edited", "keep", {"payPeriodType"})
PunchSection ==
  Form({"punchRoundingMode", "punchRoundingGraceMinutes", "autoClockoutHours",
        "missedPunchReminderHours", "kioskEnabled", "personalDeviceEnabled",
        "kioskAuthMode", "lunchPromptEnabled", "punchLocationMode"},
       "edited", "keep", {})
ApprovalSection ==
  Form({"supervisorApprovalRequired", "allowSelfApprove"}, "edited", "keep", {})
MissingTimeSection ==
  Form({"workDays", "missingTimeRemindersEnabled", "missingTimeReminderHour",
        "missingTimeReminderMax"},
       "edited", "keep", {})
TimeOffSection == Form({"timeOffSelfEntry"}, "all", "keep", {})
NotificationsSection ==
  Form({"twilioAccountSid", "twilioAuthToken", "twilioFromNumber", "emailitApiKey",
        "emailitFromEmail", "emailitFromName", "emailitReplyTo"},
       "edited", "keep", {})
CompanyAISection ==
  Form({"aiEnabled", "aiProvider", "aiModel", "aiApiKey", "aiBaseUrl",
        "aiDailyCorrectionLimit"},
       "edited", "clear", {})

MissingTimeFields == {"employee.workDays", "remindersEnabled"}
EmployeeForm ==
  Form({"firstName", "lastName", "employeeNumber", "department", "email", "phone",
        "hiredAt"} \cup MissingTimeFields,
       "edited", "close", {})
JobForm ==
  Form({"code", "job.name", "isTimeOff", "timeOffCategory", "isPaid"}, "all", "close", {})

(* The drafts of these two are whole sets, one field per company or person. *)
MembershipsForm == Form({"company1", "company2"}, "all", "close", {})
GroupForm == Form({"member1", "grant1"}, "all", "close", {})

Forms ==
  {ApplianceForm, GeneralSection, PunchSection, ApprovalSection,
   MissingTimeSection, TimeOffSection, NotificationsSection, CompanyAISection,
   EmployeeForm, JobForm, MembershipsForm, GroupForm}

-----------------------------------------------------------------------------
(* A form at work *)

NoSave == [pc |-> "idle", patch |-> <<>>, meant |-> {}]

Patches == UNION {[names -> Values] : names \in SUBSET fields}

(* The type invariant. *)
FormTypeOK ==
  /\ form \in Forms
  /\ fields \subseteq form.names /\ Cardinality(fields) \in 1..2
  /\ stored \in [fields -> Values]
  /\ draft \in Patches
  /\ asking \in BOOLEAN
  /\ save.pc \in {"idle", "sent", "stored", "failed"}
  /\ save.patch \in Patches
  /\ save.meant \subseteq fields
  /\ touched \subseteq fields
  /\ late \subseteq fields

(* The draft of a form that has just been filled. *)
Filled(kind, record) == IF kind.sends = "all" THEN record ELSE <<>>

FormInit ==
  /\ form \in Forms
  /\ fields \in {{f, g} : f \in form.names, g \in form.names}
  /\ stored \in [fields -> Values]
  /\ draft = Filled(form, stored)
  /\ asking = FALSE
  /\ save = NoSave
  /\ touched = {}
  /\ late = {}

(* A patch laid over a record: what the patch lacks stays. *)
Overlay(patch, record) ==
  [f \in DOMAIN patch \cup DOMAIN record |-> IF f \in DOMAIN patch THEN patch[f] ELSE record[f]]

(* The author types into a field, also while a save is under way. *)
Edit(f, value) ==
  /\ ~asking
  /\ draft' = Overlay([g \in {f} |-> value], draft)
  /\ touched' = touched \cup {f}
  /\ late' = IF save.pc = "idle" THEN late ELSE late \cup {f}
  /\ UNCHANGED <<form, fields, stored, asking, save>>

(* "Discard", another section, or closing a drawer and opening it again: the
   form is filled anew, whether a save is under way or not. *)
Leave ==
  /\ draft' = Filled(form, stored)
  /\ asking' = FALSE
  /\ touched' = {}
  /\ late' = {}
  /\ UNCHANGED <<form, fields, stored, save>>

Send(patch) ==
  /\ save' = [pc |-> "sent", patch |-> patch, meant |-> touched]
  /\ late' = {}
  /\ UNCHANGED <<form, fields, stored, draft, touched>>

ToConfirm == {f \in form.asks \cap DOMAIN draft : draft[f] # stored[f]}

(* "Save": the button is off while a save is under way, and while there is
   nothing to save, except on an employee. *)
PressSave ==
  /\ save.pc = "idle" /\ ~asking
  /\ DOMAIN draft # {} \/ form = EmployeeForm
  /\ form \in {TimeOffSection, MembershipsForm} => draft # stored
  /\ IF ToConfirm # {}
       THEN asking' = TRUE /\ UNCHANGED <<form, fields, stored, draft, save, touched, late>>
       ELSE Send(draft) /\ UNCHANGED asking

(* The question is answered with yes: what it asked about goes out, and
   nothing else of the draft. *)
Confirm ==
  /\ asking
  /\ asking' = FALSE
  /\ Send(Restrict(draft, form.asks \cap DOMAIN draft))

Decline ==
  /\ asking
  /\ asking' = FALSE
  /\ UNCHANGED <<form, fields, stored, draft, save, touched, late>>

(* The patch is written. *)
Store ==
  /\ save.pc = "sent"
  /\ stored' = Overlay(save.patch, stored)
  /\ save' = [save EXCEPT !.pc = "stored"]
  /\ UNCHANGED <<form, fields, draft, asking, touched, late>>

(* A group's members are stored by one request, its companies by the next:
   the second may fail. *)
StoreHalf ==
  /\ save.pc = "sent" /\ form = GroupForm
  /\ stored' = Overlay(Restrict(save.patch, {"member1"} \cap DOMAIN save.patch), stored)
  /\ save' = [save EXCEPT !.pc = "failed"]
  /\ UNCHANGED <<form, fields, draft, asking, touched, late>>

(* The save is refused, or no answer to it arrives. *)
Fail ==
  /\ save.pc \in {"sent", "stored"}
  /\ save' = [save EXCEPT !.pc = "failed"]
  /\ UNCHANGED <<form, fields, stored, draft, asking, touched, late>>

(* The answer arrives.  A form that is cleared or closed by it drops the
   whole draft, whatever was typed since the save went out. *)
Answered ==
  /\ save.pc = "stored"
  /\ IF form.after = "keep"
       THEN draft' = draft /\ touched' = (touched \ DOMAIN save.patch) \cup late
       ELSE draft' = Filled(form, stored) /\ touched' = {}
  /\ asking' = (asking /\ form.after = "keep")
  /\ save' = NoSave
  /\ late' = {}
  /\ UNCHANGED <<form, fields, stored>>

(* An error leaves the draft as it is. *)
Failed ==
  /\ save.pc = "failed"
  /\ save' = NoSave
  /\ late' = {}
  /\ UNCHANGED <<form, fields, stored, draft, asking, touched>>

(* Another administrator changes the record. *)
OthersSave(f, value) ==
  /\ stored[f] # value
  /\ stored' = [stored EXCEPT ![f] = value]
  /\ UNCHANGED <<form, fields, draft, asking, save, touched, late>>

FormNext ==
  \/ \E f \in fields, value \in Values : Edit(f, value) \/ OthersSave(f, value)
  \/ Leave
  \/ PressSave
  \/ Confirm
  \/ Decline
  \/ Store
  \/ StoreHalf
  \/ Fail
  \/ Answered
  \/ Failed

FormSpec == FormInit /\ [][FormNext]_formVars

-----------------------------------------------------------------------------
(* Properties *)

(* The forms that send only what was edited since they were last filled.  The
   others send a whole record, or again what they have sent before, and may
   undo anything that was stored since. *)
SendOwnEdits == {ApplianceForm, CompanyAISection, EmployeeForm}

(* A save of such a form changes no field that its author has not edited
   since his last answered save, so that it undoes nobody else's change
   unseen.  And the draft of any form loses an edit only to the author, to
   the answer of the save that carried it, or, typed while a save was under
   way, to the answer of that save. *)
SavesSpeakForTheirAuthor ==
  [][/\ form \in SendOwnEdits /\ save.pc = "sent" /\ save'.pc # "sent" =>
          \A f \in fields : stored'[f] # stored[f] => f \in save.meant
     /\ \A f \in touched \cap DOMAIN draft :
          \/ f \in DOMAIN draft' /\ draft'[f] = draft[f]
          \/ \E value \in Values : Edit(f, value)
          \/ Leave
          \/ /\ save.pc = "stored" /\ save'.pc = "idle"
             /\ f \in late \/ (f \in DOMAIN save.patch /\ save.patch[f] = draft[f])]_formVars
=============================================================================
