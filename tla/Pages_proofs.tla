---------------------------- MODULE Pages_proofs ----------------------------
(***************************************************************************)
(* What holds of the pages of the web client, whatever comes between.      *)
(*                                                                         *)
(* A save of a settings form speaks for its author, for any fields and     *)
(* values.  The invariant behind it: what is sent was edited, and an edit  *)
(* is in the save that is under way or came after it.                      *)
(*                                                                         *)
(* The toast of the weekly grid takes a change back, for any employees,    *)
(* cells and hours.  The invariant behind it: while nobody else has come   *)
(* to the employee's day, the hours that the toast's change would leave    *)
(* and enter in each cell are those that the page remembers.               *)
(*                                                                         *)
(* What a screen shows holds every change that it is owed, for any number  *)
(* of changes.  The invariant behind it: data without one is old, and a    *)
(* screen that shows old data has a read under way, or says that it        *)
(* failed.  The tables of screens are gone through one by one: what a      *)
(* change changes of its screen, it refreshes.                             *)
(*                                                                         *)
(* Every reachable state is well typed.  What that takes beyond the above: *)
(* an entry supersedes punches of the cells that it takes alone, and the   *)
(* page remembers only entries that were made.                             *)
(***************************************************************************)
EXTENDS MCManualGrid, ManualEntries_proofs, SequenceTheorems, FiniteSetTheorems, TLAPS

-----------------------------------------------------------------------------
(* Forms *)

(* What is sent of such a form was edited since its last answered save. *)
OwnEditsOnly ==
  form \in SendOwnEdits =>
    DOMAIN draft \subseteq touched /\ (save.pc = "sent" => DOMAIN save.patch \subseteq save.meant)

(* An edit is in the save that is under way, or came after it. *)
EditsAreCarried ==
  form.after # "keep" /\ save.pc \in {"sent", "stored"} =>
    \A f \in touched \cap DOMAIN draft :
      f \in late \/ (f \in DOMAIN save.patch /\ save.patch[f] = draft[f])

(* Only a section that keeps its draft asks. *)
AskersKeep == asking => form.after = "keep"

SaveIsRecord == save = [pc |-> save.pc, patch |-> save.patch, meant |-> save.meant]

FormInv ==
  /\ SaveIsRecord
  /\ form \in Forms /\ DOMAIN stored = fields /\ AskersKeep /\ OwnEditsOnly /\ EditsAreCarried
  /\ DOMAIN save.patch \subseteq fields /\ DOMAIN draft \subseteq fields

(* The table of the forms. *)
LEMMA FormFacts ==
  /\ \A kind \in SendOwnEdits : kind.sends = "edited" /\ kind.after # "keep"
  /\ \A kind \in Forms : kind.asks # {} => kind.after = "keep"
<1>1. \A names, sends, after, asks :
        /\ Form(names, sends, after, asks).sends = sends
        /\ Form(names, sends, after, asks).after = after
        /\ Form(names, sends, after, asks).asks = asks
  BY DEF Form
<1>2. \A kind \in SendOwnEdits : kind.sends = "edited" /\ kind.after # "keep"
  BY <1>1 DEF SendOwnEdits, ApplianceForm, CompanyAISection, EmployeeForm
<1>3. \A kind \in Forms : kind.asks # {} => kind.after = "keep"
  BY <1>1 DEF Forms, ApplianceForm, GeneralSection, PunchSection, ApprovalSection,
   MissingTimeSection, TimeOffSection, NotificationsSection, CompanyAISection,
   EmployeeForm, JobForm, MembershipsForm, GroupForm
<1> QED
  BY <1>2, <1>3

(* What is laid over a record decides, and what it lacks stays. *)
LEMMA Overlaid ==
  ASSUME NEW f, NEW g
  PROVE  /\ DOMAIN Overlay(f, g) = DOMAIN f \cup DOMAIN g
         /\ \A x : x \in DOMAIN f => Overlay(f, g)[x] = f[x]
         /\ \A x : x \in DOMAIN g /\ x \notin DOMAIN f => Overlay(f, g)[x] = g[x]
BY DEF Overlay

(* A form that is filled has its record, or nothing that was edited. *)
LEMMA FilledForms ==
  ASSUME FormInv
  PROVE  /\ DOMAIN Filled(form, stored) \subseteq fields
         /\ form \in SendOwnEdits => DOMAIN Filled(form, stored) = {}
BY FormFacts DEF Filled, FormInv

LEMMA FormInvInit == FormInit => FormInv
<1> SUFFICES ASSUME FormInit PROVE FormInv
  OBVIOUS
<1>1. form \in Forms /\ DOMAIN stored = fields /\ ~asking
  BY DEF FormInit
<1>2. save.pc = "idle" /\ DOMAIN save.patch = {}
  BY DEF FormInit, NoSave
<1>3. DOMAIN draft \subseteq fields /\ (form \in SendOwnEdits => DOMAIN draft = {})
  BY FormFacts DEF FormInit, Filled
<1>4. SaveIsRecord
  BY DEF FormInit, NoSave, SaveIsRecord
<1> QED
  BY <1>1, <1>2, <1>3, <1>4 DEF FormInv, AskersKeep, OwnEditsOnly, EditsAreCarried

(* The author types: the field is edited, and late if a save is under way. *)
LEMMA EditStep ==
  ASSUME FormInv, NEW f \in fields, NEW value, Edit(f, value)
  PROVE  FormInv'
<1>1. /\ UNCHANGED <<form, fields, stored, asking, save>> /\ touched' = touched \cup {f}
      /\ draft' = Overlay([g \in {f} |-> value], draft)
      /\ late' = IF save.pc = "idle" THEN late ELSE late \cup {f}
  BY DEF Edit
<1>2. DOMAIN draft' = {f} \cup DOMAIN draft /\ \A g \in DOMAIN draft \ {f} : draft'[g] = draft[g]
  <2> DEFINE one == [g \in {f} |-> value]
  <2>1. DOMAIN one = {f} /\ draft' = Overlay(one, draft)
    BY <1>1
  <2> HIDE DEF one
  <2> QED
    BY <2>1 DEF Overlay
<1>3. OwnEditsOnly'
  BY <1>1, <1>2 DEF FormInv, OwnEditsOnly, SendOwnEdits
<1>4. EditsAreCarried'
  BY <1>1, <1>2 DEF FormInv, EditsAreCarried
<1> QED
  BY <1>1, <1>2, <1>3, <1>4 DEF FormInv, AskersKeep, SaveIsRecord

(* The form is filled anew, by hand or by the answer to a save. *)
LEMMA FilledStep ==
  ASSUME FormInv, UNCHANGED <<form, fields, stored>>, draft' = Filled(form, stored), touched' = {},
         ~asking',
         save' = save \/ save' = NoSave
  PROVE  FormInv'
<1>1. /\ SaveIsRecord'
      /\ \/ UNCHANGED save
         \/ save'.pc = "idle" /\ DOMAIN save'.patch = {}
  BY DEF NoSave, SaveIsRecord, FormInv
<1> QED
  BY <1>1, FilledForms DEF FormInv, AskersKeep, OwnEditsOnly, EditsAreCarried, SendOwnEdits


(* What is sent is what was edited, or the fields that were asked about. *)
LEMMA SendStep ==
  ASSUME FormInv, NEW patch, Send(patch), ~asking',
         patch = draft \/ (form.after = "keep" /\ DOMAIN patch \subseteq fields)
  PROVE  FormInv'
<1>1. /\ UNCHANGED <<form, fields, stored, draft, touched>> /\ late' = {}
      /\ save'.pc = "sent" /\ save'.patch = patch /\ save'.meant = touched
  BY DEF Send
<1>2. SaveIsRecord'
  BY DEF Send, SaveIsRecord
<1> QED
  BY <1>1, <1>2, FormFacts DEF FormInv, AskersKeep, OwnEditsOnly, EditsAreCarried, SendOwnEdits

LEMMA SaveBegins ==
  ASSUME FormInv, PressSave \/ Confirm \/ Decline
  PROVE  FormInv'
<1>1. CASE PressSave /\ ToConfirm # {}
  <2>1. UNCHANGED <<form, fields, stored, draft, save, touched, late>>
    BY <1>1 DEF PressSave
  <2>2. form.after = "keep"
    BY <1>1, FormFacts DEF ToConfirm, FormInv
  <2> QED
    BY <2>1, <2>2 DEF FormInv, AskersKeep, OwnEditsOnly, EditsAreCarried, SendOwnEdits,
       SaveIsRecord
<1>2. CASE PressSave /\ ToConfirm = {}
  BY <1>2, SendStep DEF PressSave
<1>3. CASE Confirm
  <2> DEFINE patch == Restrict(draft, form.asks \cap DOMAIN draft)
  <2>1. DOMAIN patch \subseteq DOMAIN draft
    BY DEF Restrict
  <2>2. form.after = "keep" /\ Send(patch) /\ ~asking'
    BY <1>3 DEF Confirm, FormInv, AskersKeep
  <2> QED
    BY <2>1, <2>2, SendStep DEF FormInv
<1>4. CASE Decline
  BY <1>4 DEF Decline, FormInv, AskersKeep, OwnEditsOnly, EditsAreCarried, SendOwnEdits,
     SaveIsRecord
<1> QED
  BY <1>1, <1>2, <1>3, <1>4

(* The server stores, or does not, and others store too. *)
LEMMA RecordStep ==
  ASSUME FormInv,
         Store \/ StoreHalf \/ Fail \/ Failed \/ \E f \in fields, value \in Values : OthersSave(f, value)
  PROVE  FormInv'
<1>1. UNCHANGED <<form, fields, draft, asking, touched>>
  BY DEF Store, StoreHalf, Fail, Failed, OthersSave
<1>2. DOMAIN stored' = fields
  <2>1. CASE Store
    <3>1. DOMAIN save.patch \subseteq fields /\ DOMAIN stored = fields
      BY DEF FormInv
    <3>2. stored' = Overlay(save.patch, stored)
      BY <2>1 DEF Store
    <3> QED
      BY <3>1, <3>2, Overlaid
  <2>2. CASE StoreHalf
    <3> DEFINE half == Restrict(save.patch, {"member1"} \cap DOMAIN save.patch)
    <3>1. DOMAIN half \subseteq DOMAIN save.patch /\ stored' = Overlay(half, stored)
      BY <2>2 DEF StoreHalf, Restrict
    <3> HIDE DEF half
    <3>2. DOMAIN half \subseteq fields /\ DOMAIN stored = fields
      BY <3>1 DEF FormInv
    <3> QED
      BY <3>1, <3>2, Overlaid
  <2>3. CASE Fail \/ Failed \/ \E f \in fields, value \in Values : OthersSave(f, value)
    BY <2>3 DEF Fail, Failed, OthersSave, FormInv
  <2> QED
    BY <2>1, <2>2, <2>3
<1>3. CASE Store
  <2>1. save.pc = "sent" /\ save' = [save EXCEPT !.pc = "stored"] /\ UNCHANGED late
    BY <1>3 DEF Store
  <2>2. SaveIsRecord' /\ save'.pc = "stored" /\ save'.patch = save.patch /\ save'.meant = save.meant
    BY <2>1 DEF SaveIsRecord, FormInv
  <2> QED
    BY <1>1, <1>2, <2>1, <2>2
    DEF FormInv, AskersKeep, OwnEditsOnly, EditsAreCarried, SendOwnEdits
<1>4. CASE StoreHalf \/ Fail
  <2>1. save' = [save EXCEPT !.pc = "failed"] /\ UNCHANGED late
    BY <1>4 DEF StoreHalf, Fail
  <2>2. SaveIsRecord' /\ save'.pc = "failed" /\ save'.patch = save.patch /\ save'.meant = save.meant
    BY <2>1 DEF SaveIsRecord, FormInv
  <2> QED
    BY <1>1, <1>2, <2>2 DEF FormInv, AskersKeep, OwnEditsOnly, EditsAreCarried, SendOwnEdits
<1>5. CASE Failed
  <2>1. SaveIsRecord' /\ save'.pc = "idle" /\ DOMAIN save'.patch = {}
    BY <1>5 DEF Failed, NoSave, SaveIsRecord
  <2> QED
    BY <1>1, <1>2, <2>1 DEF FormInv, AskersKeep, OwnEditsOnly, EditsAreCarried, SendOwnEdits
<1>6. CASE \E f \in fields, value \in Values : OthersSave(f, value)
  <2>1. UNCHANGED <<save, late>>
    BY <1>6 DEF OthersSave
  <2> QED
    BY <1>1, <1>2, <2>1
    DEF FormInv, AskersKeep, OwnEditsOnly, EditsAreCarried, SendOwnEdits, SaveIsRecord
<1> QED
  BY <1>3, <1>4, <1>5, <1>6

(* The answer to a save: sections that keep their draft are their author's own
   matter, and the draft of the others goes. *)
LEMMA AnsweredStep ==
  ASSUME FormInv, Answered
  PROVE  FormInv'
<1>1. CASE form.after # "keep"
  <2>1. /\ UNCHANGED <<form, fields, stored>> /\ draft' = Filled(form, stored)
        /\ touched' = {} /\ save' = NoSave
    BY <1>1 DEF Answered
  <2>2. ~asking'
    BY <1>1 DEF Answered
  <2> QED
    BY <2>1, <2>2, FilledStep
<1>2. CASE form.after = "keep"
  <2>1. UNCHANGED <<form, fields, stored, draft>>
    BY <1>2 DEF Answered
  <2>2. SaveIsRecord' /\ save'.pc = "idle" /\ DOMAIN save'.patch = {}
    BY DEF Answered, NoSave, SaveIsRecord
  <2>3. form \notin SendOwnEdits
    BY <1>2, FormFacts
  <2> QED
    BY <1>2, <2>1, <2>2, <2>3
    DEF FormInv, AskersKeep, OwnEditsOnly, EditsAreCarried, SendOwnEdits
<1> QED
  BY <1>1, <1>2

LEMMA FormInvStep == FormInv /\ [FormNext]_formVars => FormInv'
<1> SUFFICES ASSUME FormInv, [FormNext]_formVars PROVE FormInv'
  OBVIOUS
<1>1. CASE \E f \in fields, value \in Values : Edit(f, value)
  BY <1>1, EditStep
<1>2. CASE Leave
  BY <1>2, FilledStep DEF Leave
<1>3. CASE PressSave \/ Confirm \/ Decline
  BY <1>3, SaveBegins
<1>4. CASE \/ Store \/ StoreHalf \/ Fail \/ Failed
           \/ \E f \in fields, value \in Values : OthersSave(f, value)
  BY <1>4, RecordStep
<1>5. CASE Answered
  BY <1>5, AnsweredStep
<1>6. CASE UNCHANGED formVars
  BY <1>6
  DEF formVars, FormInv, AskersKeep, OwnEditsOnly, EditsAreCarried, SendOwnEdits, SaveIsRecord
<1> QED
  BY <1>1, <1>2, <1>3, <1>4, <1>5, <1>6 DEF FormNext

(* A save writes what its patch has, and that its author has edited. *)
LEMMA SaveWritesOwn ==
  ASSUME FormInv, [FormNext]_formVars, form \in SendOwnEdits,
         save.pc = "sent", save'.pc # "sent",
         NEW f \in fields, stored'[f] # stored[f]
  PROVE  f \in save.meant
<1>1. DOMAIN save.patch \subseteq save.meant /\ DOMAIN stored = fields
  BY DEF FormInv, OwnEditsOnly
<1>2. PICK patch : DOMAIN patch \subseteq DOMAIN save.patch /\ stored' \in {stored, Overlay(patch, stored)}
  <2>1. CASE Store
    BY <2>1 DEF Store
  <2>2. CASE StoreHalf
    <3> DEFINE half == Restrict(save.patch, {"member1"} \cap DOMAIN save.patch)
    <3>1. DOMAIN half \subseteq DOMAIN save.patch /\ stored' = Overlay(half, stored)
      BY <2>2 DEF StoreHalf, Restrict
    <3> HIDE DEF half
    <3> QED
      BY <3>1
  <2>3. CASE UNCHANGED stored
    BY <2>3
  <2>4. \A g \in fields, value \in Values : OthersSave(g, value) => save'.pc = "sent"
    BY DEF OthersSave
  <2>5. Store \/ StoreHalf \/ UNCHANGED stored
    BY <2>4
    DEF FormNext, formVars, Edit, Leave, PressSave, Send, Confirm, Decline, Fail, Answered, Failed
  <2> QED
    BY <2>1, <2>2, <2>3, <2>5
<1>3. f \in DOMAIN patch
  <2>1. stored' = Overlay(patch, stored)
    BY <1>2
  <2>2. f \in DOMAIN stored
    BY <1>1
  <2> QED
    BY <2>1, <2>2 DEF Overlay
<1> QED
  BY <1>1, <1>2, <1>3

(* An edit leaves the draft with its author's doing, or in a save. *)
LEMMA EditsLast ==
  ASSUME FormInv, [FormNext]_formVars, NEW f, f \in touched, f \in DOMAIN draft
  PROVE  \/ f \in DOMAIN draft' /\ draft'[f] = draft[f]
         \/ \E value \in Values : Edit(f, value)
         \/ Leave
         \/ /\ save.pc = "stored" /\ save'.pc = "idle"
            /\ f \in late \/ (f \in DOMAIN save.patch /\ save.patch[f] = draft[f])
<1>1. CASE UNCHANGED draft
  BY <1>1
<1>2. ASSUME NEW g \in fields, NEW value \in Values, Edit(g, value), f # g
      PROVE  f \in DOMAIN draft' /\ draft'[f] = draft[f]
  <2> DEFINE one == [h \in {g} |-> value]
  <2>1. DOMAIN one = {g} /\ draft' = Overlay(one, draft)
    BY <1>2 DEF Edit
  <2> HIDE DEF one
  <2> QED
    BY <1>2, <2>1 DEF Overlay
<1>3. CASE Answered /\ form.after # "keep"
  <2>1. save.pc = "stored" /\ save'.pc = "idle"
    BY <1>3 DEF Answered, NoSave
  <2> QED
    BY <1>3, <2>1 DEF FormInv, EditsAreCarried
<1>4. \/ UNCHANGED draft \/ Leave \/ (Answered /\ form.after # "keep")
      \/ \E g \in fields, value \in Values : Edit(g, value)
  <2>1. CASE PressSave \/ Confirm \/ Decline
    BY <2>1 DEF PressSave, Confirm, Decline, Send
  <2>2. CASE \/ Store \/ StoreHalf \/ Fail \/ Failed \/ UNCHANGED formVars
             \/ \E g \in fields, value \in Values : OthersSave(g, value)
    BY <2>2 DEF Store, StoreHalf, Fail, Failed, OthersSave, formVars
  <2>3. CASE Answered
    BY <2>3 DEF Answered
  <2> QED
    BY <2>1, <2>2, <2>3 DEF FormNext
<1> QED
  BY <1>1, <1>2, <1>3, <1>4

(* Whatever form is open, whichever of its fields are followed and whatever
   others store meanwhile: a form that sends what was edited writes nothing
   else, and what was typed goes only with its author's doing or with the
   answer to a save that carried it or was under way. *)
THEOREM SavesSpeakAlways == FormSpec => SavesSpeakForTheirAuthor
<1> DEFINE Speaks ==
      /\ form \in SendOwnEdits /\ save.pc = "sent" /\ save'.pc # "sent" =>
           \A f \in fields : stored'[f] # stored[f] => f \in save.meant
      /\ \A f \in touched \cap DOMAIN draft :
           \/ f \in DOMAIN draft' /\ draft'[f] = draft[f]
           \/ \E value \in Values : Edit(f, value)
           \/ Leave
           \/ /\ save.pc = "stored" /\ save'.pc = "idle"
              /\ f \in late \/ (f \in DOMAIN save.patch /\ save.patch[f] = draft[f])
<1>1. FormInv /\ [FormNext]_formVars => [Speaks]_formVars
  BY SaveWritesOwn, EditsLast
<1>2. FormInit => FormInv
  BY FormInvInit
<1>3. FormInv /\ [FormNext]_formVars => FormInv'
  BY FormInvStep
<1> QED
  BY <1>1, <1>2, <1>3, PTL DEF FormSpec, SavesSpeakForTheirAuthor

-----------------------------------------------------------------------------
(* The weekly grid: what the server has *)

(* The entries of every cell that are live, and their hours. *)
Current == [owner \in Owners |-> [cell \in GridCells |-> LiveEntries(owner, cell)]]
EntryHours ==
  [owner \in Owners |-> [cell \in GridCells |->
     IF Current[owner][cell] = {} THEN 0
     ELSE entries[CHOOSE i \in Current[owner][cell] : TRUE].hours]]

TableTypes ==
  /\ entries \in Seq(Entry) /\ Len(entries) <= MaxEntries
  /\ punched \in [Owners -> [GridCells -> Nat]]

(* The unique index: a cell has one manual entry that is live. *)
OneLive ==
  \A owner \in Owners, cell \in GridCells : \A i, j \in Current[owner][cell] : i = j

(* An entry superseded no punches but those that it takes. *)
TookOwn ==
  \A i \in 1..Len(entries), cell \in GridCells :
    cell \notin Takes[entries[i].cell] => entries[i].took[cell] = 0

TableInv == TableTypes /\ OneLive /\ TookOwn

(* Nothing has come to the employee's day, nor gone from it. *)
Spared(owner) ==
  /\ punched'[owner] = punched[owner]
  /\ \A cell \in GridCells : Current'[owner][cell] = Current[owner][cell]
  /\ \A i \in 1..Len(entries) :
       entries[i].owner = owner => i \in 1..Len(entries') /\ entries'[i] = entries[i]

(* One cell has another entry, or none, and every other cell has its own. *)
Fills(owner, cell, id) ==
  \A o \in Owners, c \in GridCells :
    Current'[o][c] = IF o = owner /\ c = cell THEN {id} ELSE Current[o][c]
Empties(owner, cell) ==
  \A o \in Owners, c \in GridCells :
    Current'[o][c] = IF o = owner /\ c = cell THEN {} ELSE Current[o][c]

(* The rows that are live, by their own columns. *)
LEMMA LiveRows ==
  ASSUME TableTypes, NEW owner \in Owners, NEW cell \in GridCells, NEW i
  PROVE  i \in Current[owner][cell] <=>
           /\ i \in 1..Len(entries) /\ entries[i].owner = owner /\ entries[i].cell = cell
           /\ ~entries[i].deleted
BY DEF TableTypes, LiveEntries, Current

LEMMA LiveRowsNext ==
  ASSUME TableTypes', NEW owner \in Owners, NEW cell \in GridCells, NEW i
  PROVE  i \in Current'[owner][cell] <=>
           /\ i \in 1..Len(entries') /\ entries'[i].owner = owner /\ entries'[i].cell = cell
           /\ ~entries'[i].deleted
BY DEF TableTypes, LiveEntries, Current

LEMMA RowTypes ==
  ASSUME TableTypes, NEW i \in 1..Len(entries)
  PROVE  /\ entries[i] \in Entry /\ i \in 1..MaxEntries
         /\ entries[i].owner \in Owners /\ entries[i].cell \in GridCells
         /\ entries[i].hours \in 1..MaxHours /\ entries[i].hours \in Nat
         /\ entries[i].took \in [GridCells -> Nat]
<1>1. entries[i] \in Entry /\ i \in 1..MaxEntries
  BY GridAssumption DEF TableTypes
<1> QED
  BY <1>1, GridAssumption DEF Entry

(* What a cell shows, by its live entry. *)
LEMMA ShownHours ==
  ASSUME TableInv, NEW owner \in Owners, NEW cell \in GridCells
  PROVE  /\ Current[owner][cell] = {} =>
              /\ ViewOf(owner, cell) = [hours |-> punched[owner][cell], id |-> 0]
              /\ EntryHours[owner][cell] = 0
         /\ \A i \in Current[owner][cell] :
              /\ ViewOf(owner, cell) = [hours |-> punched[owner][cell] + entries[i].hours, id |-> i]
              /\ EntryHours[owner][cell] = entries[i].hours
<1>1. Current[owner][cell] = LiveEntries(owner, cell)
  BY DEF Current
<1>2. EntryHours[owner][cell] = IF Current[owner][cell] = {} THEN 0
                                ELSE entries[CHOOSE i \in Current[owner][cell] : TRUE].hours
  BY DEF EntryHours
<1>3. CASE Current[owner][cell] = {}
  <2>1. punched[owner][cell] \in Nat
    BY DEF TableInv, TableTypes
  <2> QED
    BY <1>1, <1>2, <1>3, <2>1 DEF ViewOf
<1>4. ASSUME NEW i \in Current[owner][cell]
      PROVE  /\ ViewOf(owner, cell) = [hours |-> punched[owner][cell] + entries[i].hours, id |-> i]
             /\ EntryHours[owner][cell] = entries[i].hours
  <2>1. (CHOOSE j \in Current[owner][cell] : TRUE) = i
    BY <1>4 DEF TableInv, OneLive
  <2>2. (CHOOSE j \in LiveEntries(owner, cell) : TRUE) = i
    BY <1>1, <2>1
  <2>3. i # 0 /\ LiveEntries(owner, cell) # {}
    BY <1>1, <1>4, LiveRows DEF TableInv
  <2>4. ViewOf(owner, cell) = [hours |-> punched[owner][cell] + entries[i].hours, id |-> i]
    BY <2>2, <2>3 DEF ViewOf
  <2>5. EntryHours[owner][cell] = entries[i].hours
    BY <1>2, <1>4, <2>1
  <2> QED
    BY <2>4, <2>5
<1> QED
  BY <1>3, <1>4

LEMMA ViewTypes ==
  ASSUME TableInv, NEW owner \in Owners, NEW cell \in GridCells
  PROVE  /\ ViewOf(owner, cell) \in CellView
         /\ punched[owner][cell] \in Nat /\ EntryHours[owner][cell] \in Nat
         /\ ViewOf(owner, cell).hours = punched[owner][cell] + EntryHours[owner][cell]
         /\ ViewOf(owner, cell).id # 0 => ViewOf(owner, cell).id \in Current[owner][cell]
         /\ ViewOf(owner, cell).id = 0 => Current[owner][cell] = {}
<1>1. punched[owner][cell] \in Nat
  BY DEF TableInv, TableTypes
<1>2. CASE Current[owner][cell] = {}
  BY <1>1, <1>2, ShownHours, GridAssumption DEF CellView
<1>3. ASSUME NEW i \in Current[owner][cell]
      PROVE  /\ ViewOf(owner, cell) \in CellView /\ EntryHours[owner][cell] \in Nat
             /\ ViewOf(owner, cell).hours = punched[owner][cell] + EntryHours[owner][cell]
             /\ ViewOf(owner, cell).id = i /\ i # 0
  <2>1. i \in 1..Len(entries)
    BY <1>3, LiveRows DEF TableInv
  <2>2. entries[i].hours \in Nat /\ i \in 1..MaxEntries /\ MaxEntries \in Nat
    BY <2>1, RowTypes, GridAssumption DEF TableInv
  <2>3. PICK view : view = [hours |-> punched[owner][cell] + entries[i].hours, id |-> i]
    OBVIOUS
  <2>4. view \in CellView
    BY <1>1, <2>2, <2>3 DEF CellView
  <2> QED
    BY <1>3, <2>2, <2>3, <2>4, ShownHours
<1> QED
  BY <1>1, <1>2, <1>3, ShownHours

(* The hours of a cell after a step. *)
LEMMA HoursNext ==
  ASSUME TableInv', NEW owner \in Owners, NEW cell \in GridCells
  PROVE  /\ Current'[owner][cell] = {} => EntryHours'[owner][cell] = 0
         /\ \A i \in Current'[owner][cell] : EntryHours'[owner][cell] = entries'[i].hours
<1>1. EntryHours'[owner][cell] = IF Current'[owner][cell] = {} THEN 0
                                 ELSE entries'[CHOOSE i \in Current'[owner][cell] : TRUE].hours
  BY DEF EntryHours
<1>2. ASSUME NEW i \in Current'[owner][cell] PROVE EntryHours'[owner][cell] = entries'[i].hours
  <2>1. (CHOOSE j \in Current'[owner][cell] : TRUE) = i
    BY <1>2 DEF TableInv, OneLive
  <2> QED
    BY <1>1, <1>2, <2>1
<1> QED
  BY <1>1, <1>2

LEMMA ViewNext ==
  ASSUME TableInv', NEW owner \in Owners, NEW cell \in GridCells
  PROVE  /\ ViewOf(owner, cell)'.hours = punched'[owner][cell] + EntryHours'[owner][cell]
         /\ Current'[owner][cell] = {} => ViewOf(owner, cell)'.id = 0
         /\ \A i \in Current'[owner][cell] : ViewOf(owner, cell)'.id = i
<1>1. Current'[owner][cell] = LiveEntries(owner, cell)' /\ punched'[owner][cell] \in Nat
  BY DEF Current, TableInv, TableTypes
<1>2. CASE Current'[owner][cell] = {}
  <2>1. ViewOf(owner, cell)' = [hours |-> punched'[owner][cell] + 0, id |-> 0]
    BY <1>1, <1>2 DEF ViewOf
  <2> QED
    BY <1>2, <2>1, HoursNext
<1>3. ASSUME NEW i \in Current'[owner][cell]
      PROVE  /\ ViewOf(owner, cell)'.hours = punched'[owner][cell] + EntryHours'[owner][cell]
             /\ ViewOf(owner, cell)'.id = i
  <2>1. (CHOOSE j \in Current'[owner][cell] : TRUE) = i
    BY <1>3 DEF TableInv, OneLive
  <2>2. (CHOOSE j \in LiveEntries(owner, cell)' : TRUE) = i
    BY <1>1, <2>1
  <2>3. i # 0 /\ LiveEntries(owner, cell)' # {}
    BY <1>1, <1>3, LiveRowsNext DEF TableInv
  <2>4. ViewOf(owner, cell)' = [hours |-> punched'[owner][cell] + entries'[i].hours, id |-> i]
    BY <2>2, <2>3 DEF ViewOf
  <2> QED
    BY <1>3, <2>4, HoursNext
<1> QED
  BY <1>2, <1>3

(* An employee whose row stays as it is in a cell has the same hours there. *)
LEMMA HoursStay ==
  ASSUME TableInv, TableInv', NEW owner \in Owners, NEW cell \in GridCells,
         Current'[owner][cell] = Current[owner][cell],
         \A i \in Current[owner][cell] : entries'[i] = entries[i]
  PROVE  EntryHours'[owner][cell] = EntryHours[owner][cell]
<1>1. CASE Current[owner][cell] = {}
  BY <1>1, ShownHours, HoursNext
<1>2. ASSUME NEW i \in Current[owner][cell] PROVE EntryHours'[owner][cell] = EntryHours[owner][cell]
  BY <1>2, ShownHours, HoursNext
<1> QED
  BY <1>1, <1>2

(* A day that was left alone shows what it did. *)
LEMMA SparedShows ==
  ASSUME TableInv, TableInv', NEW owner \in Owners, Spared(owner), NEW cell \in GridCells
  PROVE  /\ EntryHours'[owner][cell] = EntryHours[owner][cell]
         /\ punched'[owner][cell] = punched[owner][cell]
         /\ ViewOf(owner, cell)'.hours = ViewOf(owner, cell).hours
         /\ ViewOf(owner, cell)'.id = ViewOf(owner, cell).id
<1>1. Current'[owner][cell] = Current[owner][cell] /\ punched'[owner][cell] = punched[owner][cell]
  BY DEF Spared
<1>2. \A i \in Current[owner][cell] : entries'[i] = entries[i]
  BY LiveRows DEF Spared, TableInv
<1>3. EntryHours'[owner][cell] = EntryHours[owner][cell]
  BY <1>1, <1>2, HoursStay
<1>4. ViewOf(owner, cell)'.hours = ViewOf(owner, cell).hours
  BY <1>1, <1>3, ViewTypes, ViewNext
<1>5. ViewOf(owner, cell)'.id = ViewOf(owner, cell).id
  BY <1>1, ShownHours, ViewNext
<1> QED
  BY <1>1, <1>3, <1>4, <1>5

(* Nobody's day is touched by what leaves the table alone. *)
LEMMA QuietTable ==
  ASSUME TableInv, UNCHANGED <<entries, punched>>
  PROVE  TableInv' /\ \A owner \in Owners : Spared(owner)
<1>1. Current' = Current
  BY DEF Current, LiveEntries
<1>2. OneLive' /\ TookOwn' /\ TableTypes'
  BY <1>1 DEF TableInv, OneLive, TookOwn, TableTypes
<1> QED
  BY <1>1, <1>2 DEF TableInv, Spared

-----------------------------------------------------------------------------
(* What the server does to the table *)

(* The cell had no entry; now it has the new one, and punches gave way. *)
LEMMA CreateEffect ==
  ASSUME TableInv, NEW change \in Change, CreateEntry(change),
         NEW id, id = Len(entries) + 1, NEW o, o = change.owner, NEW c, c = change.cell
  PROVE  /\ TableInv' /\ Len(entries') = id /\ Len(entries) \in Nat
         /\ \A i \in 1..Len(entries) : entries'[i] = entries[i]
         /\ o \in Owners /\ c \in GridCells
         /\ Current[o][c] = {}
         /\ Fills(o, c, id)
         /\ entries'[id].owner = o /\ entries'[id].cell = c /\ entries'[id].hours = change.hours
         /\ entries'[id].took = [cell \in GridCells |->
                                   IF cell \in Takes[c] THEN punched[o][cell] ELSE 0]
<1> DEFINE n == Len(entries)
<1>1. PICK took : took = [cell \in GridCells |->
                            IF cell \in Takes[c] THEN punched[o][cell] ELSE 0]
  OBVIOUS
<1>2. PICK new : new = [owner |-> o, cell |-> c, hours |-> change.hours, took |-> took,
                        deleted |-> FALSE]
  OBVIOUS
<1>3. /\ entries \in Seq(Entry) /\ n \in Nat /\ punched \in [Owners -> [GridCells -> Nat]]
      /\ o \in Owners /\ c \in GridCells
  BY DEF TableInv, TableTypes, Change
<1>4. /\ Current[o][c] = {} /\ change.hours \in 1..MaxHours /\ n < MaxEntries
      /\ entries' = Append(entries, new) /\ punched' = TakePunches(o, c)
  BY <1>1, <1>2, <1>3 DEF CreateEntry, Current
<1>5. took \in [GridCells -> Nat]
  BY <1>1, <1>3
<1>6. new \in Entry
  BY <1>2, <1>3, <1>4, <1>5 DEF Entry
<1>7. /\ entries' \in Seq(Entry) /\ Len(entries') = n + 1 /\ entries'[n + 1] = new
      /\ \A i \in 1..n : entries'[i] = entries[i]
  BY <1>3, <1>4, <1>6
<1>8. punched' \in [Owners -> [GridCells -> Nat]]
  <2>1. PICK day : day = [cell \in GridCells |-> IF cell \in Takes[c] THEN 0 ELSE punched[o][cell]]
    OBVIOUS
  <2>2. day \in [GridCells -> Nat]
    BY <1>3, <2>1
  <2>3. punched' = [punched EXCEPT ![o] = day]
    BY <1>3, <1>4, <2>1 DEF TakePunches
  <2> QED
    BY <1>3, <2>2, <2>3
<1>9. TableTypes /\ TableTypes'
  BY <1>3, <1>4, <1>7, <1>8, GridAssumption DEF TableTypes, TableInv
<1>10. ASSUME NEW owner \in Owners, NEW cell \in GridCells
       PROVE  Current'[owner][cell] =
                IF owner = o /\ cell = c THEN {n + 1} ELSE Current[owner][cell]
  <2>1. ASSUME NEW i
        PROVE  i \in Current'[owner][cell] <=>
                 \/ i \in Current[owner][cell]
                 \/ i = n + 1 /\ owner = o /\ cell = c
    <3>1. i \in Current'[owner][cell] <=>
            /\ i \in 1..(n + 1) /\ entries'[i].owner = owner /\ entries'[i].cell = cell
            /\ ~entries'[i].deleted
      BY <1>7, <1>9, LiveRowsNext
    <3>2. i \in Current[owner][cell] <=>
            /\ i \in 1..n /\ entries[i].owner = owner /\ entries[i].cell = cell
            /\ ~entries[i].deleted
      BY <1>9, LiveRows
    <3>3. CASE i \in 1..n
      <4>1. entries'[i] = entries[i] /\ i \in 1..(n + 1) /\ i # n + 1
        BY <1>3, <1>7, <3>3
      <4> QED
        BY <3>1, <3>2, <3>3, <4>1
    <3>4. CASE i = n + 1
      <4>1. i \notin 1..n /\ i \in 1..(n + 1) /\ entries'[i] = new
        BY <1>3, <1>7, <3>4
      <4>2. new.owner = o /\ new.cell = c /\ ~new.deleted
        BY <1>2
      <4>3. i \in Current'[owner][cell] <=> owner = o /\ cell = c
        BY <3>1, <4>1, <4>2
      <4> QED
        BY <3>2, <3>4, <4>1, <4>3
    <3>5. CASE i \notin 1..(n + 1)
      BY <1>3, <3>1, <3>2, <3>5
    <3> QED
      BY <1>3, <3>3, <3>4, <3>5
  <2>2. CASE owner = o /\ cell = c
    BY <1>4, <2>1, <2>2
  <2>3. CASE ~(owner = o /\ cell = c)
    BY <2>1, <2>3
  <2> QED
    BY <2>2, <2>3
<1>11. Fills(o, c, id)
  BY <1>10 DEF Fills
<1>12. OneLive'
  <2> SUFFICES ASSUME NEW owner \in Owners, NEW cell \in GridCells
               PROVE  \A i, j \in Current'[owner][cell] : i = j
    BY DEF OneLive
  <2>1. CASE owner = o /\ cell = c
    BY <1>10, <2>1
  <2>2. CASE ~(owner = o /\ cell = c)
    BY <1>10, <2>2 DEF OneLive, TableInv
  <2> QED
    BY <2>1, <2>2
<1>13. TookOwn'
  <2> SUFFICES ASSUME NEW i \in 1..(n + 1), NEW cell \in GridCells,
                      cell \notin Takes[entries'[i].cell]
               PROVE  entries'[i].took[cell] = 0
    BY <1>7 DEF TookOwn
  <2>1. CASE i \in 1..n
    BY <1>7, <2>1 DEF TookOwn, TableInv
  <2>2. CASE i = n + 1
    BY <1>1, <1>2, <1>7, <2>2
  <2> QED
    BY <1>3, <2>1, <2>2
<1> QED
  BY <1>1, <1>2, <1>3, <1>4, <1>7, <1>9, <1>11, <1>12, <1>13 DEF TableInv

(* The live entry of a cell changes, or goes. *)
LEMMA RowEffect ==
  ASSUME TableInv, NEW id \in 1..Len(entries), ~entries[id].deleted,
         NEW r \in Entry, r.owner = entries[id].owner, r.cell = entries[id].cell,
         r.took = entries[id].took, entries' = [entries EXCEPT ![id] = r],
         punched' \in [Owners -> [GridCells -> Nat]]
  PROVE  /\ TableInv' /\ Len(entries') = Len(entries)
         /\ \A i \in 1..Len(entries) : entries'[i] = IF i = id THEN r ELSE entries[i]
         /\ id \in Current[r.owner][r.cell]
         /\ r.deleted => Empties(r.owner, r.cell)
         /\ ~r.deleted => Fills(r.owner, r.cell, id)
<1> DEFINE n == Len(entries)
           o == r.owner
           c == r.cell
<1>1. entries \in Seq(Entry) /\ n \in Nat /\ TableTypes /\ OneLive
  BY DEF TableInv, TableTypes
<1>2. o \in Owners /\ c \in GridCells
  BY DEF Entry
<1>3. /\ entries' \in Seq(Entry) /\ Len(entries') = n
      /\ \A i \in 1..n : entries'[i] = IF i = id THEN r ELSE entries[i]
  BY <1>1, ExceptSeq
<1>4. TableTypes'
  BY <1>1, <1>3 DEF TableTypes
<1>5. id \in Current[o][c] /\ \A i \in Current[o][c] : i = id
  <2>1. id \in Current[o][c]
    BY <1>1, <1>2, LiveRows
  <2> QED
    BY <1>1, <1>2, <2>1 DEF OneLive
<1>6. ASSUME NEW owner \in Owners, NEW cell \in GridCells
      PROVE  Current'[owner][cell] = IF owner = o /\ cell = c
                                     THEN IF r.deleted THEN {} ELSE {id}
                                     ELSE Current[owner][cell]
  <2>1. ASSUME NEW i
        PROVE  i \in Current'[owner][cell] <=>
                 IF i = id THEN owner = o /\ cell = c /\ ~r.deleted ELSE i \in Current[owner][cell]
    <3>1. i \in Current'[owner][cell] <=>
            /\ i \in 1..n /\ entries'[i].owner = owner /\ entries'[i].cell = cell
            /\ ~entries'[i].deleted
      BY <1>3, <1>4, LiveRowsNext
    <3>2. i \in Current[owner][cell] <=>
            /\ i \in 1..n /\ entries[i].owner = owner /\ entries[i].cell = cell
            /\ ~entries[i].deleted
      BY <1>1, LiveRows
    <3>3. CASE i = id
      <4>1. i \in 1..n /\ entries'[i] = r
        BY <1>3, <3>3
      <4> QED
        BY <3>1, <3>3, <4>1
    <3>4. CASE i # id
      <4>1. i \in 1..n => entries'[i] = entries[i]
        BY <1>3, <3>4
      <4> QED
        BY <3>1, <3>2, <3>4, <4>1
    <3> QED
      BY <3>3, <3>4
  <2>2. CASE owner = o /\ cell = c
    <3>1. \A i : i \in Current'[owner][cell] <=> i = id /\ ~r.deleted
      BY <1>5, <2>1, <2>2
    <3> QED
      BY <2>2, <3>1
  <2>3. CASE ~(owner = o /\ cell = c)
    <3>1. id \notin Current[owner][cell]
      BY <1>1, <2>3, LiveRows
    <3>2. \A i : i \in Current'[owner][cell] <=> i \in Current[owner][cell]
      BY <2>1, <2>3, <3>1
    <3> QED
      BY <2>3, <3>2
  <2> QED
    BY <2>2, <2>3
<1>7. (r.deleted => Empties(o, c)) /\ (~r.deleted => Fills(o, c, id))
  BY <1>6 DEF Empties, Fills
<1>8. OneLive'
  <2> SUFFICES ASSUME NEW owner \in Owners, NEW cell \in GridCells
               PROVE  \A i, j \in Current'[owner][cell] : i = j
    BY DEF OneLive
  <2>1. CASE owner = o /\ cell = c
    BY <1>6, <2>1
  <2>2. CASE ~(owner = o /\ cell = c)
    BY <1>1, <1>6, <2>2 DEF OneLive
  <2> QED
    BY <2>1, <2>2
<1>9. TookOwn'
  <2> SUFFICES ASSUME NEW i \in 1..n, NEW cell \in GridCells, cell \notin Takes[entries'[i].cell]
               PROVE  entries'[i].took[cell] = 0
    BY <1>3 DEF TookOwn
  <2>1. entries'[i].cell = entries[i].cell /\ entries'[i].took = entries[i].took
    BY <1>3
  <2> QED
    BY <2>1 DEF TookOwn, TableInv
<1> QED
  BY <1>3, <1>4, <1>5, <1>7, <1>8, <1>9 DEF TableInv

LEMMA UpdateEffect ==
  ASSUME TableInv, NEW change \in Change, UpdateEntry(change), NEW id, id = change.id,
         NEW o, o = entries[id].owner, NEW c, c = entries[id].cell
  PROVE  /\ TableInv' /\ Len(entries') = Len(entries) /\ id \in 1..Len(entries)
         /\ \A i \in 1..Len(entries) : i # id => entries'[i] = entries[i]
         /\ o \in Owners /\ c \in GridCells /\ id \in Current[o][c]
         /\ Fills(o, c, id)
         /\ entries'[id].hours = change.hours
         /\ entries'[id].owner = o /\ entries'[id].cell = c
<1>1. /\ id \in 1..Len(entries) /\ ~entries[id].deleted /\ change.hours \in 1..MaxHours
      /\ punched' = punched /\ punched \in [Owners -> [GridCells -> Nat]]
  BY DEF UpdateEntry, TableInv, TableTypes
<1>2. PICK row : row = entries[id]
  OBVIOUS
<1>3. row \in Entry /\ o \in Owners /\ c \in GridCells /\ ~row.deleted
  BY <1>1, <1>2, RowTypes DEF TableInv
<1>4. PICK r : r = [row EXCEPT !.hours = change.hours]
  OBVIOUS
<1>5. /\ r \in Entry /\ r.owner = o /\ r.cell = c
      /\ r.hours = change.hours /\ r.took = entries[id].took /\ ~r.deleted
  BY <1>1, <1>2, <1>3, <1>4 DEF Entry
<1>6. entries' = [entries EXCEPT ![id] = r]
  BY <1>2, <1>4 DEF UpdateEntry
<1>7. punched' \in [Owners -> [GridCells -> Nat]] /\ id \in 1..Len(entries) /\ ~entries[id].deleted
  BY <1>1
<1>8. r \in Entry /\ r.owner = entries[id].owner /\ r.cell = entries[id].cell /\ r.took = entries[id].took
  BY <1>5
<1>9. /\ TableInv' /\ Len(entries') = Len(entries)
      /\ \A i \in 1..Len(entries) : entries'[i] = IF i = id THEN r ELSE entries[i]
      /\ id \in Current[r.owner][r.cell]
      /\ Fills(r.owner, r.cell, id)
  BY <1>5, <1>6, <1>7, <1>8, RowEffect
<1> QED
  BY <1>1, <1>3, <1>5, <1>9

LEMMA RemoveEffect ==
  ASSUME TableInv, NEW change \in Change, RemoveEntry(change), NEW id, id = change.id,
         NEW o, o = entries[id].owner, NEW c, c = entries[id].cell
  PROVE  /\ TableInv' /\ Len(entries') = Len(entries) /\ id \in 1..Len(entries)
         /\ \A i \in 1..Len(entries) : i # id => entries'[i] = entries[i]
         /\ o \in Owners /\ c \in GridCells /\ id \in Current[o][c]
         /\ Empties(o, c)
         /\ entries'[id].owner = o /\ entries'[id].cell = c
         /\ punched' = [punched EXCEPT ![o] =
                          [cell \in GridCells |-> punched[o][cell] + entries[id].took[cell]]]
<1>1. /\ id \in 1..Len(entries) /\ ~entries[id].deleted
      /\ punched \in [Owners -> [GridCells -> Nat]]
  BY DEF RemoveEntry, TableInv, TableTypes
<1>2. PICK row : row = entries[id]
  OBVIOUS
<1>3. row \in Entry /\ o \in Owners /\ c \in GridCells /\ ~row.deleted /\ row.took \in [GridCells -> Nat]
  BY <1>1, <1>2, RowTypes DEF TableInv
<1>4. PICK r : r = [row EXCEPT !.deleted = TRUE]
  OBVIOUS
<1>5. r \in Entry /\ r.owner = o /\ r.cell = c /\ r.took = entries[id].took /\ r.deleted
  BY <1>2, <1>3, <1>4 DEF Entry
<1>6. entries' = [entries EXCEPT ![id] = r]
  BY <1>2, <1>4 DEF RemoveEntry
<1>7. PICK day : day = [cell \in GridCells |-> punched[o][cell] + row.took[cell]]
  OBVIOUS
<1>8. day \in [GridCells -> Nat]
  BY <1>1, <1>3, <1>7
<1>9. punched' = [punched EXCEPT ![o] = day]
  BY <1>1, <1>2, <1>3, <1>7 DEF RemoveEntry
<1>10. punched' \in [Owners -> [GridCells -> Nat]]
  BY <1>1, <1>8, <1>9
<1>11. r.owner = entries[id].owner /\ r.cell = entries[id].cell
  BY <1>5
<1>12. /\ TableInv' /\ Len(entries') = Len(entries)
       /\ \A i \in 1..Len(entries) : entries'[i] = IF i = id THEN r ELSE entries[i]
       /\ id \in Current[r.owner][r.cell]
       /\ Empties(r.owner, r.cell)
  BY <1>1, <1>5, <1>6, <1>10, <1>11, RowEffect
<1> QED
  BY <1>1, <1>2, <1>3, <1>5, <1>7, <1>9, <1>12

-----------------------------------------------------------------------------
(* What a change makes of the day of its employee, cell by cell *)

CellOf(change) == IF change.op = "create" THEN change.cell ELSE entries[change.id].cell

(* The hours that are punched then... *)
Left(change, cell) ==
  LET here == punched[OwnerOf(change)][cell]
  IN  CASE change.op = "create" -> IF cell \in Takes[change.cell] THEN 0 ELSE here
        [] change.op = "update" -> here
        [] change.op = "remove" -> here + entries[change.id].took[cell]

(* ... and those that are entered. *)
Entered(change, cell) ==
  IF cell # CellOf(change) THEN EntryHours[OwnerOf(change)][cell]
  ELSE IF change.op = "remove" THEN 0 ELSE change.hours

(* Where the entry of a cell is as it was, so are its hours. *)
LEMMA OtherHours ==
  ASSUME TableInv, TableInv', NEW o \in Owners, NEW c \in GridCells, NEW id,
         Fills(o, c, id) \/ Empties(o, c),
         \A i \in 1..Len(entries) :
           (entries[i].owner = o /\ entries[i].cell = c) \/ entries'[i] = entries[i],
         NEW cell \in GridCells, cell # c
  PROVE  EntryHours'[o][cell] = EntryHours[o][cell]
<1>1. Current'[o][cell] = Current[o][cell]
  BY DEF Fills, Empties
<1>2. \A i \in Current[o][cell] : entries'[i] = entries[i]
  BY LiveRows DEF TableInv
<1> QED
  BY <1>1, <1>2, HoursStay

(* The others' days are spared. *)
LEMMA OthersSpared ==
  ASSUME TableInv, TableInv', Len(entries) <= Len(entries'), NEW o, NEW c, NEW id,
         Fills(o, c, id) \/ Empties(o, c),
         \A i \in 1..Len(entries) : entries[i].owner = o \/ entries'[i] = entries[i],
         \A other \in Owners : other # o => punched'[other] = punched[other]
  PROVE  \A other \in Owners : other # o => Spared(other)
<1> SUFFICES ASSUME NEW other \in Owners, other # o PROVE Spared(other)
  OBVIOUS
<1>1. \A cell \in GridCells : Current'[other][cell] = Current[other][cell]
  BY DEF Fills, Empties
<1>2. \A i \in 1..Len(entries) : i \in 1..Len(entries')
  BY DEF TableInv, TableTypes
<1> QED
  BY <1>1, <1>2 DEF Spared

(* A change that the server carries out is one of its employee's day. *)
LEMMA EffectTable ==
  ASSUME TableInv, NEW change \in Change, Effect(change), NEW o, o = OwnerOf(change)
  PROVE  /\ TableInv' /\ Len(entries) <= Len(entries') /\ IdOf(change) \in 1..Len(entries')
         /\ o \in Owners /\ CellOf(change) \in GridCells
         /\ \A other \in Owners : other # o => Spared(other)
         /\ \A cell \in GridCells :
              /\ punched'[o][cell] = Left(change, cell)
              /\ EntryHours'[o][cell] = Entered(change, cell)
<1>1. change.op \in {"create", "update", "remove"} /\ change.owner \in Owners
  BY DEF Change
<1>2. PICK n : n = Len(entries)
  OBVIOUS
<1>3. TableTypes /\ n \in Nat /\ punched \in [Owners -> [GridCells -> Nat]]
  BY <1>2 DEF TableInv, TableTypes
<1>4. CASE change.op = "create"
  <2>1. PICK id : id = n + 1
    OBVIOUS
  <2>2. PICK c : c = change.cell
    OBVIOUS
  <2>3. CreateEntry(change) /\ o = change.owner /\ IdOf(change) = id /\ c = CellOf(change)
    BY <1>2, <1>4, <2>1, <2>2 DEF Effect, OwnerOf, IdOf, CellOf
  <2>4. /\ TableInv' /\ o \in Owners /\ c \in GridCells
        /\ Len(entries') = id /\ \A i \in 1..n : entries'[i] = entries[i]
        /\ entries'[id].hours = change.hours
        /\ Current[o][c] = {} /\ Fills(o, c, id)
    BY <1>2, <2>1, <2>2, <2>3, CreateEffect
  <2>5. punched' = TakePunches(o, c)
    BY <2>2, <2>3 DEF CreateEntry
  <2>6. /\ \A other \in Owners : other # o => punched'[other] = punched[other]
        /\ \A cell \in GridCells :
             punched'[o][cell] = IF cell \in Takes[c] THEN 0 ELSE punched[o][cell]
    BY <1>3, <2>4, <2>5 DEF TakePunches
  <2>7. Len(entries) <= Len(entries') /\ id \in 1..Len(entries')
    BY <1>2, <1>3, <2>1, <2>4
  <2>8. \A other \in Owners : other # o => Spared(other)
    BY <1>2, <2>4, <2>6, <2>7, OthersSpared
  <2>9. ASSUME NEW cell \in GridCells PROVE punched'[o][cell] = Left(change, cell)
    BY <1>4, <2>2, <2>3, <2>6 DEF Left
  <2>10. ASSUME NEW cell \in GridCells PROVE EntryHours'[o][cell] = Entered(change, cell)
    <3>1. CASE cell = c
      <4>1. id \in Current'[o][c]
        BY <2>4 DEF Fills
      <4>2. EntryHours'[o][c] = change.hours
        BY <2>4, <4>1, HoursNext
      <4> QED
        BY <1>4, <2>3, <3>1, <4>2 DEF Entered
    <3>2. CASE cell # c
      <4>1. EntryHours'[o][cell] = EntryHours[o][cell]
        BY <1>2, <2>4, <3>2, OtherHours
      <4> QED
        BY <2>3, <3>2, <4>1 DEF Entered
    <3> QED
      BY <3>1, <3>2
  <2> QED
    BY <2>3, <2>4, <2>7, <2>8, <2>9, <2>10
<1>5. CASE change.op \in {"update", "remove"}
  <2>1. PICK id : id = change.id
    OBVIOUS
  <2>2. PICK c : c = entries[id].cell
    OBVIOUS
  <2>3. o = entries[id].owner /\ IdOf(change) = id /\ CellOf(change) = c
    BY <1>5, <2>1, <2>2 DEF OwnerOf, IdOf, CellOf
  <2>4. \/ change.op = "update" /\ UpdateEntry(change)
        \/ change.op = "remove" /\ RemoveEntry(change)
    BY <1>5 DEF Effect
  <2>5. /\ TableInv' /\ Len(entries') = n /\ id \in 1..n
        /\ \A i \in 1..n : i # id => entries'[i] = entries[i]
        /\ o \in Owners /\ c \in GridCells
        /\ change.op = "update" => Fills(o, c, id) /\ entries'[id].hours = change.hours
        /\ change.op = "remove" => Empties(o, c)
    <3>1. CASE change.op = "update" /\ UpdateEntry(change)
      BY <1>2, <2>1, <2>2, <2>3, <3>1, UpdateEffect
    <3>2. CASE change.op = "remove" /\ RemoveEntry(change)
      BY <1>2, <2>1, <2>2, <2>3, <3>2, RemoveEffect
    <3> QED
      BY <2>4, <3>1, <3>2
  <2>6. Fills(o, c, id) \/ Empties(o, c)
    BY <1>5, <2>5
  <2>7. /\ change.op = "update" => punched' = punched
        /\ change.op = "remove" =>
             punched' = [punched EXCEPT ![o] =
                           [cell \in GridCells |-> punched[o][cell] + entries[id].took[cell]]]
    <3>1. CASE change.op = "update" /\ UpdateEntry(change)
      BY <3>1 DEF UpdateEntry
    <3>2. CASE change.op = "remove" /\ RemoveEntry(change)
      BY <2>1, <2>2, <2>3, <3>2, RemoveEffect
    <3> QED
      BY <2>4, <3>1, <3>2
  <2>8. \A other \in Owners : other # o => punched'[other] = punched[other]
    BY <1>3, <1>5, <2>5, <2>7
  <2>9. Len(entries) <= Len(entries') /\ id \in 1..Len(entries')
    BY <1>2, <1>3, <2>5
  <2>10. \A other \in Owners : other # o => Spared(other)
    <3>1. \A i \in 1..Len(entries) : entries[i].owner = o \/ entries'[i] = entries[i]
      BY <1>2, <2>3, <2>5
    <3> QED
      BY <2>5, <2>6, <2>8, <2>9, <3>1, OthersSpared
  <2>11. ASSUME NEW cell \in GridCells PROVE punched'[o][cell] = Left(change, cell)
    BY <1>3, <1>5, <2>1, <2>3, <2>5, <2>7 DEF Left
  <2>12. ASSUME NEW cell \in GridCells PROVE EntryHours'[o][cell] = Entered(change, cell)
    <3>1. CASE cell = c /\ change.op = "update"
      <4>1. id \in Current'[o][c] /\ entries'[id].hours = change.hours
        BY <2>5, <3>1 DEF Fills
      <4>2. EntryHours'[o][c] = change.hours
        BY <2>5, <4>1, HoursNext
      <4> QED
        BY <2>3, <3>1, <4>2 DEF Entered
    <3>2. CASE cell = c /\ change.op = "remove"
      <4>1. Current'[o][c] = {}
        BY <2>5, <3>2 DEF Empties
      <4>2. EntryHours'[o][c] = 0
        BY <2>5, <4>1, HoursNext
      <4> QED
        BY <2>3, <3>2, <4>2 DEF Entered
    <3>3. CASE cell # c
      <4>1. \A i \in 1..Len(entries) :
              (entries[i].owner = o /\ entries[i].cell = c) \/ entries'[i] = entries[i]
        BY <1>2, <2>2, <2>3, <2>5
      <4>2. EntryHours'[o][cell] = EntryHours[o][cell]
        BY <2>5, <2>6, <3>3, <4>1, OtherHours
      <4> QED
        BY <2>3, <3>3, <4>2 DEF Entered
    <3> QED
      BY <1>5, <3>1, <3>2, <3>3
  <2> QED
    BY <2>3, <2>5, <2>9, <2>10, <2>11, <2>12
<1> QED
  BY <1>1, <1>4, <1>5

(* Others change an employee's day, and it alone. *)
LEMMA OthersTable ==
  ASSUME TableInv, NEW owner \in Owners, NEW cell \in GridCells, OthersChange(owner, cell)
  PROVE  /\ TableInv' /\ Len(entries) <= Len(entries')
         /\ \A other \in Owners : other # owner => Spared(other)
<1>1. ASSUME NEW n \in 0..MaxPunched, punched' = [punched EXCEPT ![owner][cell] = n],
             UNCHANGED entries
      PROVE  /\ TableInv' /\ Len(entries) <= Len(entries')
             /\ \A other \in Owners : other # owner => Spared(other)
  <2>1. Current' = Current
    BY <1>1 DEF Current, LiveEntries
  <2>2. /\ punched \in [Owners -> [GridCells -> Nat]] /\ n \in Nat /\ Len(entries) \in Nat
    BY GridAssumption DEF TableInv, TableTypes
  <2>3. /\ punched' \in [Owners -> [GridCells -> Nat]]
        /\ \A other \in Owners : other # owner => punched'[other] = punched[other]
    BY <1>1, <2>2
  <2>4. TableInv'
    BY <1>1, <2>1, <2>3 DEF TableInv, TableTypes, OneLive, TookOwn
  <2> QED
    BY <1>1, <2>1, <2>2, <2>3, <2>4 DEF Spared
<1>2. ASSUME NEW op \in {"create", "update", "remove"}, NEW hours \in 1..MaxHours,
             Effect([op |-> op, owner |-> owner, cell |-> cell,
                     id |-> ViewOf(owner, cell).id, hours |-> hours])
      PROVE  /\ TableInv' /\ Len(entries) <= Len(entries')
             /\ \A other \in Owners : other # owner => Spared(other)
  <2>1. PICK id : id = ViewOf(owner, cell).id
    OBVIOUS
  <2>2. id \in 0..MaxEntries /\ (id # 0 => id \in Current[owner][cell])
    BY <2>1, ViewTypes DEF CellView
  <2>3. PICK change : change = [op |-> op, owner |-> owner, cell |-> cell, id |-> id, hours |-> hours]
    OBVIOUS
  <2>4. change \in Change /\ Effect(change)
    BY <1>2, <2>1, <2>2, <2>3, GridAssumption DEF Change
  <2>5. OwnerOf(change) = owner
    <3>1. CASE op = "create"
      BY <2>3, <3>1 DEF OwnerOf
    <3>2. CASE op # "create"
      <4>1. id \in DOMAIN entries
        BY <2>3, <2>4, <3>2 DEF Effect, UpdateEntry, RemoveEntry
      <4>2. id # 0
        BY <4>1 DEF TableInv, TableTypes
      <4>3. entries[id].owner = owner
        BY <2>2, <4>2, LiveRows DEF TableInv
      <4> QED
        BY <2>3, <3>2, <4>3 DEF OwnerOf
    <3> QED
      BY <3>1, <3>2
  <2> QED
    BY <2>4, <2>5, EffectTable
<1> QED
  BY <1>1, <1>2 DEF OthersChange

-----------------------------------------------------------------------------
(* What the page remembers, and its types *)

(* An entry that the page remembers has been made. *)
Made(id) == id \in 1..Len(entries)

CallShape(call) ==
  \/ call = NoCall
  \/ /\ call = [pc |-> call.pc, change |-> call.change, of |-> call.of]
     /\ call.pc \in {"sent", "done"} /\ call.change \in Change
     /\ call.of \in Subject \cup {NoSubject}

ViewsFit ==
  /\ person \in Owners
  /\ grid \in [Owners -> [GridCells -> CellView] \cup {NoGrid}] /\ editor \in Editor \cup {NoEditor}
ToastFits == undo \in Toast \cup {NoToast} /\ (undo.kind \in {"created", "updated"} => Made(undo.id))
SaveFits ==
  CallShape(saving) /\ (saving.pc = "done" /\ saving.change.op # "remove" => Made(saving.change.id))

GridTypeInv ==
  /\ TableInv
  /\ ViewsFit /\ ToastFits /\ SaveFits /\ CallShape(undoing)
  /\ subject \in Subject \cup {NoSubject} /\ changes \in 0..MaxChanges

LEMMA Nothings ==
  /\ NoSubject \notin Subject /\ NoCall.pc = "none" /\ NoToast.kind = "none"
BY DEF NoSubject, Subject, NoCall, NoToast

LEMMA GridTypes == GridTypeInv => GridTypeOK
<1> SUFFICES ASSUME GridTypeInv PROVE GridTypeOK
  OBVIOUS
<1>1. /\ entries \in Seq(Entry) /\ punched \in [Owners -> [GridCells -> Nat]]
      /\ CallShape(saving) /\ CallShape(undoing)
  BY DEF GridTypeInv, TableInv, TableTypes, SaveFits
<1>2. ASSUME NEW call, CallShape(call)
      PROVE  /\ call.pc \in {"none", "sent", "done"}
             /\ call.pc # "none" => call.change \in Change /\ call.of \in Subject \cup {NoSubject}
  BY <1>2, Nothings DEF CallShape
<1>3. /\ saving.pc \in {"none", "sent", "done"} /\ undoing.pc \in {"none", "sent", "done"}
      /\ saving.pc # "none" => saving.change \in Change /\ saving.of \in Subject \cup {NoSubject}
      /\ undoing.pc # "none" => undoing.change \in Change /\ undoing.of \in Subject \cup {NoSubject}
  BY <1>1, <1>2
<1>4. /\ \A owner \in Owners : grid[owner] \in [GridCells -> CellView] \cup {NoGrid}
      /\ person \in Owners /\ editor \in Editor \cup {NoEditor} /\ undo \in Toast \cup {NoToast}
      /\ subject \in Subject \cup {NoSubject} /\ changes \in 0..MaxChanges
  BY DEF GridTypeInv, ViewsFit, ToastFits
<1> QED
  BY <1>1, <1>3, <1>4 DEF GridTypeOK

LEMMA ToastShapes ==
  /\ NoToast.kind = "none"
  /\ \A toast \in Toast : toast.kind \in {"created", "updated", "deleted"} /\ toast.hours \in Nat
  /\ \A toast \in Toast : toast.kind = "deleted" => toast.cell \in GridCells
BY DEF NoToast, Toast

LEMMA GridTypeInit == GridInit => GridTypeInv
<1> SUFFICES ASSUME GridInit PROVE GridTypeInv
  OBVIOUS
<1>1. /\ entries = <<>> /\ punched \in [Owners -> [GridCells -> 0..MaxPunched]] /\ person \in Owners
      /\ editor = NoEditor /\ undo = NoToast /\ saving = NoCall /\ undoing = NoCall /\ changes = 0
      /\ subject = NoSubject
  BY DEF GridInit
<1>2. \A owner \in Owners, cell \in GridCells : Current[owner][cell] = {}
  BY <1>1 DEF Current, LiveEntries
<1>3. TableInv
  <2>1. <<>> \in Seq(Entry) /\ Len(<<>>) = 0
    OBVIOUS
  <2>2. punched \in [Owners -> [GridCells -> Nat]]
    BY <1>1, GridAssumption
  <2> QED
    BY <1>1, <1>2, <2>1, <2>2, GridAssumption DEF TableInv, TableTypes, OneLive, TookOwn
<1>4. PICK week : week = [c \in GridCells |-> ViewOf(person, c)]
  OBVIOUS
<1>5. week \in [GridCells -> CellView]
  BY <1>1, <1>3, <1>4, ViewTypes
<1>6. \A owner \in Owners : owner = person => [c \in GridCells |-> ViewOf(owner, c)] = week
  BY <1>4
<1>7. grid \in [Owners -> [GridCells -> CellView] \cup {NoGrid}]
  BY <1>5, <1>6 DEF GridInit
<1>8. ViewsFit /\ ToastFits /\ SaveFits /\ CallShape(undoing)
  BY <1>1, <1>7, Nothings, ToastShapes DEF ViewsFit, ToastFits, SaveFits, CallShape
<1> QED
  BY <1>1, <1>3, <1>8, GridAssumption DEF GridTypeInv

(* What was made stays. *)
LEMMA MadeStays ==
  ASSUME TableInv, TableInv', Len(entries) <= Len(entries'), NEW id, Made(id)
  PROVE  Made(id)'
BY DEF TableInv, TableTypes, Made

LEMMA ToastStays ==
  ASSUME TableInv, TableInv', Len(entries) <= Len(entries'), ToastFits, undo' \in {undo, NoToast}
  PROVE  ToastFits'
BY MadeStays, ToastShapes DEF ToastFits

(* A call is as it was, but for what it remembers, or it is over. *)
SameCall(call, next) ==
  \/ next = NoCall
  \/ next = call
  \/ /\ call # NoCall
     /\ \E of \in {call.of, NoSubject} : next = [pc |-> call.pc, change |-> call.change, of |-> of]

LEMMA SameShape ==
  ASSUME NEW call, NEW next, CallShape(call), SameCall(call, next)
  PROVE  /\ CallShape(next)
         /\ next.pc # "none" =>
              /\ call # NoCall /\ next.pc = call.pc /\ next.change = call.change
              /\ next.of \in {call.of, NoSubject}
<1>1. CASE next = NoCall \/ next = call
  BY <1>1, Nothings DEF CallShape
<1>2. ASSUME call # NoCall, NEW of \in {call.of, NoSubject},
             next = [pc |-> call.pc, change |-> call.change, of |-> of]
      PROVE  /\ CallShape(next) /\ next.pc = call.pc /\ next.change = call.change
             /\ next.of \in {call.of, NoSubject}
  <2>1. /\ call.pc \in {"sent", "done"} /\ call.change \in Change /\ call.of \in Subject \cup {NoSubject}
    BY <1>2 DEF CallShape
  <2>2. next.pc = call.pc /\ next.change = call.change /\ next.of = of
    BY <1>2
  <2>3. next = [pc |-> next.pc, change |-> next.change, of |-> next.of]
    BY <1>2
  <2> QED
    BY <1>2, <2>1, <2>2, <2>3 DEF CallShape
<1> QED
  BY <1>1, <1>2 DEF SameCall

LEMMA DisturbedCall ==
  ASSUME NEW owner, NEW call, CallShape(call)
  PROVE  SameCall(call, Disturbed(owner, call))
<1>1. CASE call = NoCall
  BY <1>1 DEF Disturbed, SameCall
<1>2. CASE call # NoCall
  <2>1. call = [pc |-> call.pc, change |-> call.change, of |-> call.of]
    BY <1>2 DEF CallShape
  <2>2. PICK of : of = Unless(owner, call.of)
    OBVIOUS
  <2>3. Disturbed(owner, call) = [pc |-> call.pc, change |-> call.change, of |-> of]
    BY <1>2, <2>1, <2>2 DEF Disturbed
  <2>4. of \in {call.of, NoSubject}
    BY <2>2 DEF Unless
  <2> QED
    BY <1>2, <2>3, <2>4 DEF SameCall
<1> QED
  BY <1>1, <1>2

LEMMA SavingStays ==
  ASSUME TableInv, TableInv', Len(entries) <= Len(entries'), SaveFits, SameCall(saving, saving')
  PROVE  SaveFits'
<1>1. /\ CallShape(saving')
      /\ saving'.pc # "none" => saving'.pc = saving.pc /\ saving'.change = saving.change
  BY SameShape DEF SaveFits
<1>2. CallShape(saving)'
  BY <1>1 DEF CallShape
<1> QED
  BY <1>1, <1>2, MadeStays DEF SaveFits

(* What is asked of the server has its type. *)
LEMMA UndoChangeTyped ==
  ASSUME GridTypeInv, undo # NoToast
  PROVE  UndoChange \in Change
<1>1. undo \in Toast /\ (undo.kind \in {"created", "updated"} => Made(undo.id)) /\ person \in Owners
  BY DEF GridTypeInv, ToastFits, ViewsFit
<1>2. undo.kind \in {"created", "updated", "deleted"} /\ undo.hours \in Nat
  BY <1>1, ToastShapes
<1>3. PICK op : op = CASE undo.kind = "created" -> "remove"
                       [] undo.kind = "updated" -> "update"
                       [] undo.kind = "deleted" -> "create"
  OBVIOUS
<1>4. op \in {"create", "update", "remove"}
  BY <1>2, <1>3
<1>5. PICK cell : cell = IF undo.kind = "deleted" THEN undo.cell ELSE entries[undo.id].cell
  OBVIOUS
<1>6. PICK id : id = IF undo.kind = "deleted" THEN 0 ELSE undo.id
  OBVIOUS
<1>7. cell \in GridCells /\ id \in 0..MaxEntries
  <2>1. CASE undo.kind = "deleted"
    BY <1>1, <1>5, <1>6, <2>1, ToastShapes, GridAssumption
  <2>2. CASE undo.kind # "deleted"
    <3>1. undo.id \in 1..Len(entries)
      BY <1>1, <1>2, <2>2 DEF Made
    <3>2. entries[undo.id].cell \in GridCells /\ undo.id \in 1..MaxEntries
      BY <3>1, RowTypes DEF GridTypeInv, TableInv
    <3> QED
      BY <1>5, <1>6, <2>2, <3>2, GridAssumption
  <2> QED
    BY <2>1, <2>2
<1>8. UndoChange = [op |-> op, owner |-> person, cell |-> cell, id |-> id, hours |-> undo.hours]
  BY <1>3, <1>5, <1>6 DEF UndoChange
<1> QED
  BY <1>1, <1>2, <1>4, <1>7, <1>8 DEF Change

LEMMA PressTyped ==
  ASSUME GridTypeInv, NEW op \in {"create", "update", "remove"}, NEW hours \in Nat, Press(op, hours)
  PROVE  GridTypeInv'
<1>1. /\ TableInv /\ editor \in Editor /\ person \in Owners /\ changes \in 0..MaxChanges
      /\ changes < MaxChanges /\ changes' = changes + 1 /\ MaxChanges \in Nat
      /\ UNCHANGED <<entries, punched, person, grid, editor, undo, undoing, subject>>
  BY GridAssumption DEF Press, GridTypeInv, ViewsFit
<1>2. TableInv' /\ Len(entries) <= Len(entries')
  BY <1>1, QuietTable DEF TableInv, TableTypes
<1>3. PICK change : change = [op |-> op, owner |-> person, cell |-> editor.cell,
                              id |-> editor.id, hours |-> hours]
  OBVIOUS
<1>4. change \in Change
  BY <1>1, <1>3 DEF Change, Editor
<1>5. PICK of : of = IF /\ grid[person] = [c \in GridCells |-> ViewOf(person, c)]
                        /\ editor = Opened(editor.cell, ViewOf(person, editor.cell))
                     THEN DayBefore(op # "create") ELSE NoSubject
  OBVIOUS
<1>6. saving' = [pc |-> "sent", change |-> change, of |-> of]
  BY <1>3, <1>5 DEF Press
<1>7. DayBefore(op # "create") \in Subject
  <2>1. PICK hoursOf : hoursOf = [c \in GridCells |-> ViewOf(person, c).hours]
    OBVIOUS
  <2>2. hoursOf \in [GridCells -> Nat]
    <3>1. \A c \in GridCells : ViewOf(person, c).hours \in Nat
      BY <1>1, ViewTypes DEF CellView
    <3> QED
      BY <2>1, <3>1
  <2>3. PICK mixed : mixed = (op # "create" /\ \E c \in {editor.cell} \cup Takes[editor.cell] :
                                                  punched[person][c] # 0)
    OBVIOUS
  <2>4. mixed \in BOOLEAN
    BY <2>3
  <2>5. DayBefore(op # "create") = [owner |-> person, hours |-> hoursOf, mixed |-> mixed]
    BY <2>1, <2>3 DEF DayBefore
  <2> QED
    BY <1>1, <2>2, <2>4, <2>5 DEF Subject
<1>8. of \in Subject \cup {NoSubject}
  BY <1>5, <1>7
<1>9. SaveFits'
  BY <1>4, <1>6, <1>8 DEF SaveFits, CallShape
<1>10. CallShape(undoing)' /\ ViewsFit'
  BY <1>1 DEF GridTypeInv, CallShape, ViewsFit
<1>11. ToastFits'
  BY <1>1, <1>2, ToastStays DEF GridTypeInv
<1> QED
  BY <1>1, <1>2, <1>9, <1>10, <1>11 DEF GridTypeInv

LEMMA SaveAppliedTyped ==
  ASSUME GridTypeInv, SaveApplied
  PROVE  GridTypeInv'
<1>1. PICK change : change = saving.change
  OBVIOUS
<1>2. PICK owner : owner = OwnerOf(change)
  OBVIOUS
<1>3. PICK id : id = IdOf(change)
  OBVIOUS
<1>4. /\ saving.pc = "sent" /\ change \in Change /\ TableInv
      /\ saving = [pc |-> saving.pc, change |-> change, of |-> saving.of]
      /\ saving.of \in Subject \cup {NoSubject}
  BY <1>1, Nothings DEF SaveApplied, GridTypeInv, SaveFits, CallShape
<1>5. /\ Effect(change) /\ UNCHANGED <<person, grid, editor, undo, changes>>
      /\ undoing' = Disturbed(owner, undoing) /\ subject' = Unless(owner, subject)
  BY <1>1, <1>2 DEF SaveApplied
<1>6. TableInv' /\ Len(entries) <= Len(entries') /\ id \in 1..Len(entries')
  BY <1>2, <1>3, <1>4, <1>5, EffectTable
<1>7. PICK made : made = [change EXCEPT !.id = id]
  OBVIOUS
<1>8. saving' = NoCall \/ saving' = [pc |-> "done", change |-> made, of |-> saving.of]
  BY <1>1, <1>3, <1>4, <1>7 DEF SaveApplied
<1>9. id \in 0..MaxEntries
  BY <1>6, GridAssumption DEF TableInv, TableTypes
<1>10. made \in Change /\ made.id = id
  BY <1>4, <1>7, <1>9 DEF Change
<1>11. SaveFits'
  BY <1>4, <1>6, <1>8, <1>10, Nothings DEF SaveFits, CallShape, Made
<1>12. CallShape(undoing')
  BY <1>5, DisturbedCall, SameShape DEF GridTypeInv
<1>13. CallShape(undoing)'
  BY <1>12 DEF CallShape
<1>14. ToastFits' /\ ViewsFit'
  BY <1>4, <1>5, <1>6, ToastStays DEF GridTypeInv, ViewsFit
<1>15. subject' \in Subject \cup {NoSubject}
  BY <1>5 DEF GridTypeInv, Unless
<1> QED
  BY <1>5, <1>6, <1>11, <1>13, <1>14, <1>15 DEF GridTypeInv

LEMMA SaveAnsweredTyped ==
  ASSUME GridTypeInv, SaveAnswered
  PROVE  GridTypeInv'
<1>1. /\ saving.pc = "done" /\ saving' = NoCall /\ editor' = NoEditor /\ subject' = saving.of
      /\ UNCHANGED <<entries, punched, person, grid, undoing, changes>>
  BY DEF SaveAnswered
<1>2. PICK change : change = saving.change
  OBVIOUS
<1>3. /\ change \in Change /\ (change.op # "remove" => Made(change.id))
      /\ saving.of \in Subject \cup {NoSubject} /\ TableInv
  BY <1>1, <1>2, Nothings DEF GridTypeInv, SaveFits, CallShape
<1>4. \/ /\ change.op # "remove" /\ editor # NoEditor
         /\ undo' = [kind |-> "updated", id |-> change.id, hours |-> editor.hours]
      \/ /\ change.op # "remove"
         /\ undo' = [kind |-> "created", id |-> change.id, hours |-> 0]
      \/ /\ editor # NoEditor
         /\ undo' = [kind |-> "deleted", cell |-> editor.cell, hours |-> editor.hours]
      \/ UNCHANGED undo
  BY <1>2 DEF SaveAnswered, SavedToast
<1>5. editor # NoEditor => editor.cell \in GridCells /\ editor.hours \in Nat
  BY DEF GridTypeInv, ViewsFit, Editor
<1>6. TableInv' /\ Len(entries) <= Len(entries') /\ (Made(change.id) => Made(change.id)')
  BY <1>1, <1>3, QuietTable, MadeStays DEF TableInv, TableTypes
<1>7. Made(change.id) => change.id \in 1..MaxEntries
  BY <1>3, GridAssumption DEF Made, TableInv, TableTypes
<1>8. ToastFits'
  <2>1. CASE UNCHANGED undo
    BY <1>3, <1>6, <2>1, ToastStays DEF GridTypeInv
  <2>2. CASE /\ change.op # "remove"
             /\ \/ editor # NoEditor /\ undo' = [kind |-> "updated", id |-> change.id, hours |-> editor.hours]
                \/ undo' = [kind |-> "created", id |-> change.id, hours |-> 0]
    <3>1. undo' \in Toast
      BY <1>3, <1>5, <1>7, <2>2 DEF Toast
    <3>2. undo'.id = change.id
      BY <2>2
    <3> QED
      BY <1>3, <1>6, <2>2, <3>1, <3>2 DEF ToastFits
  <2>3. CASE editor # NoEditor /\ undo' = [kind |-> "deleted", cell |-> editor.cell, hours |-> editor.hours]
    BY <1>5, <2>3 DEF ToastFits, Toast
  <2> QED
    BY <1>4, <2>1, <2>2, <2>3
<1>9. ViewsFit' /\ SaveFits' /\ CallShape(undoing)'
  BY <1>1, Nothings DEF GridTypeInv, ViewsFit, SaveFits, CallShape
<1> QED
  BY <1>1, <1>3, <1>6, <1>8, <1>9 DEF GridTypeInv

LEMMA UndoAppliedTyped ==
  ASSUME GridTypeInv, UndoApplied
  PROVE  GridTypeInv'
<1>1. PICK change : change = undoing.change
  OBVIOUS
<1>2. PICK owner : owner = OwnerOf(change)
  OBVIOUS
<1>3. /\ undoing.pc = "sent" /\ change \in Change /\ TableInv
      /\ undoing = [pc |-> undoing.pc, change |-> change, of |-> undoing.of]
      /\ undoing.of \in Subject \cup {NoSubject}
  BY <1>1, Nothings DEF UndoApplied, GridTypeInv, CallShape
<1>4. /\ Effect(change) /\ UNCHANGED <<person, grid, editor, undo, changes>>
      /\ saving' = Disturbed(owner, saving) /\ subject' = Unless(owner, subject)
  BY <1>1, <1>2 DEF UndoApplied
<1>5. undoing' = NoCall \/ undoing' = [pc |-> "done", change |-> change, of |-> undoing.of]
  BY <1>3 DEF UndoApplied
<1>6. TableInv' /\ Len(entries) <= Len(entries')
  BY <1>2, <1>3, <1>4, EffectTable
<1>7. CallShape(undoing)'
  BY <1>3, <1>5 DEF CallShape
<1>8. SaveFits'
  BY <1>3, <1>4, <1>6, DisturbedCall, SavingStays DEF GridTypeInv, SaveFits
<1>9. ToastFits' /\ ViewsFit'
  BY <1>3, <1>4, <1>6, ToastStays DEF GridTypeInv, ViewsFit
<1>10. subject' \in Subject \cup {NoSubject}
  BY <1>4 DEF GridTypeInv, Unless
<1> QED
  BY <1>4, <1>6, <1>7, <1>8, <1>9, <1>10 DEF GridTypeInv

LEMMA OthersTyped ==
  ASSUME GridTypeInv, NEW owner \in Owners, NEW cell \in GridCells, OthersChange(owner, cell)
  PROVE  GridTypeInv'
<1>1. /\ changes < MaxChanges /\ changes' = changes + 1 /\ MaxChanges \in Nat
      /\ UNCHANGED <<person, grid, editor, undo>> /\ subject' = Unless(owner, subject)
      /\ saving' = Disturbed(owner, saving) /\ undoing' = Disturbed(owner, undoing)
  BY GridAssumption DEF OthersChange
<1>2. TableInv /\ TableInv' /\ Len(entries) <= Len(entries')
  BY OthersTable DEF GridTypeInv
<1>3. CallShape(undoing')
  BY <1>1, DisturbedCall, SameShape DEF GridTypeInv
<1>4. CallShape(undoing)'
  BY <1>3 DEF CallShape
<1>5. SaveFits'
  BY <1>1, <1>2, DisturbedCall, SavingStays DEF GridTypeInv, SaveFits
<1>6. ToastFits' /\ ViewsFit'
  BY <1>1, <1>2, ToastStays DEF GridTypeInv, ViewsFit
<1>7. subject' \in Subject \cup {NoSubject} /\ changes' \in 0..MaxChanges
  BY <1>1 DEF GridTypeInv, Unless
<1> QED
  BY <1>2, <1>4, <1>5, <1>6, <1>7 DEF GridTypeInv

(* Steps that leave the table and ask for nothing. *)
LEMMA QuietTyped ==
  ASSUME GridTypeInv, UNCHANGED <<entries, punched, changes>>, ViewsFit',
         undo' \in {undo, NoToast}, SameCall(saving, saving'), SameCall(undoing, undoing'),
         subject' \in {subject, NoSubject}
  PROVE  GridTypeInv'
<1>1. TableInv /\ TableInv' /\ Len(entries) <= Len(entries')
  BY QuietTable DEF GridTypeInv, TableInv, TableTypes
<1>2. CallShape(undoing')
  BY SameShape DEF GridTypeInv
<1>3. CallShape(undoing)'
  BY <1>2 DEF CallShape
<1>4. ToastFits' /\ SaveFits'
  BY <1>1, ToastStays, SavingStays DEF GridTypeInv
<1> QED
  BY <1>1, <1>3, <1>4 DEF GridTypeInv

LEMMA FetchTyped ==
  ASSUME GridTypeInv, FetchGrid
  PROVE  ViewsFit'
<1>1. PICK week : week = [c \in GridCells |-> ViewOf(person, c)]
  OBVIOUS
<1>2. week \in [GridCells -> CellView]
  BY <1>1, ViewTypes DEF GridTypeInv, ViewsFit
<1>3. grid' = [grid EXCEPT ![person] = week] /\ UNCHANGED <<person, editor>>
  BY <1>1 DEF FetchGrid
<1> QED
  BY <1>2, <1>3 DEF GridTypeInv, ViewsFit

LEMMA OpenTyped ==
  ASSUME GridTypeInv, NEW cell \in GridCells, OpenCell(cell)
  PROVE  ViewsFit'
<1>1. PICK view : view = grid[person][cell]
  OBVIOUS
<1>2. view \in CellView
  BY <1>1 DEF GridTypeInv, ViewsFit, OpenCell, Drawn
<1>3. editor' = [cell |-> cell, hours |-> view.hours, id |-> view.id]
  BY <1>1 DEF OpenCell, Opened
<1>4. editor' \in Editor
  BY <1>2, <1>3 DEF CellView, Editor
<1> QED
  BY <1>4 DEF GridTypeInv, ViewsFit, OpenCell

(* Closing the editor lets go of what its request remembers. *)
LEMMA ClosedCall ==
  ASSUME CloseEditor, SaveFits
  PROVE  /\ SameCall(saving, saving') /\ (saving'.pc # "none" => saving'.of = NoSubject)
         /\ editor' = NoEditor
<1>1. /\ editor' = NoEditor
      /\ saving' = IF saving = NoCall THEN saving ELSE [saving EXCEPT !.of = NoSubject]
  BY DEF CloseEditor
<1>2. CASE saving = NoCall
  BY <1>1, <1>2, Nothings DEF SameCall
<1>3. CASE saving # NoCall
  <2>1. saving' = [pc |-> saving.pc, change |-> saving.change, of |-> NoSubject]
    BY <1>1, <1>3 DEF SaveFits, CallShape
  <2> QED
    BY <1>1, <1>3, <2>1 DEF SameCall
<1> QED
  BY <1>2, <1>3

LEMMA GridTypeStep ==
  ASSUME GridTypeInv, [GridNext]_gridVars
  PROVE  GridTypeInv'
<1>1. /\ ViewsFit /\ SaveFits /\ changes \in 0..MaxChanges
  BY DEF GridTypeInv
<1>2. \A call : SameCall(call, call) /\ SameCall(call, NoCall)
  BY DEF SameCall
<1>3. CASE \/ \E owner \in Owners : GoTo(owner)
           \/ UNCHANGED gridVars
  <2>1. /\ UNCHANGED <<entries, punched, changes, grid, editor, undo, saving, undoing, subject>>
        /\ person' \in Owners
    BY <1>1, <1>3 DEF GoTo, gridVars, ViewsFit
  <2>2. ViewsFit'
    BY <1>1, <2>1 DEF ViewsFit
  <2> QED
    BY <1>2, <2>1, <2>2, QuietTyped
<1>4. CASE FetchGrid
  <2>1. UNCHANGED <<entries, punched, changes, undo, saving, undoing, subject>>
    BY <1>4 DEF FetchGrid
  <2> QED
    BY <1>2, <1>4, <2>1, FetchTyped, QuietTyped
<1>5. ASSUME NEW cell \in GridCells, OpenCell(cell) PROVE GridTypeInv'
  <2>1. UNCHANGED <<entries, punched, changes, undo, saving, undoing, subject>>
    BY <1>5 DEF OpenCell
  <2>2. ViewsFit'
    BY <1>5, OpenTyped
  <2> QED
    BY <1>2, <2>1, <2>2, QuietTyped
<1>6. CASE CloseEditor
  <2>1. /\ UNCHANGED <<entries, punched, changes, person, grid, undo, undoing, subject>>
        /\ SameCall(saving, saving') /\ editor' = NoEditor
    BY <1>1, <1>6, ClosedCall DEF CloseEditor
  <2>2. ViewsFit'
    BY <1>1, <2>1 DEF ViewsFit
  <2> QED
    BY <1>2, <2>1, <2>2, QuietTyped
<1>7. CASE \E hours \in 1..MaxHours : SaveCell(hours)
  <2>1. PICK hours \in 1..MaxHours : SaveCell(hours)
    BY <1>7
  <2>2. PICK op : op = IF editor.id # 0 THEN "update" ELSE "create"
    OBVIOUS
  <2>3. Press(op, hours) /\ hours \in Nat /\ op \in {"create", "update", "remove"}
    BY <2>1, <2>2, GridAssumption DEF SaveCell
  <2> QED
    BY <2>3, PressTyped
<1>8. CASE DeleteCell
  <2>1. Press("remove", 0)
    BY <1>8 DEF DeleteCell
  <2> QED
    BY <2>1, PressTyped
<1>9. CASE SaveRefused \/ UndoRefused \/ UndoAnswered \/ ToastGoes
  <2>1. /\ UNCHANGED <<entries, punched, changes, person, grid, editor>>
        /\ undo' \in {undo, NoToast} /\ subject' \in {subject, NoSubject}
        /\ saving' \in {saving, NoCall} /\ undoing' \in {undoing, NoCall}
    BY <1>9 DEF SaveRefused, UndoRefused, UndoAnswered, ToastGoes
  <2>2. ViewsFit' /\ SameCall(saving, saving') /\ SameCall(undoing, undoing')
    BY <1>1, <1>2, <2>1 DEF ViewsFit
  <2> QED
    BY <2>1, <2>2, QuietTyped
<1>10. CASE PressUndo
  <2>1. /\ undo # NoToast /\ changes < MaxChanges /\ changes' = changes + 1 /\ MaxChanges \in Nat
        /\ UNCHANGED <<entries, punched, person, grid, editor, saving, undo, subject>>
    BY <1>10, GridAssumption DEF PressUndo
  <2>2. PICK change : change = UndoChange
    OBVIOUS
  <2>3. change \in Change
    BY <2>1, <2>2, UndoChangeTyped
  <2>4. PICK of : of = IF subject.owner = person THEN subject ELSE NoSubject
    OBVIOUS
  <2>5. of \in Subject \cup {NoSubject}
    BY <2>4 DEF GridTypeInv
  <2>6. undoing' = [pc |-> "sent", change |-> change, of |-> of]
    BY <1>10, <2>2, <2>4 DEF PressUndo
  <2>7. CallShape(undoing)' /\ ViewsFit'
    BY <1>1, <2>1, <2>3, <2>5, <2>6 DEF CallShape, ViewsFit
  <2>8. TableInv /\ TableInv' /\ Len(entries) <= Len(entries')
    BY <2>1, QuietTable DEF GridTypeInv, TableInv, TableTypes
  <2>9. ToastFits' /\ SaveFits'
    BY <1>2, <2>1, <2>8, ToastStays, SavingStays DEF GridTypeInv
  <2> QED
    BY <1>1, <2>1, <2>7, <2>8, <2>9 DEF GridTypeInv
<1>11. CASE SaveApplied \/ SaveAnswered \/ UndoApplied
  BY <1>11, SaveAppliedTyped, SaveAnsweredTyped, UndoAppliedTyped
<1>12. ASSUME NEW owner \in Owners, NEW cell \in GridCells, OthersChange(owner, cell) PROVE GridTypeInv'
  BY <1>12, OthersTyped
<1> QED
  BY <1>3, <1>4, <1>5, <1>6, <1>7, <1>8, <1>9, <1>10, <1>11, <1>12 DEF GridNext

-----------------------------------------------------------------------------
(* What can be taken back *)

(* The change brings the day back that is remembered. *)
Undoes(change, of) ==
  /\ change.op # "create" => change.id \in 1..Len(entries)
  /\ OwnerOf(change) = of.owner
  /\ \A cell \in GridCells : Left(change, cell) + Entered(change, cell) = of.hours[cell]

(* What is claimed of a day: no punches stood beside the entry. *)
Claimed(of) == of \in Subject /\ of.mixed = FALSE

(* What a toast asks of the server for an employee. *)
UndoOf(toast, owner) ==
  [op    |-> CASE toast.kind = "created" -> "remove"
               [] toast.kind = "updated" -> "update"
               [] toast.kind = "deleted" -> "create",
   owner |-> owner,
   cell  |-> IF toast.kind = "deleted" THEN toast.cell ELSE entries[toast.id].cell,
   id    |-> IF toast.kind = "deleted" THEN 0 ELSE toast.id,
   hours |-> toast.hours]

(* The toast that the answer to the editor's request brings. *)
NextToast ==
  IF saving.change.op # "remove" THEN SavedToast
  ELSE [kind |-> "deleted", cell |-> editor.cell, hours |-> editor.hours]

(* The toast takes back what it is about. *)
SubjectFits == undo # NoToast /\ Claimed(subject) => Undoes(UndoOf(undo, subject.owner), subject)

(* So does its request, until the server has it. *)
UndoingFits == undoing.pc = "sent" /\ Claimed(undoing.of) => Undoes(undoing.change, undoing.of)

(* The editor shows its cell as it was when Save was pressed. *)
SavingTrue(of) ==
  /\ saving.change.owner = of.owner /\ saving.change.cell = editor.cell
  /\ saving.change.id = editor.id
  /\ editor.hours = of.hours[editor.cell]
  /\ editor.id = 0 => Current[of.owner][editor.cell] = {}
  /\ editor.id # 0 => editor.id \in Current[of.owner][editor.cell]
  /\ \A cell \in GridCells :
       of.hours[cell] = punched[of.owner][cell] + EntryHours[of.owner][cell]
  /\ saving.change.op # "create" =>
       \A cell \in {editor.cell} \cup Takes[editor.cell] : punched[of.owner][cell] = 0

(* The editor stays open over a request that can be taken back. *)
SavingFits ==
  saving.pc # "none" /\ saving.of \in Subject =>
    /\ editor # NoEditor
    /\ (saving.change.op = "create") = (editor.id = 0)
    /\ saving.pc = "sent" /\ Claimed(saving.of) => SavingTrue(saving.of)
    /\ saving.pc = "done" /\ Claimed(saving.of) =>
         Undoes(UndoOf(NextToast, saving.of.owner), saving.of)

GridInv == GridTypeInv /\ SubjectFits /\ UndoingFits /\ SavingFits

(* A change whose day was left alone brings the same hours. *)
LEMMA UndoesStays ==
  ASSUME TableInv, TableInv', NEW of \in Subject, Spared(of.owner),
         NEW change, change.op \in {"create", "update", "remove"}, Undoes(change, of)
  PROVE  Undoes(change, of)'
<1>1. PICK o : o = of.owner
  OBVIOUS
<1>2. o \in Owners /\ Spared(o) /\ OwnerOf(change) = o
  BY <1>1 DEF Subject, Undoes
<1>3. change.op # "create" =>
        /\ change.id \in 1..Len(entries) /\ change.id \in 1..Len(entries')
        /\ entries[change.id].owner = o /\ entries'[change.id] = entries[change.id]
  BY <1>2 DEF Undoes, OwnerOf, Spared
<1>4. OwnerOf(change)' = o /\ CellOf(change)' = CellOf(change)
  BY <1>2, <1>3 DEF OwnerOf, CellOf
<1>5. ASSUME NEW cell \in GridCells
      PROVE  Left(change, cell)' = Left(change, cell) /\ Entered(change, cell)' = Entered(change, cell)
  <2>1. punched'[o][cell] = punched[o][cell] /\ EntryHours'[o][cell] = EntryHours[o][cell]
    BY <1>2, SparedShows
  <2>2. Left(change, cell)' = Left(change, cell)
    BY <1>2, <1>3, <1>4, <2>1 DEF Left
  <2>3. Entered(change, cell)' = Entered(change, cell)
    BY <1>2, <1>4, <2>1 DEF Entered
  <2> QED
    BY <2>2, <2>3
<1> QED
  BY <1>1, <1>2, <1>3, <1>4, <1>5 DEF Undoes

(* The change of a toast that was made is the same, whatever else is made. *)
LEMMA ToastChange ==
  ASSUME NEW toast, toast.kind \in {"created", "updated", "deleted"}, NEW owner
  PROVE  /\ UndoOf(toast, owner).op \in {"create", "update", "remove"}
         /\ (UndoOf(toast, owner).op = "create") = (toast.kind = "deleted")
         /\ toast.kind # "deleted" => UndoOf(toast, owner).id = toast.id
BY DEF UndoOf

LEMMA ToastChangeStays ==
  ASSUME TableInv, TableInv', NEW of \in Subject, Spared(of.owner),
         NEW toast, toast.kind \in {"created", "updated", "deleted"},
         Undoes(UndoOf(toast, of.owner), of)
  PROVE  Undoes(UndoOf(toast, of.owner), of)'
<1>1. PICK change : change = UndoOf(toast, of.owner)
  OBVIOUS
<1>2. change.op \in {"create", "update", "remove"}
  BY <1>1, ToastChange
<1>3. Undoes(change, of)'
  BY <1>1, <1>2, UndoesStays
<1>4. UndoOf(toast, of.owner)' = change
  <2>1. CASE toast.kind = "deleted"
    BY <1>1, <2>1 DEF UndoOf
  <2>2. CASE toast.kind # "deleted"
    <3>1. change.op # "create" /\ change.id = toast.id
      BY <1>1, <2>2, ToastChange
    <3>2. toast.id \in 1..Len(entries) /\ entries[toast.id].owner = of.owner
      BY <1>1, <3>1 DEF Undoes, OwnerOf
    <3>3. entries'[toast.id] = entries[toast.id]
      BY <3>2 DEF Spared
    <3> QED
      BY <1>1, <2>2, <3>3 DEF UndoOf
  <2> QED
    BY <2>1, <2>2
<1> QED
  BY <1>3, <1>4

LEMMA SubjectStands ==
  ASSUME GridInv, GridTypeInv', UNCHANGED undo, subject' \in {subject, NoSubject},
         subject' \in Subject => Spared(subject'.owner)
  PROVE  SubjectFits'
<1> SUFFICES ASSUME undo' # NoToast, Claimed(subject')
             PROVE  Undoes(UndoOf(undo, subject.owner), subject)'
  BY DEF SubjectFits, Claimed
<1>1. PICK of : of = subject
  OBVIOUS
<1>2. PICK toast : toast = undo
  OBVIOUS
<1>3. of \in Subject /\ of.mixed = FALSE /\ subject' = of /\ undo' = toast /\ toast # NoToast
  BY <1>1, <1>2, Nothings DEF Claimed
<1>4. toast.kind \in {"created", "updated", "deleted"}
  BY <1>2, <1>3, ToastShapes DEF GridInv, GridTypeInv, ToastFits
<1>5. Undoes(UndoOf(toast, of.owner), of)
  BY <1>1, <1>2, <1>3 DEF GridInv, SubjectFits, Claimed
<1>6. Undoes(UndoOf(toast, of.owner), of)'
  BY <1>3, <1>4, <1>5, ToastChangeStays DEF GridInv, GridTypeInv
<1> QED
  BY <1>3, <1>6

LEMMA UndoingStands ==
  ASSUME GridInv, GridTypeInv', SameCall(undoing, undoing'),
         undoing'.pc = "sent" /\ undoing'.of \in Subject => Spared(undoing'.of.owner)
  PROVE  UndoingFits'
<1> SUFFICES ASSUME undoing'.pc = "sent", Claimed(undoing'.of)
             PROVE  Undoes(undoing.change, undoing.of)'
  BY DEF UndoingFits, Claimed
<1>1. PICK of : of = undoing.of
  OBVIOUS
<1>2. PICK change : change = undoing.change
  OBVIOUS
<1>3. /\ undoing'.change = change /\ undoing'.of = of /\ undoing.pc = "sent"
      /\ of \in Subject /\ of.mixed = FALSE
  BY <1>1, <1>2, SameShape, Nothings DEF GridInv, GridTypeInv, Claimed
<1>4. change.op \in {"create", "update", "remove"}
  BY <1>2, <1>3, Nothings DEF GridInv, GridTypeInv, CallShape, Change
<1>5. Undoes(change, of)
  BY <1>1, <1>2, <1>3 DEF GridInv, UndoingFits, Claimed
<1>6. Undoes(change, of)'
  BY <1>3, <1>4, <1>5, UndoesStays DEF GridInv, GridTypeInv
<1> QED
  BY <1>3, <1>6

LEMMA SavingStands ==
  ASSUME GridInv, GridTypeInv', UNCHANGED editor, SameCall(saving, saving'),
         saving'.pc # "none" /\ saving'.of \in Subject => Spared(saving'.of.owner)
  PROVE  SavingFits'
<1> SUFFICES ASSUME saving'.pc # "none", saving'.of \in Subject
             PROVE  /\ editor' # NoEditor
                    /\ (saving'.change.op = "create") = (editor'.id = 0)
                    /\ saving'.pc = "sent" /\ Claimed(saving'.of) => SavingTrue(saving.of)'
                    /\ saving'.pc = "done" /\ Claimed(saving'.of) =>
                         Undoes(UndoOf(NextToast, saving.of.owner), saving.of)'
  BY DEF SavingFits, Claimed
<1>1. PICK of : of = saving.of
  OBVIOUS
<1>2. PICK change : change = saving.change
  OBVIOUS
<1>3. /\ saving'.change = change /\ saving'.of = of /\ saving'.pc = saving.pc
      /\ of \in Subject /\ saving.pc \in {"sent", "done"} /\ Spared(of.owner)
  BY <1>1, <1>2, SameShape, Nothings DEF GridInv, GridTypeInv, SaveFits, CallShape
<1>4. editor # NoEditor /\ (change.op = "create") = (editor.id = 0) /\ editor \in Editor
  BY <1>1, <1>2, <1>3 DEF GridInv, SavingFits, GridTypeInv, ViewsFit
<1>5. CASE saving.pc = "sent" /\ Claimed(of)
  <2>1. SavingTrue(of)
    BY <1>1, <1>3, <1>5 DEF GridInv, SavingFits
  <2>2. PICK o : o = of.owner
    OBVIOUS
  <2>3. PICK c : c = editor.cell
    OBVIOUS
  <2>4. o \in Owners /\ c \in GridCells /\ Takes[c] \in SUBSET GridCells
    BY <1>3, <1>4, <2>2, <2>3, GridAssumption DEF Subject, Editor
  <2>5. \A cell \in GridCells :
          /\ EntryHours'[o][cell] = EntryHours[o][cell] /\ punched'[o][cell] = punched[o][cell]
          /\ Current'[o][cell] = Current[o][cell]
    BY <1>3, <2>2, <2>4, SparedShows DEF GridInv, GridTypeInv, Spared
  <2>6. SavingTrue(of)'
    BY <1>2, <1>3, <2>1, <2>2, <2>3, <2>4, <2>5 DEF SavingTrue
  <2> QED
    BY <1>2, <1>3, <1>4, <1>5, <2>6
<1>6. CASE saving.pc = "done" /\ Claimed(of)
  <2>1. PICK toast : toast = NextToast
    OBVIOUS
  <2>2. Undoes(UndoOf(toast, of.owner), of)
    BY <1>1, <1>3, <1>6, <2>1 DEF GridInv, SavingFits
  <2>3. toast.kind \in {"created", "updated", "deleted"}
    BY <2>1 DEF NextToast, SavedToast
  <2>4. Undoes(UndoOf(toast, of.owner), of)'
    BY <1>3, <2>2, <2>3, ToastChangeStays DEF GridInv, GridTypeInv
  <2>5. NextToast' = toast
    BY <1>2, <1>3, <2>1 DEF NextToast, SavedToast
  <2> QED
    BY <1>2, <1>3, <1>4, <1>6, <2>4, <2>5
<1> QED
  BY <1>3, <1>4, <1>5, <1>6

(* A call that still remembers a day, after another's was changed. *)
LEMMA DisturbedDay ==
  ASSUME NEW owner, NEW call, CallShape(call), NEW next, next = Disturbed(owner, call),
         next.pc # "none", next.of \in Subject
  PROVE  next.of.owner # owner /\ next.of.owner \in Owners
<1>1. call # NoCall /\ call = [pc |-> call.pc, change |-> call.change, of |-> call.of]
  BY Nothings DEF Disturbed, CallShape
<1>2. next.of = Unless(owner, call.of)
  BY <1>1 DEF Disturbed
<1> QED
  BY <1>2, Nothings DEF Unless, Subject

(* What an applied save can be taken back to: its own day, as remembered. *)
LEMMA SavedUndo ==
  ASSUME TableInv, TableInv', NEW change \in Change, Effect(change), NEW of \in Subject,
         NEW id, id = IdOf(change), NEW hours, NEW c \in GridCells,
         change.owner = of.owner, change.cell = c,
         hours = of.hours[c],
         change.op = "create" => Current[of.owner][c] = {},
         change.op # "create" => change.id \in Current[of.owner][c],
         \A cell \in GridCells :
           of.hours[cell] = punched[of.owner][cell] + EntryHours[of.owner][cell],
         change.op # "create" =>
           \A cell \in {c} \cup Takes[c] : punched[of.owner][cell] = 0,
         NEW toast,
         toast = IF change.op = "remove" THEN [kind |-> "deleted", cell |-> c, hours |-> hours]
                 ELSE IF change.op = "update" THEN [kind |-> "updated", id |-> id, hours |-> hours]
                 ELSE [kind |-> "created", id |-> id, hours |-> 0]
  PROVE  Undoes(UndoOf(toast, of.owner), of)'
<1>1. PICK o : o = of.owner
  OBVIOUS
<1>2. /\ o \in Owners /\ change.op \in {"create", "update", "remove"}
      /\ Takes[c] \in SUBSET GridCells /\ of.hours \in [GridCells -> Nat]
      /\ punched \in [Owners -> [GridCells -> Nat]]
  BY <1>1, GridAssumption DEF Subject, Change, TableInv, TableTypes
<1>3. \A cell \in GridCells : EntryHours[o][cell] \in Nat /\ punched[o][cell] \in Nat
  BY <1>2, ViewTypes
<1>4. change.op # "create" =>
        /\ change.id \in 1..Len(entries) /\ entries[change.id].owner = o /\ entries[change.id].cell = c
  BY <1>1, <1>2, LiveRows DEF TableInv
<1>5. OwnerOf(change) = o /\ CellOf(change) = c
  BY <1>1, <1>2, <1>4 DEF OwnerOf, CellOf
<1>6. /\ id \in 1..Len(entries')
      /\ \A cell \in GridCells :
           punched'[o][cell] = Left(change, cell) /\ EntryHours'[o][cell] = Entered(change, cell)
  BY <1>5, EffectTable
<1>7. PICK undone : undone = UndoOf(toast, o)'
  OBVIOUS
<1>8. CASE change.op = "create"
  <2>1. CreateEntry(change) /\ id = Len(entries) + 1
    BY <1>8 DEF Effect, IdOf
  <2>2. /\ entries'[id].owner = o /\ entries'[id].cell = c
        /\ entries'[id].took = [cell \in GridCells |->
                                  IF cell \in Takes[c] THEN punched[o][cell] ELSE 0]
    BY <1>1, <2>1, CreateEffect
  <2>3. undone.op = "remove" /\ undone.id = id
    BY <1>7, <1>8 DEF UndoOf
  <2>4. OwnerOf(undone)' = o /\ CellOf(undone)' = c
    BY <2>2, <2>3 DEF OwnerOf, CellOf
  <2>5. ASSUME NEW cell \in GridCells
        PROVE  Left(undone, cell)' + Entered(undone, cell)' = of.hours[cell]
    <3>1. Left(undone, cell)' = punched'[o][cell] + entries'[id].took[cell]
      BY <2>3, <2>4 DEF Left
    <3>2. Left(undone, cell)' = punched[o][cell]
      <4>1. punched'[o][cell] = IF cell \in Takes[c] THEN 0 ELSE punched[o][cell]
        BY <1>5, <1>6, <1>8 DEF Left
      <4>2. entries'[id].took[cell] = IF cell \in Takes[c] THEN punched[o][cell] ELSE 0
        BY <2>2
      <4> QED
        BY <1>3, <3>1, <4>1, <4>2
    <3>3. Entered(undone, cell)' = EntryHours[o][cell]
      <4>1. CASE cell = c
        <5>1. EntryHours[o][c] = 0
          BY <1>1, <1>2, <1>8, ShownHours
        <5> QED
          BY <2>3, <2>4, <4>1, <5>1 DEF Entered
      <4>2. CASE cell # c
        <5>1. Entered(undone, cell)' = EntryHours'[o][cell]
          BY <2>4, <4>2 DEF Entered
        <5> QED
          BY <1>5, <1>6, <4>2, <5>1 DEF Entered
      <4> QED
        BY <4>1, <4>2
    <3> QED
      BY <1>1, <3>2, <3>3
  <2> QED
    BY <1>1, <1>6, <1>7, <2>3, <2>4, <2>5 DEF Undoes
<1>9. CASE change.op = "update"
  <2>1. UpdateEntry(change) /\ id = change.id
    BY <1>9 DEF Effect, IdOf
  <2>2. entries'[id].owner = o /\ entries'[id].cell = c
    BY <1>4, <1>9, <2>1, UpdateEffect
  <2>3. undone.op = "update" /\ undone.id = id /\ undone.hours = hours
    BY <1>7, <1>9 DEF UndoOf
  <2>4. OwnerOf(undone)' = o /\ CellOf(undone)' = c
    BY <2>2, <2>3 DEF OwnerOf, CellOf
  <2>5. ASSUME NEW cell \in GridCells
        PROVE  Left(undone, cell)' + Entered(undone, cell)' = of.hours[cell]
    <3>1. Left(undone, cell)' = punched'[o][cell]
      BY <2>3, <2>4 DEF Left
    <3>2. Left(undone, cell)' = punched[o][cell]
      BY <1>5, <1>6, <1>9, <3>1 DEF Left
    <3>3. Entered(undone, cell)' = EntryHours[o][cell]
      <4>1. CASE cell = c
        <5>1. hours = EntryHours[o][c]
          BY <1>1, <1>3, <1>9
        <5> QED
          BY <2>3, <2>4, <4>1, <5>1 DEF Entered
      <4>2. CASE cell # c
        <5>1. Entered(undone, cell)' = EntryHours'[o][cell]
          BY <2>4, <4>2 DEF Entered
        <5> QED
          BY <1>5, <1>6, <4>2, <5>1 DEF Entered
      <4> QED
        BY <4>1, <4>2
    <3> QED
      BY <1>1, <3>2, <3>3
  <2> QED
    BY <1>1, <1>6, <1>7, <2>3, <2>4, <2>5 DEF Undoes
<1>10. CASE change.op = "remove"
  <2>1. undone.op = "create" /\ undone.hours = hours /\ undone.cell = c /\ undone.owner = o
    BY <1>7, <1>10 DEF UndoOf
  <2>2. OwnerOf(undone)' = o /\ CellOf(undone)' = c
    BY <2>1 DEF OwnerOf, CellOf
  <2>3. ASSUME NEW cell \in GridCells
        PROVE  Left(undone, cell)' + Entered(undone, cell)' = of.hours[cell]
    <3>1. Left(undone, cell)' = IF cell \in Takes[c] THEN 0 ELSE punched'[o][cell]
      BY <2>1, <2>2 DEF Left
    <3>2. punched'[o][cell] = punched[o][cell] + entries[change.id].took[cell]
      BY <1>5, <1>6, <1>10 DEF Left
    <3>3. cell \notin Takes[c] => entries[change.id].took[cell] = 0
      BY <1>4, <1>10 DEF TableInv, TookOwn
    <3>4. Left(undone, cell)' = punched[o][cell]
      BY <1>1, <1>3, <1>10, <3>1, <3>2, <3>3
    <3>5. Entered(undone, cell)' = EntryHours[o][cell]
      <4>1. CASE cell = c
        <5>1. hours = EntryHours[o][c]
          BY <1>1, <1>3, <1>10
        <5> QED
          BY <2>1, <2>2, <4>1, <5>1 DEF Entered
      <4>2. CASE cell # c
        <5>1. Entered(undone, cell)' = EntryHours'[o][cell]
          BY <2>2, <4>2 DEF Entered
        <5> QED
          BY <1>5, <1>6, <4>2, <5>1 DEF Entered
      <4> QED
        BY <4>1, <4>2
    <3> QED
      BY <1>1, <3>4, <3>5
  <2> QED
    BY <1>1, <1>7, <2>1, <2>2, <2>3 DEF Undoes
<1> QED
  BY <1>2, <1>8, <1>9, <1>10

LEMMA SaveAppliedFits ==
  ASSUME GridInv, GridTypeInv', SaveApplied
  PROVE  SubjectFits' /\ UndoingFits' /\ SavingFits'
<1>1. PICK change : change = saving.change
  OBVIOUS
<1>2. PICK owner : owner = OwnerOf(change)
  OBVIOUS
<1>3. PICK id : id = IdOf(change)
  OBVIOUS
<1>4. PICK of : of = saving.of
  OBVIOUS
<1>5. /\ saving.pc = "sent" /\ change \in Change /\ TableInv /\ TableInv'
      /\ saving = [pc |-> saving.pc, change |-> change, of |-> of]
      /\ of \in Subject \cup {NoSubject} /\ CallShape(undoing)
  BY <1>1, <1>4, Nothings DEF SaveApplied, GridInv, GridTypeInv, SaveFits, CallShape
<1>6. /\ Effect(change) /\ UNCHANGED <<person, grid, editor, undo, changes>>
      /\ undoing' = Disturbed(owner, undoing) /\ subject' = Unless(owner, subject)
  BY <1>1, <1>2 DEF SaveApplied
<1>7. \A other \in Owners : other # owner => Spared(other)
  BY <1>2, <1>5, <1>6, EffectTable
<1>8. SubjectFits'
  <2>1. subject' \in {subject, NoSubject} /\ (subject' \in Subject => Spared(subject'.owner))
    BY <1>6, <1>7, Nothings DEF Unless, Subject
  <2> QED
    BY <1>6, <2>1, SubjectStands
<1>9. UndoingFits'
  <2>1. SameCall(undoing, undoing')
    BY <1>5, <1>6, DisturbedCall
  <2>2. undoing'.pc = "sent" /\ undoing'.of \in Subject => Spared(undoing'.of.owner)
    BY <1>5, <1>6, <1>7, DisturbedDay
  <2> QED
    BY <2>1, <2>2, UndoingStands
<1>10. SavingFits'
  <2>1. PICK made : made = [change EXCEPT !.id = id]
    OBVIOUS
  <2>2. saving' = NoCall \/ saving' = [pc |-> "done", change |-> made, of |-> of]
    <3>1. saving = [pc |-> saving.pc, change |-> change, of |-> saving.of]
      BY <1>4, <1>5
    <3>2. saving' = NoCall \/ saving' = [pc |-> "done", change |-> made, of |-> saving.of]
      BY <1>1, <1>3, <2>1, <3>1 DEF SaveApplied
    <3> QED
      BY <1>4, <3>2
  <2>3. made.op = change.op /\ made.id = id
    BY <1>5, <2>1 DEF Change
  <2>4. CASE saving' = NoCall \/ of = NoSubject
    BY <2>2, <2>4, Nothings DEF SavingFits
  <2>5. CASE of \in Subject /\ saving' = [pc |-> "done", change |-> made, of |-> of]
    <3>1. editor # NoEditor /\ (change.op = "create") = (editor.id = 0) /\ editor \in Editor
      BY <1>1, <1>4, <1>5, <2>5 DEF GridInv, SavingFits, GridTypeInv, ViewsFit
    <3>2. ASSUME Claimed(of) PROVE Undoes(UndoOf(NextToast, of.owner), of)'
      <4>1. SavingTrue(of)
        BY <1>4, <1>5, <2>5, <3>2 DEF GridInv, SavingFits
      <4>2. PICK c : c = editor.cell
        OBVIOUS
      <4>3. PICK hours : hours = editor.hours
        OBVIOUS
      <4>4. PICK toast :
              toast = IF change.op = "remove" THEN [kind |-> "deleted", cell |-> c, hours |-> hours]
                      ELSE IF change.op = "update"
                           THEN [kind |-> "updated", id |-> id, hours |-> hours]
                      ELSE [kind |-> "created", id |-> id, hours |-> 0]
        OBVIOUS
      <4>5. c \in GridCells
        BY <3>1, <4>2 DEF Editor
      <4>6. Undoes(UndoOf(toast, of.owner), of)'
        BY <1>1, <1>3, <1>5, <1>6, <2>5, <3>1, <4>1, <4>2, <4>3, <4>4, <4>5, SavedUndo DEF SavingTrue
      <4>7. change.op \in {"create", "update", "remove"}
        BY <1>5 DEF Change
      <4>8. NextToast' = toast
        BY <1>6, <2>3, <2>5, <3>1, <4>2, <4>3, <4>4, <4>7 DEF NextToast, SavedToast
      <4> QED
        BY <4>6, <4>8
    <3> QED
      BY <1>6, <2>3, <2>5, <3>1, <3>2 DEF SavingFits, Claimed
  <2> QED
    BY <1>5, <2>2, <2>4, <2>5
<1> QED
  BY <1>8, <1>9, <1>10

(* Pressing Save or Delete: the day is remembered where the grid is true. *)
LEMMA PressFits ==
  ASSUME GridInv, GridTypeInv', NEW op \in {"create", "update", "remove"}, NEW hours \in Nat,
         Press(op, hours), (op = "create") = (editor.id = 0)
  PROVE  SubjectFits' /\ UndoingFits' /\ SavingFits'
<1>1. /\ editor \in Editor /\ editor # NoEditor /\ person \in Owners /\ TableInv
      /\ UNCHANGED <<entries, punched, person, grid, editor, undo, undoing, subject>>
  BY DEF Press, GridInv, GridTypeInv, ViewsFit
<1>2. TableInv' /\ \A owner \in Owners : Spared(owner)
  BY <1>1, QuietTable
<1>3. SubjectFits'
  <2>1. subject' \in Subject => Spared(subject'.owner)
    BY <1>2 DEF Subject
  <2> QED
    BY <1>1, <2>1, SubjectStands
<1>4. UndoingFits'
  <2>1. SameCall(undoing, undoing')
    BY <1>1 DEF SameCall
  <2>2. undoing'.of \in Subject => Spared(undoing'.of.owner)
    BY <1>2 DEF Subject
  <2> QED
    BY <2>1, <2>2, UndoingStands
<1>5. SavingFits'
  <2>1. PICK change : change = [op |-> op, owner |-> person, cell |-> editor.cell,
                                id |-> editor.id, hours |-> hours]
    OBVIOUS
  <2>2. PICK of : of = IF /\ grid[person] = [c \in GridCells |-> ViewOf(person, c)]
                          /\ editor = Opened(editor.cell, ViewOf(person, editor.cell))
                       THEN DayBefore(op # "create") ELSE NoSubject
    OBVIOUS
  <2>3. saving' = [pc |-> "sent", change |-> change, of |-> of]
    BY <2>1, <2>2 DEF Press
  <2>4. ASSUME Claimed(of) PROVE SavingTrue(of)'
    <3>1. PICK c : c = editor.cell
      OBVIOUS
    <3>2. PICK o : o = person
      OBVIOUS
    <3>3. c \in GridCells /\ o \in Owners /\ Takes[c] \in SUBSET GridCells
      BY <1>1, <3>1, <3>2, GridAssumption DEF Editor
    <3>4. PICK view : view = ViewOf(o, c)
      OBVIOUS
    <3>5. of = DayBefore(op # "create") /\ editor = Opened(c, view)
      BY <2>2, <2>4, <3>1, <3>2, <3>4, Nothings DEF Claimed
    <3>6. /\ of.owner = o /\ \A cell \in GridCells : of.hours[cell] = ViewOf(o, cell).hours
          /\ op # "create" => \A cell \in {c} \cup Takes[c] : punched[o][cell] = 0
      BY <2>4, <3>1, <3>2, <3>5 DEF DayBefore, Claimed
    <3>7. editor.hours = of.hours[c] /\ editor.id = view.id
      BY <3>3, <3>4, <3>5, <3>6 DEF Opened
    <3>8. /\ editor.id = 0 => Current[o][c] = {}
          /\ editor.id # 0 => editor.id \in Current[o][c]
      BY <1>1, <3>3, <3>4, <3>7, ViewTypes
    <3>9. \A cell \in GridCells : of.hours[cell] = punched[o][cell] + EntryHours[o][cell]
      BY <1>1, <3>3, <3>6, ViewTypes
    <3>10. SavingTrue(of)' = (/\ of.owner = o /\ c = editor.cell
                              /\ editor.hours = of.hours[c]
                              /\ editor.id = 0 => Current[o][c] = {}
                              /\ editor.id # 0 => editor.id \in Current[o][c]
                              /\ \A cell \in GridCells :
                                   of.hours[cell] = punched[o][cell] + EntryHours[o][cell]
                              /\ op # "create" =>
                                   \A cell \in {c} \cup Takes[c] : punched[o][cell] = 0)'
      <4>1. saving'.change.owner = o /\ saving'.change.cell = c /\ saving'.change.id = editor.id
            /\ saving'.change.op = op
        BY <2>1, <2>3, <3>1, <3>2
      <4> QED
        BY <1>1, <3>1, <3>6, <4>1 DEF SavingTrue
    <3>11. Current' = Current /\ EntryHours' = EntryHours
      BY <1>1 DEF Current, EntryHours, LiveEntries
    <3> QED
      BY <1>1, <3>1, <3>6, <3>7, <3>8, <3>9, <3>10, <3>11
  <2> QED
    BY <1>1, <2>1, <2>3, <2>4 DEF SavingFits, Claimed
<1> QED
  BY <1>3, <1>4, <1>5

(* The answer: the toast is about what the save remembered. *)
LEMMA SaveAnsweredFits ==
  ASSUME GridInv, GridTypeInv', SaveAnswered
  PROVE  SubjectFits' /\ UndoingFits' /\ SavingFits'
<1>1. /\ saving.pc = "done" /\ saving' = NoCall /\ subject' = saving.of
      /\ UNCHANGED <<entries, punched, undoing>>
  BY DEF SaveAnswered
<1>2. TableInv /\ TableInv' /\ \A owner \in Owners : Spared(owner)
  BY <1>1, QuietTable DEF GridInv, GridTypeInv
<1>3. SubjectFits'
  <2> SUFFICES ASSUME Claimed(subject')
               PROVE  Undoes(UndoOf(undo, subject.owner), subject)'
    BY DEF SubjectFits, Claimed
  <2>1. PICK of : of = saving.of
    OBVIOUS
  <2>2. of \in Subject /\ Claimed(of) /\ subject' = of
    BY <1>1, <2>1 DEF Claimed
  <2>3. PICK toast : toast = NextToast
    OBVIOUS
  <2>4. editor # NoEditor /\ Undoes(UndoOf(toast, of.owner), of)
    BY <1>1, <2>1, <2>2, <2>3 DEF GridInv, SavingFits
  <2>5. undo' = toast
    BY <2>3, <2>4 DEF SaveAnswered, NextToast
  <2>6. toast.kind \in {"created", "updated", "deleted"} /\ Spared(of.owner)
    BY <1>2, <2>2, <2>3 DEF NextToast, SavedToast, Subject
  <2>7. Undoes(UndoOf(toast, of.owner), of)'
    BY <1>2, <2>2, <2>4, <2>6, ToastChangeStays
  <2> QED
    BY <2>2, <2>5, <2>7
<1>4. UndoingFits'
  <2>1. SameCall(undoing, undoing')
    BY <1>1 DEF SameCall
  <2>2. undoing'.of \in Subject => Spared(undoing'.of.owner)
    BY <1>2 DEF Subject
  <2> QED
    BY <2>1, <2>2, UndoingStands
<1>5. SavingFits'
  BY <1>1, Nothings DEF SavingFits
<1> QED
  BY <1>3, <1>4, <1>5

LEMMA PressUndoFits ==
  ASSUME GridInv, GridTypeInv', PressUndo
  PROVE  SubjectFits' /\ UndoingFits' /\ SavingFits'
<1>1. /\ undo # NoToast /\ UNCHANGED <<entries, punched, editor, saving, undo, subject>>
  BY DEF PressUndo
<1>2. TableInv /\ TableInv' /\ \A owner \in Owners : Spared(owner)
  BY <1>1, QuietTable DEF GridInv, GridTypeInv
<1>3. SubjectFits'
  <2>1. subject' \in Subject => Spared(subject'.owner)
    BY <1>2 DEF Subject
  <2> QED
    BY <1>1, <2>1, SubjectStands
<1>4. SavingFits'
  <2>1. SameCall(saving, saving')
    BY <1>1 DEF SameCall
  <2>2. saving'.of \in Subject => Spared(saving'.of.owner)
    BY <1>2 DEF Subject
  <2> QED
    BY <1>1, <2>1, <2>2, SavingStands
<1>5. UndoingFits'
  <2>1. PICK of : of = IF subject.owner = person THEN subject ELSE NoSubject
    OBVIOUS
  <2>2. PICK toast : toast = undo
    OBVIOUS
  <2>3. PICK change : change = UndoOf(toast, person)
    OBVIOUS
  <2>4. undoing' = [pc |-> "sent", change |-> change, of |-> of]
    BY <2>1, <2>2, <2>3 DEF PressUndo, UndoChange, UndoOf
  <2>5. ASSUME Claimed(of) PROVE Undoes(change, of)'
    <3>1. of = subject /\ of.owner = person /\ of \in Subject
      BY <2>1, <2>5, Nothings DEF Claimed
    <3>2. Undoes(change, of)
      BY <1>1, <2>2, <2>3, <2>5, <3>1 DEF GridInv, SubjectFits
    <3>3. change.op \in {"create", "update", "remove"}
      BY <1>1, <2>2, <2>3, ToastChange, ToastShapes DEF GridInv, GridTypeInv, ToastFits
    <3>4. Spared(of.owner)
      BY <1>2, <3>1 DEF Subject
    <3> QED
      BY <1>2, <3>1, <3>2, <3>3, <3>4, UndoesStays
  <2> QED
    BY <2>4, <2>5 DEF UndoingFits
<1> QED
  BY <1>3, <1>4, <1>5

LEMMA UndoAppliedFits ==
  ASSUME GridInv, GridTypeInv', UndoApplied
  PROVE  SubjectFits' /\ UndoingFits' /\ SavingFits'
<1>1. PICK change : change = undoing.change
  OBVIOUS
<1>2. PICK owner : owner = OwnerOf(change)
  OBVIOUS
<1>3. /\ undoing.pc = "sent" /\ change \in Change /\ TableInv /\ TableInv' /\ CallShape(saving)
      /\ undoing = [pc |-> undoing.pc, change |-> change, of |-> undoing.of]
  BY <1>1, Nothings DEF UndoApplied, GridInv, GridTypeInv, SaveFits, CallShape
<1>4. /\ Effect(change) /\ UNCHANGED <<person, grid, editor, undo, changes>>
      /\ saving' = Disturbed(owner, saving) /\ subject' = Unless(owner, subject)
  BY <1>1, <1>2 DEF UndoApplied
<1>5. \A other \in Owners : other # owner => Spared(other)
  BY <1>2, <1>3, <1>4, EffectTable
<1>6. SubjectFits'
  <2>1. subject' \in {subject, NoSubject} /\ (subject' \in Subject => Spared(subject'.owner))
    BY <1>4, <1>5, Nothings DEF Unless, Subject
  <2> QED
    BY <1>4, <2>1, SubjectStands
<1>7. UndoingFits'
  BY <1>3, Nothings DEF UndoApplied, UndoingFits
<1>8. SavingFits'
  <2>1. SameCall(saving, saving')
    BY <1>3, <1>4, DisturbedCall
  <2>2. saving'.pc # "none" /\ saving'.of \in Subject => Spared(saving'.of.owner)
    BY <1>3, <1>4, <1>5, DisturbedDay
  <2> QED
    BY <1>4, <2>1, <2>2, SavingStands
<1> QED
  BY <1>6, <1>7, <1>8

LEMMA OthersFits ==
  ASSUME GridInv, GridTypeInv', NEW owner \in Owners, NEW cell \in GridCells,
         OthersChange(owner, cell)
  PROVE  SubjectFits' /\ UndoingFits' /\ SavingFits'
<1>1. /\ UNCHANGED <<person, grid, editor, undo>> /\ subject' = Unless(owner, subject)
      /\ saving' = Disturbed(owner, saving) /\ undoing' = Disturbed(owner, undoing)
  BY DEF OthersChange
<1>2. CallShape(saving) /\ CallShape(undoing)
  BY DEF GridInv, GridTypeInv, SaveFits
<1>3. \A other \in Owners : other # owner => Spared(other)
  BY OthersTable DEF GridInv, GridTypeInv
<1>4. SubjectFits'
  <2>1. subject' \in {subject, NoSubject} /\ (subject' \in Subject => Spared(subject'.owner))
    BY <1>1, <1>3, Nothings DEF Unless, Subject
  <2> QED
    BY <1>1, <2>1, SubjectStands
<1>5. SameCall(saving, saving') /\ SameCall(undoing, undoing')
  BY <1>1, <1>2, DisturbedCall
<1>6. /\ saving'.pc # "none" /\ saving'.of \in Subject => Spared(saving'.of.owner)
      /\ undoing'.pc # "none" /\ undoing'.of \in Subject => Spared(undoing'.of.owner)
  BY <1>1, <1>2, <1>3, DisturbedDay
<1> QED
  BY <1>1, <1>4, <1>5, <1>6, UndoingStands, SavingStands

(* Steps that leave the table, and keep the toast if there is one. *)
LEMMA QuietFits ==
  ASSUME GridInv, GridTypeInv', UNCHANGED <<entries, punched>>,
         undo' = NoToast \/ UNCHANGED undo, subject' \in {subject, NoSubject},
         SameCall(saving, saving'), SameCall(undoing, undoing'),
         \/ UNCHANGED editor
         \/ saving'.pc # "none" => saving'.of \notin Subject
  PROVE  SubjectFits' /\ UndoingFits' /\ SavingFits'
<1>1. TableInv /\ TableInv' /\ \A owner \in Owners : Spared(owner)
  BY QuietTable DEF GridInv, GridTypeInv
<1>2. \A of \in Subject : Spared(of.owner)
  BY <1>1 DEF Subject
<1>3. SubjectFits'
  BY <1>2, SubjectStands DEF SubjectFits
<1>4. UndoingFits'
  BY <1>2, UndoingStands
<1>5. SavingFits'
  BY <1>2, SavingStands DEF SavingFits
<1> QED
  BY <1>3, <1>4, <1>5

LEMMA GridInvInit == GridInit => GridInv
<1> SUFFICES ASSUME GridInit PROVE GridInv
  OBVIOUS
<1>1. undo = NoToast /\ saving = NoCall /\ undoing = NoCall
  BY DEF GridInit
<1> QED
  BY <1>1, GridTypeInit, Nothings DEF GridInv, SubjectFits, UndoingFits, SavingFits

LEMMA GridInvStep ==
  ASSUME GridInv, [GridNext]_gridVars
  PROVE  GridInv'
<1>1. GridTypeInv'
  BY GridTypeStep DEF GridInv
<1>2. \A call : SameCall(call, call) /\ SameCall(call, NoCall)
  BY DEF SameCall
<1>3. CASE \/ \E owner \in Owners : GoTo(owner)
           \/ FetchGrid
           \/ UNCHANGED gridVars
  <2>1. UNCHANGED <<entries, punched, editor, undo, saving, undoing, subject>>
    BY <1>3 DEF GoTo, FetchGrid, gridVars
  <2> QED
    BY <1>1, <1>2, <2>1, QuietFits DEF GridInv
<1>4. CASE \E cell \in GridCells : OpenCell(cell)
  <2>1. UNCHANGED <<entries, punched, undo, saving, undoing, subject>> /\ editor = NoEditor
    BY <1>4 DEF OpenCell
  <2>2. saving'.pc # "none" => saving'.of \notin Subject
    BY <2>1 DEF GridInv, SavingFits
  <2> QED
    BY <1>1, <1>2, <2>1, <2>2, QuietFits DEF GridInv
<1>5. CASE CloseEditor
  <2>1. UNCHANGED <<entries, punched, undo, undoing, subject>>
    BY <1>5 DEF CloseEditor
  <2>2. SameCall(saving, saving') /\ (saving'.pc # "none" => saving'.of \notin Subject)
    BY <1>5, ClosedCall, Nothings DEF GridInv, GridTypeInv
  <2> QED
    BY <1>1, <1>2, <2>1, <2>2, QuietFits DEF GridInv
<1>6. CASE \E hours \in 1..MaxHours : SaveCell(hours)
  <2>1. PICK hours \in 1..MaxHours : SaveCell(hours)
    BY <1>6
  <2>2. PICK op : op = IF editor.id # 0 THEN "update" ELSE "create"
    OBVIOUS
  <2>3. /\ Press(op, hours) /\ hours \in Nat /\ op \in {"create", "update", "remove"}
        /\ (op = "create") = (editor.id = 0)
    BY <2>1, <2>2, GridAssumption DEF SaveCell
  <2> QED
    BY <1>1, <2>3, PressFits DEF GridInv
<1>7. CASE DeleteCell
  <2>1. Press("remove", 0) /\ editor.id # 0
    BY <1>7 DEF DeleteCell
  <2>2. ("remove" = "create") = (editor.id = 0)
    BY <2>1
  <2> QED
    BY <1>1, <2>1, <2>2, PressFits DEF GridInv
<1>8. CASE SaveRefused \/ UndoRefused \/ UndoAnswered \/ ToastGoes
  <2>1. /\ UNCHANGED <<entries, punched, editor>>
        /\ undo' = NoToast \/ UNCHANGED undo
        /\ subject' \in {subject, NoSubject}
        /\ saving' \in {saving, NoCall} /\ undoing' \in {undoing, NoCall}
    BY <1>8 DEF SaveRefused, UndoRefused, UndoAnswered, ToastGoes
  <2> QED
    BY <1>1, <1>2, <2>1, QuietFits DEF GridInv
<1>9. CASE PressUndo
  BY <1>1, <1>9, PressUndoFits DEF GridInv
<1>10. CASE SaveApplied
  BY <1>1, <1>10, SaveAppliedFits DEF GridInv
<1>11. CASE SaveAnswered
  BY <1>1, <1>11, SaveAnsweredFits DEF GridInv
<1>12. CASE UndoApplied
  BY <1>1, <1>12, UndoAppliedFits DEF GridInv
<1>13. ASSUME NEW owner \in Owners, NEW cell \in GridCells, OthersChange(owner, cell) PROVE GridInv'
  BY <1>1, <1>13, OthersFits DEF GridInv
<1> QED
  BY <1>3, <1>4, <1>5, <1>6, <1>7, <1>8, <1>9, <1>10, <1>11, <1>12, <1>13 DEF GridNext

(* An undo of an entry that no punches stood beside brings the employee's day
   back to what it was when Save was pressed, in every cell: those, too, whose
   punches the entry took (WeeklyGridPage's undo over createManualEntry,
   updateManualEntry and deleteManualEntry). *)
THEOREM UndoRestoresEntriesAlways == GridSpec => UndoRestoresEntries
<1>1. ASSUME GridInv, GridInv', UndoApplied, undoing.of # NoSubject, ~undoing.of.mixed
      PROVE  BringsBack(undoing.of)
  <2>1. PICK change : change = undoing.change
    OBVIOUS
  <2>2. PICK of : of = undoing.of
    OBVIOUS
  <2>3. /\ undoing.pc = "sent" /\ change \in Change /\ of \in Subject /\ of.mixed = FALSE
        /\ Effect(change) /\ TableInv /\ TableInv'
    BY <1>1, <2>1, <2>2, Nothings DEF UndoApplied, GridInv, GridTypeInv, CallShape, Subject
  <2>4. Undoes(change, of)
    BY <1>1, <2>1, <2>2, <2>3 DEF GridInv, UndoingFits, Claimed
  <2>5. PICK o : o = of.owner
    OBVIOUS
  <2>6. o = OwnerOf(change) /\ o \in Owners
    BY <2>3, <2>4, <2>5 DEF Undoes, Subject
  <2>7. /\ \A other \in Owners : other # o => Spared(other)
        /\ \A cell \in GridCells :
             punched'[o][cell] = Left(change, cell) /\ EntryHours'[o][cell] = Entered(change, cell)
    BY <2>3, <2>6, EffectTable
  <2>8. ASSUME NEW owner \in Owners, NEW cell \in GridCells
        PROVE  ViewOf(owner, cell).hours' =
                 IF owner = of.owner THEN of.hours[cell] ELSE ViewOf(owner, cell).hours
    <3>1. CASE owner = o
      <4>1. ViewOf(owner, cell)'.hours = punched'[o][cell] + EntryHours'[o][cell]
        BY <2>3, <3>1, ViewNext
      <4>2. Left(change, cell) + Entered(change, cell) = of.hours[cell]
        BY <2>4 DEF Undoes
      <4> QED
        BY <2>5, <2>7, <3>1, <4>1, <4>2
    <3>2. CASE owner # o
      <4>1. Spared(owner)
        BY <2>7, <3>2
      <4>2. ViewOf(owner, cell)'.hours = ViewOf(owner, cell).hours
        BY <2>3, <4>1, SparedShows
      <4> QED
        BY <2>5, <3>2, <4>2
    <3> QED
      BY <3>1, <3>2
  <2> QED
    BY <2>2, <2>8 DEF BringsBack
<1>2. GridInv /\ GridInv' =>
        [UndoApplied /\ undoing.of # NoSubject /\ ~undoing.of.mixed => BringsBack(undoing.of)]_gridVars
  BY <1>1
<1> QED
  BY <1>2, GridInvInit, GridInvStep, PTL DEF GridSpec, UndoRestoresEntries

-----------------------------------------------------------------------------
(* The names in the tables of the API: the calls, by who is granted them... *)

SuperAdminCalls ==
  {"createCompany", "setInternal", "setActive", "createGroup", "updateGroup",
   "deleteGroup", "setGroupMembers", "setGroupCompanies", "setMemberships", "sendUserLink",
   "updateAppliance", "seedDemo", "updateTunnel", "updateRun"}
AdminCalls ==
  {"updateCompany", "updateSettings", "invite", "updateRole", "revokeMembership",
   "sendMemberLink", "sendEmployeeLink", "createLogin", "createEmployee",
   "importEmployees", "updateEmployee", "setLogin", "regeneratePin", "setPin",
   "issueBadge", "revokeBadge", "bulkBadges", "createJob", "updateJob", "archiveJob",
   "unarchiveJob", "setTimeOffType", "issuePairingCode", "renameKiosk", "revokeKiosk",
   "deleteEntry", "runExport", "updateAISettings"}
ManagerCalls ==
  {"remind", "approve", "unapprove", "createEntry", "approveCorrection",
   "rejectCorrection"}
EveryonesCalls ==
  {"editEntry", "addOwnEntry", "createCorrection", "createManual", "updateManual",
   "removeManual", "copyLastWeek", "clockIn", "clockOut", "breakIn", "breakOut",
   "updatePreferences", "requestPhoneVerification", "confirmPhoneVerification",
   "applyCorrection", "updateUserPrefs", "setUserPhone", "requestCode", "confirmCode"}

(* ... or a read. *)
SuperAdminReads ==
  {"accessGroups", "adminUsers", "adminHealth", "adminSettings", "adminTunnel",
   "adminUpdateStatus"}
AdminReads == {"settings", "memberships", "kiosks", "payrollExports", "notificationsLog",
  "aiSettings"}
ManagerReads ==
  {"employees", "roster", "badgeStates", "badge", "badgeEvents", "missingTime",
   "multiGrid", "corrections", "reportsCatalog"}
EveryonesReads ==
  {"companies", "company", "jobs", "timeOffTypes", "timesheet", "myTimesheet",
   "weeklyGrid", "entryAudit", "myCurrentPunch", "myOpenShifts", "prefs", "aiAvailability",
   "mePrefs", "userPhone", "applianceInfo"}

(* Every name is in the table of one router or another. *)
LEMMA KnownCalls ==
  \A call \in SuperAdminCalls \cup AdminCalls \cup ManagerCalls
    \cup EveryonesCalls : call \in Calls
<1>1. \A table \in RouteTables : DOMAIN table \subseteq Calls
  BY DEF Calls, Routes, Joined
<1>2. SuperAdminCalls \subseteq Calls
  <2>1. {CompanyRoutes, AccessGroupRoutes, PeopleRoutes, ApplianceRoutes} \subseteq RouteTables
    BY DEF RouteTables
  <2> QED
    BY <1>1, <2>1 DEF SuperAdminCalls, CompanyRoutes, AccessGroupRoutes, PeopleRoutes,
                      ApplianceRoutes
<1>3. AdminCalls \subseteq Calls
  <2>1. {CompanyRoutes, SettingsRoutes, MembershipRoutes, MemberLinkRoutes, EmployeeLinkRoutes,
         EmployeeRoutes, BadgeRoutes, JobRoutes, TimeOffRoutes, KioskRoutes, TimesheetRoutes,
         ExportRoutes, AIRoutes} \subseteq RouteTables
    BY DEF RouteTables
  <2> QED
    BY <1>1, <2>1
       DEF AdminCalls, CompanyRoutes, SettingsRoutes, MembershipRoutes, MemberLinkRoutes,
           EmployeeLinkRoutes, EmployeeRoutes, BadgeRoutes, JobRoutes, TimeOffRoutes,
           KioskRoutes, TimesheetRoutes, ExportRoutes, AIRoutes
<1>4. ManagerCalls \subseteq Calls
  <2>1. {MissingTimeRoutes, TimesheetRoutes, CorrectionRoutes} \subseteq RouteTables
    BY DEF RouteTables
  <2> QED
    BY <1>1, <2>1 DEF ManagerCalls, MissingTimeRoutes, TimesheetRoutes, CorrectionRoutes
<1>5. EveryonesCalls \subseteq Calls
  <2>1. {TimesheetRoutes, CorrectionRoutes, ManualEntryRoutes, PunchRoutes, NotificationRoutes,
         AIRoutes, UserRoutes, UserPhoneRoutes} \subseteq RouteTables
    BY DEF RouteTables
  <2> QED
    BY <1>1, <2>1
       DEF EveryonesCalls, TimesheetRoutes, CorrectionRoutes, ManualEntryRoutes, PunchRoutes,
           NotificationRoutes, AIRoutes, UserRoutes, UserPhoneRoutes
<1> QED
  BY <1>2, <1>3, <1>4, <1>5

LEMMA KnownReads ==
  \A q \in SuperAdminReads \cup AdminReads \cup ManagerReads \cup EveryonesReads : q \in Queries
<1>1. \A table \in ReadTables : DOMAIN table \subseteq Queries
  BY DEF Queries, Reads, Joined
<1>2. SuperAdminReads \subseteq Queries
  <2>1. {AccessGroupReads, PeopleReads, ApplianceReads} \subseteq ReadTables
    BY DEF ReadTables
  <2> QED
    BY <1>1, <2>1 DEF SuperAdminReads, AccessGroupReads, PeopleReads, ApplianceReads
<1>3. AdminReads \subseteq Queries
  <2>1. {SettingsReads, MembershipReads, KioskReads, ExportReads, NotificationReads, AIReads}
          \subseteq ReadTables
    BY DEF ReadTables
  <2> QED
    BY <1>1, <2>1 DEF AdminReads, SettingsReads, MembershipReads, KioskReads, ExportReads,
                      NotificationReads, AIReads
<1>4. ManagerReads \subseteq Queries
  <2>1. {EmployeeReads, BadgeReads, MissingTimeReads, TimesheetReads, CorrectionReads, ReportReads}
          \subseteq ReadTables
    BY DEF ReadTables
  <2> QED
    BY <1>1, <2>1 DEF ManagerReads, EmployeeReads, BadgeReads, MissingTimeReads, TimesheetReads,
                      CorrectionReads, ReportReads
<1>5. EveryonesReads \subseteq Queries
  <2>1. {CompanyReads, JobReads, TimeOffReads, TimesheetReads, PunchReads, NotificationReads,
         AIReads, UserReads, UserPhoneReads, ApplianceReads} \subseteq ReadTables
    BY DEF ReadTables
  <2> QED
    BY <1>1, <2>1 DEF EveryonesReads, CompanyReads, JobReads, TimeOffReads, TimesheetReads,
                      PunchReads, NotificationReads, AIReads, UserReads, UserPhoneReads,
                      ApplianceReads
<1> QED
  BY <1>2, <1>3, <1>4, <1>5

-----------------------------------------------------------------------------
(* What the calls change.  The records that screens go on to show, and the
   calls that store into them... *)

StoredBy(record) ==
  CASE record = "company" ->
         {"createCompany", "setInternal", "setActive", "updateCompany", "seedDemo"}
    [] record = "settings" -> {"updateSettings"}
    [] record = "memberships" ->
         {"invite", "updateRole", "revokeMembership", "createLogin", "deleteGroup",
          "setGroupMembers", "setGroupCompanies", "setMemberships", "seedDemo"}
    [] record = "employees" ->
         {"createLogin", "createEmployee", "importEmployees", "updateEmployee", "setLogin",
          "regeneratePin", "setPin", "seedDemo"}
    [] record = "badges" -> {"issueBadge", "revokeBadge", "bulkBadges"}
    [] record = "jobs" ->
         {"createJob", "updateJob", "archiveJob", "unarchiveJob", "setTimeOffType",
          "seedDemo"}
    [] record = "kiosks" -> {"renameKiosk", "revokeKiosk"}
    [] record = "entries" ->
         {"approve", "unapprove", "createEntry", "editEntry", "deleteEntry", "addOwnEntry",
          "approveCorrection", "createManual", "updateManual", "removeManual",
          "copyLastWeek", "clockIn", "clockOut", "breakIn", "breakOut", "applyCorrection",
          "seedDemo"}
    [] record = "employeePrefs" ->
         {"updatePreferences", "confirmPhoneVerification"}
    [] record = "userPrefs" -> {"updateUserPrefs"}
    [] record = "userPhone" -> {"setUserPhone", "requestCode", "confirmCode"}
    [] record = "grants" ->
         {"updateGroup", "deleteGroup", "setGroupMembers", "setGroupCompanies"}
    [] record = "appliance" -> {"updateAppliance"}

KeptRecords == {"company", "settings", "memberships", "employees", "badges", "jobs",
                "kiosks", "entries", "employeePrefs", "userPrefs", "userPhone", "grants",
                "appliance"}

Stores(table) ==
  \A name \in DOMAIN table : \A record \in table[name].writes \cap KeptRecords :
    name \in StoredBy(record)

(* ... and what the queries are put together from. *)
PutTogether(q) ==
  CASE q = "company" -> {"company"}
    [] q = "settings" -> {"settings"}
    [] q = "memberships" -> {"memberships"}
    [] q = "employees" -> {"employees"}
    [] q \in {"badgeStates", "badge", "badgeEvents"} -> {"badges"}
    [] q \in {"jobs", "timeOffTypes"} -> {"jobs"}
    [] q = "kiosks" -> {"kiosks"}
    [] q = "timesheet" -> {"entries", "jobs"}
    [] q = "prefs" -> {"employeePrefs"}
    [] q = "mePrefs" -> {"userPrefs"}
    [] q = "userPhone" -> {"userPhone"}
    [] q = "adminUsers" -> {"company", "grants", "memberships"}
    [] q = "adminSettings" -> {"appliance"}

ShownOn == {"company", "settings", "memberships", "employees", "badgeStates", "badge",
            "badgeEvents", "jobs", "timeOffTypes", "kiosks", "timesheet", "prefs",
            "mePrefs", "userPhone", "adminUsers", "adminSettings"}

Reflects(table) ==
  \A name \in DOMAIN table \cap ShownOn : table[name].reads = PutTogether(name)

LEMMA JoinedStores ==
  ASSUME NEW tables, \A table \in tables : Stores(table)
  PROVE  Stores(Joined(tables))
<1> SUFFICES ASSUME NEW name \in DOMAIN Joined(tables),
                    NEW record \in Joined(tables)[name].writes \cap KeptRecords
             PROVE  name \in StoredBy(record)
  BY DEF Stores
<1>1. name \in UNION {DOMAIN t : t \in tables}
  BY DEF Joined
<1>2. PICK found : found = CHOOSE t \in tables : name \in DOMAIN t
  OBVIOUS
<1>3. found \in tables /\ name \in DOMAIN found
  BY <1>1, <1>2
<1>4. Joined(tables)[name] = found[name]
  BY <1>1, <1>2 DEF Joined
<1> QED
  BY <1>3, <1>4 DEF Stores

LEMMA JoinedReflects ==
  ASSUME NEW tables, \A table \in tables : Reflects(table)
  PROVE  Reflects(Joined(tables))
<1> SUFFICES ASSUME NEW name \in DOMAIN Joined(tables) \cap ShownOn
             PROVE  Joined(tables)[name].reads = PutTogether(name)
  BY DEF Reflects
<1>1. name \in UNION {DOMAIN t : t \in tables}
  BY DEF Joined
<1>2. PICK found : found = CHOOSE t \in tables : name \in DOMAIN t
  OBVIOUS
<1>3. found \in tables /\ name \in DOMAIN found
  BY <1>1, <1>2
<1>4. Joined(tables)[name] = found[name]
  BY <1>1, <1>2 DEF Joined
<1> QED
  BY <1>3, <1>4 DEF Reflects

LEMMA RoutesStore == Stores(Routes)
<1>1. Stores(CompanyRoutes)
  BY DEF Stores, StoredBy, KeptRecords, CompanyRoutes, Route
<1>2. Stores(SettingsRoutes)
  BY DEF Stores, StoredBy, KeptRecords, SettingsRoutes, Route
<1>3. Stores(MembershipRoutes)
  BY DEF Stores, StoredBy, KeptRecords, MembershipRoutes, Route
<1>4. Stores(MemberLinkRoutes)
  BY DEF Stores, StoredBy, KeptRecords, MemberLinkRoutes, Route
<1>5. Stores(EmployeeLinkRoutes)
  BY DEF Stores, StoredBy, KeptRecords, EmployeeLinkRoutes, Route
<1>6. Stores(EmployeeRoutes)
  BY DEF Stores, StoredBy, KeptRecords, EmployeeRoutes, Route
<1>7. Stores(BadgeRoutes)
  BY DEF Stores, StoredBy, KeptRecords, BadgeRoutes, Route
<1>8. Stores(JobRoutes)
  BY DEF Stores, StoredBy, KeptRecords, JobRoutes, Route
<1>9. Stores(MissingTimeRoutes)
  BY DEF Stores, StoredBy, KeptRecords, MissingTimeRoutes, Route
<1>10. Stores(TimeOffRoutes)
  BY DEF Stores, StoredBy, KeptRecords, TimeOffRoutes, Route
<1>11. Stores(KioskRoutes)
  BY DEF Stores, StoredBy, KeptRecords, KioskRoutes, Route
<1>12. Stores(TimesheetRoutes)
  BY DEF Stores, StoredBy, KeptRecords, TimesheetRoutes, Route
<1>13. Stores(CorrectionRoutes)
  BY DEF Stores, StoredBy, KeptRecords, CorrectionRoutes, Route
<1>14. Stores(ManualEntryRoutes)
  BY DEF Stores, StoredBy, KeptRecords, ManualEntryRoutes, Route
<1>15. Stores(PunchRoutes)
  BY DEF Stores, StoredBy, KeptRecords, PunchRoutes, Route
<1>16. Stores(ExportRoutes)
  BY DEF Stores, StoredBy, KeptRecords, ExportRoutes, Route
<1>17. Stores(NotificationRoutes)
  BY DEF Stores, StoredBy, KeptRecords, NotificationRoutes, Route
<1>18. Stores(AIRoutes)
  BY DEF Stores, StoredBy, KeptRecords, AIRoutes, Route
<1>19. Stores(UserRoutes)
  BY DEF Stores, StoredBy, KeptRecords, UserRoutes, Route
<1>20. Stores(UserPhoneRoutes)
  BY DEF Stores, StoredBy, KeptRecords, UserPhoneRoutes, Route
<1>21. Stores(AccessGroupRoutes)
  BY DEF Stores, StoredBy, KeptRecords, AccessGroupRoutes, Route
<1>22. Stores(PeopleRoutes)
  BY DEF Stores, StoredBy, KeptRecords, PeopleRoutes, Route
<1>23. Stores(ApplianceRoutes)
  BY DEF Stores, StoredBy, KeptRecords, ApplianceRoutes, Route
<1>24. \A table \in RouteTables : Stores(table)
  BY <1>1, <1>2, <1>3, <1>4, <1>5, <1>6, <1>7, <1>8, <1>9, <1>10, <1>11, <1>12, <1>13,
     <1>14, <1>15, <1>16, <1>17, <1>18, <1>19, <1>20, <1>21, <1>22, <1>23 DEF RouteTables
<1> QED
  BY <1>24, JoinedStores DEF Routes

LEMMA ReadsReflect == Reflects(Reads)
<1>1. Reflects(CompanyReads)
  BY DEF Reflects, PutTogether, ShownOn, CompanyReads, Read
<1>2. Reflects(SettingsReads)
  BY DEF Reflects, PutTogether, ShownOn, SettingsReads, Read
<1>3. Reflects(MembershipReads)
  BY DEF Reflects, PutTogether, ShownOn, MembershipReads, Read
<1>4. Reflects(EmployeeReads)
  BY DEF Reflects, PutTogether, ShownOn, EmployeeReads, Read
<1>5. Reflects(BadgeReads)
  BY DEF Reflects, PutTogether, ShownOn, BadgeReads, Read
<1>6. Reflects(JobReads)
  BY DEF Reflects, PutTogether, ShownOn, JobReads, Read
<1>7. Reflects(MissingTimeReads)
  BY DEF Reflects, PutTogether, ShownOn, MissingTimeReads, Read
<1>8. Reflects(TimeOffReads)
  BY DEF Reflects, PutTogether, ShownOn, TimeOffReads, Read
<1>9. Reflects(KioskReads)
  BY DEF Reflects, PutTogether, ShownOn, KioskReads, Read
<1>10. Reflects(TimesheetReads)
  BY DEF Reflects, PutTogether, ShownOn, TimesheetReads, Read, Grids
<1>11. Reflects(CorrectionReads)
  BY DEF Reflects, PutTogether, ShownOn, CorrectionReads, Read
<1>12. Reflects(PunchReads)
  BY DEF Reflects, PutTogether, ShownOn, PunchReads, Read
<1>13. Reflects(ExportReads)
  BY DEF Reflects, PutTogether, ShownOn, ExportReads, Read
<1>14. Reflects(ReportReads)
  BY DEF Reflects, PutTogether, ShownOn, ReportReads, Read
<1>15. Reflects(NotificationReads)
  BY DEF Reflects, PutTogether, ShownOn, NotificationReads, Read
<1>16. Reflects(AIReads)
  BY DEF Reflects, PutTogether, ShownOn, AIReads, Read
<1>17. Reflects(UserReads)
  BY DEF Reflects, PutTogether, ShownOn, UserReads, Read
<1>18. Reflects(UserPhoneReads)
  BY DEF Reflects, PutTogether, ShownOn, UserPhoneReads, Read
<1>19. Reflects(AccessGroupReads)
  BY DEF Reflects, PutTogether, ShownOn, AccessGroupReads, Read
<1>20. Reflects(PeopleReads)
  BY DEF Reflects, PutTogether, ShownOn, PeopleReads, Read
<1>21. Reflects(ApplianceReads)
  BY DEF Reflects, PutTogether, ShownOn, ApplianceReads, Read
<1>22. \A table \in ReadTables : Reflects(table)
  BY <1>1, <1>2, <1>3, <1>4, <1>5, <1>6, <1>7, <1>8, <1>9, <1>10, <1>11, <1>12, <1>13,
     <1>14, <1>15, <1>16, <1>17, <1>18, <1>19, <1>20, <1>21 DEF ReadTables
<1> QED
  BY <1>22, JoinedReflects DEF Reads

-----------------------------------------------------------------------------
(* A change tells of itself: what it changes of the screen, it refreshes, and
   nothing else that the screen shows does it change. *)

(* The queries that the answer to some change refreshes. *)
Refreshed ==
  {"companies", "company", "settings", "memberships", "employees", "badgeStates", "badge",
   "badgeEvents", "jobs", "missingTime", "timeOffTypes", "kiosks", "timesheet",
   "myTimesheet", "weeklyGrid", "multiGrid", "corrections", "myCurrentPunch",
   "myOpenShifts", "payrollExports", "prefs", "aiSettings", "mePrefs", "userPhone",
   "accessGroups", "adminUsers", "adminSettings", "adminTunnel", "adminUpdateStatus"}

Changes(call, q) == Routes[call].writes \cap Reads[q].reads # {}

LEMMA WhatChanges ==
  ASSUME NEW call \in Calls, NEW q \in ShownOn, Changes(call, q)
  PROVE  \E record \in PutTogether(q) : call \in StoredBy(record)
<1>1. q \in Queries
  BY KnownReads DEF ShownOn, SuperAdminReads, AdminReads, ManagerReads, EveryonesReads
<1>2. Reads[q].reads = PutTogether(q)
  BY <1>1, ReadsReflect DEF Reflects, Queries
<1>3. PutTogether(q) \subseteq KeptRecords
  BY DEF PutTogether, ShownOn, KeptRecords
<1>4. PICK record \in Routes[call].writes : record \in PutTogether(q)
  BY <1>2 DEF Changes
<1>5. call \in StoredBy(record)
  BY <1>3, <1>4, RoutesStore DEF Stores, Calls
<1> QED
  BY <1>4, <1>5

(* Queries that none of these calls changes. *)
LeftAlone(calls, queries) ==
  calls \subseteq Calls /\ \A call \in calls, q \in queries : ~Changes(call, q)

LEMMA Changers ==
  \A call \in Calls :
    /\ Changes(call, "company") => call \in StoredBy("company")
    /\ Changes(call, "settings") => call \in StoredBy("settings")
    /\ Changes(call, "memberships") => call \in StoredBy("memberships")
    /\ Changes(call, "employees") => call \in StoredBy("employees")
    /\ \A q \in {"badgeStates", "badge", "badgeEvents"} :
         Changes(call, q) => call \in StoredBy("badges")
    /\ \A q \in {"jobs", "timeOffTypes"} : Changes(call, q) => call \in StoredBy("jobs")
    /\ Changes(call, "kiosks") => call \in StoredBy("kiosks")
    /\ Changes(call, "timesheet") => call \in StoredBy("entries") \cup StoredBy("jobs")
    /\ Changes(call, "prefs") => call \in StoredBy("employeePrefs")
    /\ Changes(call, "mePrefs") => call \in StoredBy("userPrefs")
    /\ Changes(call, "userPhone") => call \in StoredBy("userPhone")
    /\ Changes(call, "adminUsers") =>
         call \in StoredBy("company") \cup StoredBy("grants") \cup StoredBy("memberships")
    /\ Changes(call, "adminSettings") => call \in StoredBy("appliance")
BY WhatChanges DEF PutTogether, ShownOn

(* On a screen that shows these queries, a change tells of itself. *)
Tells(change, shows) ==
  /\ change.refreshes \cup change.adopts \subseteq Refreshed
  /\ \A q \in (shows \cap Refreshed) \ (change.refreshes \cup change.adopts) :
       <<change, q>> \in MissingRefresh \/ LeftAlone(change.calls, {q})

Telling(s) == \A change \in s.changes : Tells(change, s.shows)

LEMMA SubmitTells ==
  ASSUME NEW calls, NEW refreshes, NEW adopts, NEW shows, NEW others,
         refreshes \cup adopts \subseteq Refreshed, LeftAlone(calls, others),
         shows \cap Refreshed \subseteq refreshes \cup adopts \cup others
  PROVE  Tells(Submit(calls, refreshes, adopts), shows)
<1>1. PICK change : change = Submit(calls, refreshes, adopts)
  OBVIOUS
<1>2. change.calls = calls /\ change.refreshes = refreshes /\ change.adopts = adopts
  BY <1>1 DEF Submit
<1>3. \A q \in others : LeftAlone(calls, {q})
  BY DEF LeftAlone
<1>4. Tells(change, shows)
  BY <1>2, <1>3 DEF Tells
<1> QED
  BY <1>1, <1>4

LEMMA SavesTell ==
  ASSUME NEW calls, NEW refreshes, NEW shows, NEW others,
         refreshes \subseteq Refreshed, LeftAlone(calls, others),
         shows \cap Refreshed \subseteq refreshes \cup others
  PROVE  \A call \in calls : Tells(Save(call, refreshes), shows)
<1> SUFFICES ASSUME NEW call \in calls PROVE Tells(Submit({call}, refreshes, {}), shows)
  BY DEF Save
<1>1. LeftAlone({call}, others)
  BY DEF LeftAlone
<1> QED
  BY <1>1, SubmitTells

LEMMA TellingScreen ==
  ASSUME NEW page, NEW reach, NEW shows, NEW submits,
         \A change \in submits : Tells(change, shows)
  PROVE  Telling(Screen(page, reach, shows, submits))
BY DEF Telling, Screen

LEMMA TellingModal ==
  ASSUME NEW page, NEW reach, NEW seen, NEW done, NEW shows, NEW submits,
         \A change \in submits : Tells(change, seen \cup shows)
  PROVE  Telling(Over(Screen(page, reach, seen, done), shows, submits))
<1>1. PICK s : s = Over(Screen(page, reach, seen, done), shows, submits)
  OBVIOUS
<1>2. PICK all : all = seen \cup shows
  OBVIOUS
<1>3. s = [[page |-> page, reach |-> reach, shows |-> seen, changes |-> done]
             EXCEPT !.shows = all, !.changes = submits]
  BY <1>1, <1>2 DEF Over, Screen
<1>4. s.shows = seen \cup shows /\ s.changes = submits
  BY <1>2, <1>3
<1>5. Telling(s)
  BY <1>4 DEF Telling
<1> QED
  BY <1>1, <1>5

(* Screen by screen. *)
LEMMA CompaniesListPageTelling == Telling(CompaniesListPage)
<1>1. (App \cup TopBar \cup {"companies"}) \cap Refreshed \subseteq {"companies"}
  BY DEF App, TopBar, Refreshed
<1>2. \A call \in {"createCompany", "setActive", "setInternal"} :
        Tells(Save(call, {"companies"}), App \cup TopBar \cup {"companies"})
  <2>1. LeftAlone({"createCompany", "setActive", "setInternal"}, {})
    BY KnownCalls, Changers DEF LeftAlone, SuperAdminCalls
  <2>2. {"companies"} \subseteq Refreshed
    BY DEF Refreshed
  <2>3. {"companies"} \subseteq {"companies"} \cup {}
    OBVIOUS
  <2> QED
    BY <1>1, <2>1, <2>2, <2>3, SavesTell
<1> QED
  BY <1>2, TellingScreen DEF CompaniesListPage

LEMMA EmployeesPageTelling == Telling(EmployeesPage)
<1>1. (CompanyLayout \cup Roster) \cap Refreshed
      \subseteq {"company", "employees", "badgeStates"}
  BY DEF CompanyLayout, App, TopBar, Roster, Refreshed
<1>2. \A call \in {"bulkBadges"} :
        Tells(Save(call, {"badgeStates"}), CompanyLayout \cup Roster)
  <2>1. LeftAlone({"bulkBadges"}, {"company", "employees"})
    BY KnownCalls, Changers DEF LeftAlone, AdminCalls, StoredBy
  <2>2. {"badgeStates"} \subseteq Refreshed
    BY DEF Refreshed
  <2>3. {"company", "employees", "badgeStates"}
        \subseteq {"badgeStates"} \cup {"company", "employees"}
    OBVIOUS
  <2> QED
    BY <1>1, <2>1, <2>2, <2>3, SavesTell
<1> QED
  BY <1>2, TellingScreen DEF EmployeesPage

LEMMA EmployeeDetailDrawerTelling == Telling(EmployeeDetailDrawer)
<1>1. ((CompanyLayout \cup Roster) \cup {"badge", "badgeEvents"}) \cap Refreshed
      \subseteq {"company", "employees", "badgeStates", "badge", "badgeEvents"}
  BY DEF CompanyLayout, App, TopBar, Roster, Refreshed
<1>2. \A call \in {"updateEmployee", "regeneratePin"} :
        Tells(Save(call, Roster), (CompanyLayout \cup Roster) \cup {"badge", "badgeEvents"})
  <2>1. LeftAlone({"updateEmployee", "regeneratePin"}, {"company", "badge", "badgeEvents"})
    BY KnownCalls, Changers DEF LeftAlone, AdminCalls, StoredBy
  <2>2. Roster \subseteq Refreshed
    BY DEF Refreshed, Roster
  <2>3. {"company", "employees", "badgeStates", "badge", "badgeEvents"}
        \subseteq Roster \cup {"company", "badge", "badgeEvents"}
    BY DEF Roster
  <2> QED
    BY <1>1, <2>1, <2>2, <2>3, SavesTell
<1>3. \A call \in {"setLogin", "createLogin"} :
        Tells(Save(call, Roster), (CompanyLayout \cup Roster) \cup {"badge", "badgeEvents"})
  <2>1. LeftAlone({"setLogin", "createLogin"}, {"company", "badge", "badgeEvents"})
    BY KnownCalls, Changers DEF LeftAlone, AdminCalls, StoredBy
  <2>2. Roster \subseteq Refreshed
    BY DEF Refreshed, Roster
  <2>3. {"company", "employees", "badgeStates", "badge", "badgeEvents"}
        \subseteq Roster \cup {"company", "badge", "badgeEvents"}
    BY DEF Roster
  <2> QED
    BY <1>1, <2>1, <2>2, <2>3, SavesTell
<1>4. \A call \in {"issueBadge", "revokeBadge"} :
        Tells(Save(call, Roster \cup {"badge", "badgeEvents"}), (CompanyLayout \cup Roster)
          \cup {"badge", "badgeEvents"})
  <2>1. LeftAlone({"issueBadge", "revokeBadge"}, {"company"})
    BY KnownCalls, Changers DEF LeftAlone, AdminCalls, StoredBy
  <2>2. Roster \cup {"badge", "badgeEvents"} \subseteq Refreshed
    BY DEF Refreshed, Roster
  <2>3. {"company", "employees", "badgeStates", "badge", "badgeEvents"}
        \subseteq Roster \cup {"badge", "badgeEvents"} \cup {"company"}
    BY DEF Roster
  <2> QED
    BY <1>1, <2>1, <2>2, <2>3, SavesTell
<1>5. \A call \in {"setPin"} :
        Tells(Save(call, Roster), (CompanyLayout \cup Roster) \cup {"badge", "badgeEvents"})
  <2>1. LeftAlone({"setPin"}, {"company", "badge", "badgeEvents"})
    BY KnownCalls, Changers DEF LeftAlone, AdminCalls, StoredBy
  <2>2. Roster \subseteq Refreshed
    BY DEF Refreshed, Roster
  <2>3. {"company", "employees", "badgeStates", "badge", "badgeEvents"}
        \subseteq Roster \cup {"company", "badge", "badgeEvents"}
    BY DEF Roster
  <2> QED
    BY <1>1, <2>1, <2>2, <2>3, SavesTell
<1> QED
  BY <1>2, <1>3, <1>4, <1>5, TellingModal DEF EmployeeDetailDrawer, EmployeesPage,
     EmployeeLoginPanel, EmployeeBadgePanel, SetPinModal

LEMMA JobsPageTelling == Telling(JobsPage)
<1>1. (CompanyLayout \cup {"jobs"}) \cap Refreshed \subseteq {"company", "jobs"}
  BY DEF CompanyLayout, App, TopBar, Refreshed
<1>2. \A call \in {"archiveJob", "unarchiveJob"} :
        Tells(Save(call, {"jobs"}), CompanyLayout \cup {"jobs"})
  <2>1. LeftAlone({"archiveJob", "unarchiveJob"}, {"company"})
    BY KnownCalls, Changers DEF LeftAlone, AdminCalls, StoredBy
  <2>2. {"jobs"} \subseteq Refreshed
    BY DEF Refreshed
  <2>3. {"company", "jobs"} \subseteq {"jobs"} \cup {"company"}
    OBVIOUS
  <2> QED
    BY <1>1, <2>1, <2>2, <2>3, SavesTell
<1> QED
  BY <1>2, TellingScreen DEF JobsPage

LEMMA JobEditorModalTelling == Telling(JobEditorModal)
<1>1. ((CompanyLayout \cup {"jobs"}) \cup {}) \cap Refreshed \subseteq {"company", "jobs"}
  BY DEF CompanyLayout, App, TopBar, Refreshed
<1>2. \A call \in {"createJob", "updateJob"} :
        Tells(Save(call, {"jobs"}), (CompanyLayout \cup {"jobs"}) \cup {})
  <2>1. LeftAlone({"createJob", "updateJob"}, {"company"})
    BY KnownCalls, Changers DEF LeftAlone, AdminCalls, StoredBy
  <2>2. {"jobs"} \subseteq Refreshed
    BY DEF Refreshed
  <2>3. {"company", "jobs"} \subseteq {"jobs"} \cup {"company"}
    OBVIOUS
  <2> QED
    BY <1>1, <2>1, <2>2, <2>3, SavesTell
<1> QED
  BY <1>2, TellingModal DEF JobEditorModal, JobsPage

LEMMA MultiEmployeeGridPageTelling == Telling(MultiEmployeeGridPage)
<1>1. (CompanyLayout \cup {"multiGrid", "mePrefs"}) \cap Refreshed
      \subseteq {"company", "multiGrid", "mePrefs"}
  BY DEF CompanyLayout, App, TopBar, Refreshed
<1>2. \A call \in {"updateUserPrefs"} :
        Tells(Save(call, {"mePrefs", "multiGrid"}), CompanyLayout \cup {"multiGrid", "mePrefs"})
  <2>1. LeftAlone({"updateUserPrefs"}, {"company"})
    BY KnownCalls, Changers DEF LeftAlone, EveryonesCalls, StoredBy
  <2>2. {"mePrefs", "multiGrid"} \subseteq Refreshed
    BY DEF Refreshed
  <2>3. {"company", "multiGrid", "mePrefs"} \subseteq {"mePrefs", "multiGrid"} \cup {"company"}
    OBVIOUS
  <2> QED
    BY <1>1, <2>1, <2>2, <2>3, SavesTell
<1>3. \A call \in {"approve"} :
        Tells(Save(call, {"multiGrid"}), CompanyLayout \cup {"multiGrid", "mePrefs"})
  <2>1. LeftAlone({"approve"}, {"company", "mePrefs"})
    BY KnownCalls, Changers DEF LeftAlone, ManagerCalls, StoredBy
  <2>2. {"multiGrid"} \subseteq Refreshed
    BY DEF Refreshed
  <2>3. {"company", "multiGrid", "mePrefs"} \subseteq {"multiGrid"} \cup {"company", "mePrefs"}
    OBVIOUS
  <2> QED
    BY <1>1, <2>1, <2>2, <2>3, SavesTell
<1> QED
  BY <1>2, <1>3, TellingScreen DEF MultiEmployeeGridPage

LEMMA TimesheetsReviewPageTelling == Telling(TimesheetsReviewPage)
<1>1. (CompanyLayout \cup {"employees", "timesheet", "jobs"}) \cap Refreshed
      \subseteq {"company", "employees", "timesheet", "jobs"}
  BY DEF CompanyLayout, App, TopBar, Refreshed
<1>2. \A call \in {"approve", "unapprove", "createEntry", "editEntry", "deleteEntry"} :
        Tells(Save(call, {"timesheet"}), CompanyLayout \cup {"employees", "timesheet", "jobs"})
  <2>1. LeftAlone({"approve", "unapprove", "createEntry", "editEntry", "deleteEntry"},
        {"company", "employees", "jobs"})
    BY KnownCalls, Changers DEF LeftAlone, AdminCalls, ManagerCalls, EveryonesCalls, StoredBy
  <2>2. {"timesheet"} \subseteq Refreshed
    BY DEF Refreshed
  <2>3. {"company", "employees", "timesheet", "jobs"}
        \subseteq {"timesheet"} \cup {"company", "employees", "jobs"}
    OBVIOUS
  <2> QED
    BY <1>1, <2>1, <2>2, <2>3, SavesTell
<1>3. \A call \in {"applyCorrection"} :
        Tells(Save(call, {"timesheet"}), CompanyLayout \cup {"employees", "timesheet", "jobs"})
  <2>1. LeftAlone({"applyCorrection"}, {"company", "employees", "jobs"})
    BY KnownCalls, Changers DEF LeftAlone, EveryonesCalls, StoredBy
  <2>2. {"timesheet"} \subseteq Refreshed
    BY DEF Refreshed
  <2>3. {"company", "employees", "timesheet", "jobs"}
        \subseteq {"timesheet"} \cup {"company", "employees", "jobs"}
    OBVIOUS
  <2> QED
    BY <1>1, <2>1, <2>2, <2>3, SavesTell
<1> QED
  BY <1>2, <1>3, TellingScreen DEF TimesheetsReviewPage, NLCorrectionWidget

LEMMA MissingTimeRemindersModalTelling == Telling(MissingTimeRemindersModal)
<1>1. ((CompanyLayout \cup {"employees", "timesheet", "jobs"}) \cup {"missingTime"})
      \cap Refreshed \subseteq {"company", "employees", "timesheet", "jobs", "missingTime"}
  BY DEF CompanyLayout, App, TopBar, Refreshed
<1>2. \A call \in {"remind"} :
        Tells(Save(call, {"missingTime"}), (CompanyLayout \cup {"employees", "timesheet",
          "jobs"}) \cup {"missingTime"})
  <2>1. LeftAlone({"remind"}, {"company", "employees", "timesheet", "jobs"})
    BY KnownCalls, Changers DEF LeftAlone, ManagerCalls, StoredBy
  <2>2. {"missingTime"} \subseteq Refreshed
    BY DEF Refreshed
  <2>3. {"company", "employees", "timesheet", "jobs", "missingTime"}
        \subseteq {"missingTime"} \cup {"company", "employees", "timesheet", "jobs"}
    OBVIOUS
  <2> QED
    BY <1>1, <2>1, <2>2, <2>3, SavesTell
<1> QED
  BY <1>2, TellingModal DEF MissingTimeRemindersModal, TimesheetsReviewPage

LEMMA DecideModalTelling == Telling(DecideModal)
<1>1. ((CompanyLayout \cup {"corrections"}) \cup {}) \cap Refreshed
      \subseteq {"company", "corrections"}
  BY DEF CompanyLayout, App, TopBar, Refreshed
<1>2. \A call \in {"approveCorrection", "rejectCorrection"} :
        Tells(Save(call, {"corrections"}), (CompanyLayout \cup {"corrections"}) \cup {})
  <2>1. LeftAlone({"approveCorrection", "rejectCorrection"}, {"company"})
    BY KnownCalls, Changers DEF LeftAlone, ManagerCalls, StoredBy
  <2>2. {"corrections"} \subseteq Refreshed
    BY DEF Refreshed
  <2>3. {"company", "corrections"} \subseteq {"corrections"} \cup {"company"}
    OBVIOUS
  <2> QED
    BY <1>1, <2>1, <2>2, <2>3, SavesTell
<1> QED
  BY <1>2, TellingModal DEF DecideModal, CorrectionsPage

LEMMA RunExportModalTelling == Telling(RunExportModal)
<1>1. ((CompanyLayout \cup {"payrollExports"}) \cup {}) \cap Refreshed
      \subseteq {"company", "payrollExports"}
  BY DEF CompanyLayout, App, TopBar, Refreshed
<1>2. \A call \in {"runExport"} :
        Tells(Save(call, {"payrollExports"}), (CompanyLayout \cup {"payrollExports"}) \cup {})
  <2>1. LeftAlone({"runExport"}, {"company"})
    BY KnownCalls, Changers DEF LeftAlone, AdminCalls, StoredBy
  <2>2. {"payrollExports"} \subseteq Refreshed
    BY DEF Refreshed
  <2>3. {"company", "payrollExports"} \subseteq {"payrollExports"} \cup {"company"}
    OBVIOUS
  <2> QED
    BY <1>1, <2>1, <2>2, <2>3, SavesTell
<1> QED
  BY <1>2, TellingModal DEF RunExportModal, PayrollExportsPage

LEMMA TeamPageTelling == Telling(TeamPage)
<1>1. (CompanyLayout \cup {"memberships"}) \cap Refreshed \subseteq {"company", "memberships"}
  BY DEF CompanyLayout, App, TopBar, Refreshed
<1>2. \A call \in {"updateRole", "revokeMembership"} :
        Tells(Save(call, {"memberships"}), CompanyLayout \cup {"memberships"})
  <2>1. LeftAlone({"updateRole", "revokeMembership"}, {"company"})
    BY KnownCalls, Changers DEF LeftAlone, AdminCalls, StoredBy
  <2>2. {"memberships"} \subseteq Refreshed
    BY DEF Refreshed
  <2>3. {"company", "memberships"} \subseteq {"memberships"} \cup {"company"}
    OBVIOUS
  <2> QED
    BY <1>1, <2>1, <2>2, <2>3, SavesTell
<1>3. \A call \in {"sendMemberLink"} :
        Tells(Save(call, {}), CompanyLayout \cup {"memberships"})
  <2>1. LeftAlone({"sendMemberLink"}, {"company", "memberships"})
    BY KnownCalls, Changers DEF LeftAlone, AdminCalls, StoredBy
  <2>2. {} \subseteq Refreshed
    BY DEF Refreshed
  <2>3. {"company", "memberships"} \subseteq {} \cup {"company", "memberships"}
    OBVIOUS
  <2> QED
    BY <1>1, <2>1, <2>2, <2>3, SavesTell
<1> QED
  BY <1>2, <1>3, TellingScreen DEF TeamPage

LEMMA KiosksPageTelling == Telling(KiosksPage)
<1>1. (CompanyLayout \cup {"kiosks"}) \cap Refreshed \subseteq {"company", "kiosks"}
  BY DEF CompanyLayout, App, TopBar, Refreshed
<1>2. \A call \in {"renameKiosk", "revokeKiosk"} :
        Tells(Save(call, {"kiosks"}), CompanyLayout \cup {"kiosks"})
  <2>1. LeftAlone({"renameKiosk", "revokeKiosk"}, {"company"})
    BY KnownCalls, Changers DEF LeftAlone, AdminCalls, StoredBy
  <2>2. {"kiosks"} \subseteq Refreshed
    BY DEF Refreshed
  <2>3. {"company", "kiosks"} \subseteq {"kiosks"} \cup {"company"}
    OBVIOUS
  <2> QED
    BY <1>1, <2>1, <2>2, <2>3, SavesTell
<1>3. \A call \in {"issuePairingCode"} :
        Tells(Save(call, {}), CompanyLayout \cup {"kiosks"})
  <2>1. LeftAlone({"issuePairingCode"}, {"company", "kiosks"})
    BY KnownCalls, Changers DEF LeftAlone, AdminCalls, StoredBy
  <2>2. {} \subseteq Refreshed
    BY DEF Refreshed
  <2>3. {"company", "kiosks"} \subseteq {} \cup {"company", "kiosks"}
    OBVIOUS
  <2> QED
    BY <1>1, <2>1, <2>2, <2>3, SavesTell
<1> QED
  BY <1>2, <1>3, TellingScreen DEF KiosksPage

LEMMA CompanySettingsPageTelling == Telling(CompanySettingsPage)
<1>1. (CompanyLayout \cup {"settings"}) \cap Refreshed \subseteq {"company", "settings"}
  BY DEF CompanyLayout, App, TopBar, Refreshed
<1>2. \A call \in {"updateCompany"} :
        Tells(Save(call, {"company"}), CompanyLayout \cup {"settings"})
  <2>1. LeftAlone({"updateCompany"}, {"settings"})
    BY KnownCalls, Changers DEF LeftAlone, AdminCalls, StoredBy
  <2>2. {"company"} \subseteq Refreshed
    BY DEF Refreshed
  <2>3. {"company", "settings"} \subseteq {"company"} \cup {"settings"}
    OBVIOUS
  <2> QED
    BY <1>1, <2>1, <2>2, <2>3, SavesTell
<1>3. \A call \in {"updateSettings"} :
        Tells(Save(call, {"settings"}), CompanyLayout \cup {"settings"})
  <2>1. LeftAlone({"updateSettings"}, {"company"})
    BY KnownCalls, Changers DEF LeftAlone, AdminCalls, StoredBy
  <2>2. {"settings"} \subseteq Refreshed
    BY DEF Refreshed
  <2>3. {"company", "settings"} \subseteq {"settings"} \cup {"company"}
    OBVIOUS
  <2> QED
    BY <1>1, <2>1, <2>2, <2>3, SavesTell
<1> QED
  BY <1>2, <1>3, TellingScreen DEF CompanySettingsPage

LEMMA TimeOffSettingsTelling == Telling(TimeOffSettings)
<1>1. ((CompanyLayout \cup {"settings"}) \cup {"timeOffTypes"}) \cap Refreshed
      \subseteq {"company", "settings", "timeOffTypes"}
  BY DEF CompanyLayout, App, TopBar, Refreshed
<1>2. \A call \in {"updateSettings"} :
        Tells(Save(call, {"settings"}), (CompanyLayout \cup {"settings"}) \cup {"timeOffTypes"})
  <2>1. LeftAlone({"updateSettings"}, {"company", "timeOffTypes"})
    BY KnownCalls, Changers DEF LeftAlone, AdminCalls, StoredBy
  <2>2. {"settings"} \subseteq Refreshed
    BY DEF Refreshed
  <2>3. {"company", "settings", "timeOffTypes"}
        \subseteq {"settings"} \cup {"company", "timeOffTypes"}
    OBVIOUS
  <2> QED
    BY <1>1, <2>1, <2>2, <2>3, SavesTell
<1>3. Tells(Submit({"setTimeOffType"}, {"jobs"}, {"timeOffTypes"}),
            (CompanyLayout \cup {"settings"}) \cup {"timeOffTypes"})
  <2>1. LeftAlone({"setTimeOffType"}, {"company", "settings"})
    BY KnownCalls, Changers DEF LeftAlone, AdminCalls, StoredBy
  <2>2. {"jobs"} \cup {"timeOffTypes"} \subseteq Refreshed
    BY DEF Refreshed
  <2>3. {"company", "settings", "timeOffTypes"}
        \subseteq {"jobs"} \cup {"timeOffTypes"} \cup {"company", "settings"}
    OBVIOUS
  <2> QED
    BY <1>1, <2>1, <2>2, <2>3, SubmitTells
<1> QED
  BY <1>2, <1>3, TellingModal DEF TimeOffSettings, CompanySettingsPage

LEMMA AISettingsTelling == Telling(AISettings)
<1>1. ((CompanyLayout \cup {"settings"}) \cup {"aiSettings"}) \cap Refreshed
      \subseteq {"company", "settings", "aiSettings"}
  BY DEF CompanyLayout, App, TopBar, Refreshed
<1>2. \A call \in {"updateAISettings"} :
        Tells(Save(call, {"aiSettings"}), (CompanyLayout \cup {"settings"}) \cup {"aiSettings"})
  <2>1. LeftAlone({"updateAISettings"}, {"company", "settings"})
    BY KnownCalls, Changers DEF LeftAlone, AdminCalls, StoredBy
  <2>2. {"aiSettings"} \subseteq Refreshed
    BY DEF Refreshed
  <2>3. {"company", "settings", "aiSettings"} \subseteq {"aiSettings"} \cup {"company",
        "settings"}
    OBVIOUS
  <2> QED
    BY <1>1, <2>1, <2>2, <2>3, SavesTell
<1> QED
  BY <1>2, TellingModal DEF AISettings, CompanySettingsPage, AISaved

LEMMA MyPunchPageTelling == Telling(MyPunchPage)
<1>1. (App \cup TopBar \cup {"myCurrentPunch", "myOpenShifts"}) \cap Refreshed
      \subseteq {"myCurrentPunch", "myOpenShifts"}
  BY DEF App, TopBar, Refreshed
<1>2. \A call \in {"clockIn", "clockOut", "breakIn", "breakOut"} :
        Tells(Save(call, {"myCurrentPunch", "myOpenShifts"}), App \cup TopBar
          \cup {"myCurrentPunch", "myOpenShifts"})
  <2>1. LeftAlone({"clockIn", "clockOut", "breakIn", "breakOut"}, {})
    BY KnownCalls, Changers DEF LeftAlone, EveryonesCalls
  <2>2. {"myCurrentPunch", "myOpenShifts"} \subseteq Refreshed
    BY DEF Refreshed
  <2>3. {"myCurrentPunch", "myOpenShifts"} \subseteq {"myCurrentPunch", "myOpenShifts"} \cup {}
    OBVIOUS
  <2> QED
    BY <1>1, <2>1, <2>2, <2>3, SavesTell
<1> QED
  BY <1>2, TellingScreen DEF MyPunchPage

LEMMA MyTimesheetPageTelling == Telling(MyTimesheetPage)
<1>1. (App \cup TopBar \cup {"myTimesheet", "jobs"}) \cap Refreshed
      \subseteq {"myTimesheet", "jobs"}
  BY DEF App, TopBar, Refreshed
<1>2. \A call \in {"applyCorrection"} :
        Tells(Save(call, {"myTimesheet"}), App \cup TopBar \cup {"myTimesheet", "jobs"})
  <2>1. LeftAlone({"applyCorrection"}, {"jobs"})
    BY KnownCalls, Changers DEF LeftAlone, EveryonesCalls, StoredBy
  <2>2. {"myTimesheet"} \subseteq Refreshed
    BY DEF Refreshed
  <2>3. {"myTimesheet", "jobs"} \subseteq {"myTimesheet"} \cup {"jobs"}
    OBVIOUS
  <2> QED
    BY <1>1, <2>1, <2>2, <2>3, SavesTell
<1> QED
  BY <1>2, TellingScreen DEF MyTimesheetPage, NLCorrectionWidget

LEMMA AddTimeModalTelling == Telling(AddTimeModal)
<1>1. ((App \cup TopBar \cup {"myTimesheet", "jobs"}) \cup {}) \cap Refreshed
      \subseteq {"myTimesheet", "jobs"}
  BY DEF App, TopBar, Refreshed
<1>2. \A call \in {"addOwnEntry"} :
        Tells(Save(call, {"myTimesheet"}), (App \cup TopBar \cup {"myTimesheet", "jobs"})
          \cup {})
  <2>1. LeftAlone({"addOwnEntry"}, {"jobs"})
    BY KnownCalls, Changers DEF LeftAlone, EveryonesCalls, StoredBy
  <2>2. {"myTimesheet"} \subseteq Refreshed
    BY DEF Refreshed
  <2>3. {"myTimesheet", "jobs"} \subseteq {"myTimesheet"} \cup {"jobs"}
    OBVIOUS
  <2> QED
    BY <1>1, <2>1, <2>2, <2>3, SavesTell
<1> QED
  BY <1>2, TellingModal DEF AddTimeModal, MyTimesheetPage

LEMMA TimeOffModalTelling == Telling(TimeOffModal)
<1>1. ((App \cup TopBar \cup {"myTimesheet", "jobs"}) \cup {}) \cap Refreshed
      \subseteq {"myTimesheet", "jobs"}
  BY DEF App, TopBar, Refreshed
<1>2. \A call \in {"createManual"} :
        Tells(Save(call, {"myTimesheet"}), (App \cup TopBar \cup {"myTimesheet", "jobs"})
          \cup {})
  <2>1. LeftAlone({"createManual"}, {"jobs"})
    BY KnownCalls, Changers DEF LeftAlone, EveryonesCalls, StoredBy
  <2>2. {"myTimesheet"} \subseteq Refreshed
    BY DEF Refreshed
  <2>3. {"myTimesheet", "jobs"} \subseteq {"myTimesheet"} \cup {"jobs"}
    OBVIOUS
  <2> QED
    BY <1>1, <2>1, <2>2, <2>3, SavesTell
<1> QED
  BY <1>2, TellingModal DEF TimeOffModal, MyTimesheetPage

LEMMA CorrectionRequestModalTelling == Telling(CorrectionRequestModal)
<1>1. ((App \cup TopBar \cup {"myTimesheet", "jobs"}) \cup {}) \cap Refreshed
      \subseteq {"myTimesheet", "jobs"}
  BY DEF App, TopBar, Refreshed
<1>2. \A call \in {"createCorrection"} :
        Tells(Save(call, {"myTimesheet"}), (App \cup TopBar \cup {"myTimesheet", "jobs"})
          \cup {})
  <2>1. LeftAlone({"createCorrection"}, {"jobs"})
    BY KnownCalls, Changers DEF LeftAlone, EveryonesCalls, StoredBy
  <2>2. {"myTimesheet"} \subseteq Refreshed
    BY DEF Refreshed
  <2>3. {"myTimesheet", "jobs"} \subseteq {"myTimesheet"} \cup {"jobs"}
    OBVIOUS
  <2> QED
    BY <1>1, <2>1, <2>2, <2>3, SavesTell
<1> QED
  BY <1>2, TellingModal DEF CorrectionRequestModal, MyTimesheetPage

LEMMA NotificationPreferencesPageTelling == Telling(NotificationPreferencesPage)
<1>1. (App \cup TopBar \cup {"prefs"}) \cap Refreshed \subseteq {"prefs"}
  BY DEF App, TopBar, Refreshed
<1>2. \A call \in {"updatePreferences"} :
        Tells(Save(call, {"prefs"}), App \cup TopBar \cup {"prefs"})
  <2>1. LeftAlone({"updatePreferences"}, {})
    BY KnownCalls, Changers DEF LeftAlone, EveryonesCalls
  <2>2. {"prefs"} \subseteq Refreshed
    BY DEF Refreshed
  <2>3. {"prefs"} \subseteq {"prefs"} \cup {}
    OBVIOUS
  <2> QED
    BY <1>1, <2>1, <2>2, <2>3, SavesTell
<1> QED
  BY <1>2, TellingScreen DEF NotificationPreferencesPage

LEMMA PhoneVerificationCardTelling == Telling(PhoneVerificationCard)
<1>1. ((App \cup TopBar \cup {"prefs"}) \cup {}) \cap Refreshed \subseteq {"prefs"}
  BY DEF App, TopBar, Refreshed
<1>2. \A call \in {"requestPhoneVerification"} :
        Tells(Save(call, {}), (App \cup TopBar \cup {"prefs"}) \cup {})
  <2>1. LeftAlone({"requestPhoneVerification"}, {"prefs"})
    BY KnownCalls, Changers DEF LeftAlone, EveryonesCalls, StoredBy
  <2>2. {} \subseteq Refreshed
    BY DEF Refreshed
  <2>3. {"prefs"} \subseteq {} \cup {"prefs"}
    OBVIOUS
  <2> QED
    BY <1>1, <2>1, <2>2, <2>3, SavesTell
<1>3. \A call \in {"confirmPhoneVerification"} :
        Tells(Save(call, {"prefs"}), (App \cup TopBar \cup {"prefs"}) \cup {})
  <2>1. LeftAlone({"confirmPhoneVerification"}, {})
    BY KnownCalls, Changers DEF LeftAlone, EveryonesCalls
  <2>2. {"prefs"} \subseteq Refreshed
    BY DEF Refreshed
  <2>3. {"prefs"} \subseteq {"prefs"} \cup {}
    OBVIOUS
  <2> QED
    BY <1>1, <2>1, <2>2, <2>3, SavesTell
<1> QED
  BY <1>2, <1>3, TellingModal DEF PhoneVerificationCard, NotificationPreferencesPage

LEMMA PreferencesPageTelling == Telling(PreferencesPage)
<1>1. (App \cup TopBar \cup {"mePrefs", "userPhone"}) \cap Refreshed
      \subseteq {"mePrefs", "userPhone"}
  BY DEF App, TopBar, Refreshed
<1>2. Tells(Submit({"updateUserPrefs"}, {"weeklyGrid", "multiGrid"}, {"mePrefs"}),
            App \cup TopBar \cup {"mePrefs", "userPhone"})
  <2>1. LeftAlone({"updateUserPrefs"}, {"userPhone"})
    BY KnownCalls, Changers DEF LeftAlone, EveryonesCalls, StoredBy
  <2>2. {"weeklyGrid", "multiGrid"} \cup {"mePrefs"} \subseteq Refreshed
    BY DEF Refreshed
  <2>3. {"mePrefs", "userPhone"} \subseteq {"weeklyGrid", "multiGrid"} \cup {"mePrefs"}
        \cup {"userPhone"}
    OBVIOUS
  <2> QED
    BY <1>1, <2>1, <2>2, <2>3, SubmitTells
<1> QED
  BY <1>2, TellingScreen DEF PreferencesPage

LEMMA PhoneNotificationsCardTelling == Telling(PhoneNotificationsCard)
<1>1. ((App \cup TopBar \cup {"mePrefs", "userPhone"}) \cup {}) \cap Refreshed
      \subseteq {"mePrefs", "userPhone"}
  BY DEF App, TopBar, Refreshed
<1>2. \A call \in {"setUserPhone", "requestCode", "confirmCode"} :
        Tells(Save(call, {"userPhone"}), (App \cup TopBar \cup {"mePrefs", "userPhone"})
          \cup {})
  <2>1. LeftAlone({"setUserPhone", "requestCode", "confirmCode"}, {"mePrefs"})
    BY KnownCalls, Changers DEF LeftAlone, EveryonesCalls, StoredBy
  <2>2. {"userPhone"} \subseteq Refreshed
    BY DEF Refreshed
  <2>3. {"mePrefs", "userPhone"} \subseteq {"userPhone"} \cup {"mePrefs"}
    OBVIOUS
  <2> QED
    BY <1>1, <2>1, <2>2, <2>3, SavesTell
<1> QED
  BY <1>2, TellingModal DEF PhoneNotificationsCard, PreferencesPage

LEMMA UpdateCardTelling == Telling(UpdateCard)
<1>1. ((App \cup TopBar \cup {"adminHealth"}) \cup {"adminUpdateStatus"}) \cap Refreshed
      \subseteq {"adminUpdateStatus"}
  BY DEF App, TopBar, Refreshed
<1>2. \A call \in {"updateRun"} :
        Tells(Save(call, {"adminUpdateStatus"}), (App \cup TopBar \cup {"adminHealth"})
          \cup {"adminUpdateStatus"})
  <2>1. LeftAlone({"updateRun"}, {})
    BY KnownCalls, Changers DEF LeftAlone, SuperAdminCalls
  <2>2. {"adminUpdateStatus"} \subseteq Refreshed
    BY DEF Refreshed
  <2>3. {"adminUpdateStatus"} \subseteq {"adminUpdateStatus"} \cup {}
    OBVIOUS
  <2> QED
    BY <1>1, <2>1, <2>2, <2>3, SavesTell
<1> QED
  BY <1>2, TellingModal DEF UpdateCard, ApplianceHealthPage

LEMMA ApplianceSettingsPageTelling == Telling(ApplianceSettingsPage)
<1>1. (App \cup TopBar \cup {"adminSettings"}) \cap Refreshed \subseteq {"adminSettings"}
  BY DEF App, TopBar, Refreshed
<1>2. Tells(Submit({"updateAppliance"}, {}, {"adminSettings"}),
            App \cup TopBar \cup {"adminSettings"})
  <2>1. LeftAlone({"updateAppliance"}, {})
    BY KnownCalls, Changers DEF LeftAlone, SuperAdminCalls
  <2>2. {} \cup {"adminSettings"} \subseteq Refreshed
    BY DEF Refreshed
  <2>3. {"adminSettings"} \subseteq {} \cup {"adminSettings"} \cup {}
    OBVIOUS
  <2> QED
    BY <1>1, <2>1, <2>2, <2>3, SubmitTells
<1>3. \A call \in {"seedDemo"} :
        Tells(Save(call, {}), App \cup TopBar \cup {"adminSettings"})
  <2>1. LeftAlone({"seedDemo"}, {"adminSettings"})
    BY KnownCalls, Changers DEF LeftAlone, SuperAdminCalls, StoredBy
  <2>2. {} \subseteq Refreshed
    BY DEF Refreshed
  <2>3. {"adminSettings"} \subseteq {} \cup {"adminSettings"}
    OBVIOUS
  <2> QED
    BY <1>1, <2>1, <2>2, <2>3, SavesTell
<1> QED
  BY <1>2, <1>3, TellingScreen DEF ApplianceSettingsPage, Renamed

LEMMA TunnelSectionTelling == Telling(TunnelSection)
<1>1. ((App \cup TopBar \cup {"adminSettings"}) \cup {"adminTunnel"}) \cap Refreshed
      \subseteq {"adminSettings", "adminTunnel"}
  BY DEF App, TopBar, Refreshed
<1>2. Tells(Submit({"updateTunnel"}, {}, {"adminTunnel"}),
            (App \cup TopBar \cup {"adminSettings"}) \cup {"adminTunnel"})
  <2>1. LeftAlone({"updateTunnel"}, {"adminSettings"})
    BY KnownCalls, Changers DEF LeftAlone, SuperAdminCalls, StoredBy
  <2>2. {} \cup {"adminTunnel"} \subseteq Refreshed
    BY DEF Refreshed
  <2>3. {"adminSettings", "adminTunnel"} \subseteq {} \cup {"adminTunnel"}
        \cup {"adminSettings"}
    OBVIOUS
  <2> QED
    BY <1>1, <2>1, <2>2, <2>3, SubmitTells
<1> QED
  BY <1>2, TellingModal DEF TunnelSection, ApplianceSettingsPage

LEMMA AllUsersPageTelling == Telling(AllUsersPage)
<1>1. (App \cup TopBar \cup {"adminUsers"}) \cap Refreshed \subseteq {"adminUsers"}
  BY DEF App, TopBar, Refreshed
<1>2. \A call \in {"sendUserLink"} :
        Tells(Save(call, {}), App \cup TopBar \cup {"adminUsers"})
  <2>1. LeftAlone({"sendUserLink"}, {"adminUsers"})
    BY KnownCalls, Changers DEF LeftAlone, SuperAdminCalls, StoredBy
  <2>2. {} \subseteq Refreshed
    BY DEF Refreshed
  <2>3. {"adminUsers"} \subseteq {} \cup {"adminUsers"}
    OBVIOUS
  <2> QED
    BY <1>1, <2>1, <2>2, <2>3, SavesTell
<1> QED
  BY <1>2, TellingScreen DEF AllUsersPage

LEMMA MembershipsDrawerTelling == Telling(MembershipsDrawer)
<1>1. ((App \cup TopBar \cup {"adminUsers"}) \cup {}) \cap Refreshed \subseteq {"adminUsers"}
  BY DEF App, TopBar, Refreshed
<1>2. \A call \in {"setMemberships"} :
        Tells(Save(call, {"adminUsers"}), (App \cup TopBar \cup {"adminUsers"}) \cup {})
  <2>1. LeftAlone({"setMemberships"}, {})
    BY KnownCalls, Changers DEF LeftAlone, SuperAdminCalls
  <2>2. {"adminUsers"} \subseteq Refreshed
    BY DEF Refreshed
  <2>3. {"adminUsers"} \subseteq {"adminUsers"} \cup {}
    OBVIOUS
  <2> QED
    BY <1>1, <2>1, <2>2, <2>3, SavesTell
<1> QED
  BY <1>2, TellingModal DEF MembershipsDrawer, AllUsersPage

LEMMA AccessGroupsPageTelling == Telling(AccessGroupsPage)
<1>1. (App \cup TopBar \cup {"accessGroups", "adminUsers"}) \cap Refreshed
      \subseteq {"accessGroups", "adminUsers"}
  BY DEF App, TopBar, Refreshed
<1>2. \A call \in {"createGroup"} :
        Tells(Save(call, {"accessGroups"}), App \cup TopBar \cup {"accessGroups", "adminUsers"})
  <2>1. LeftAlone({"createGroup"}, {"adminUsers"})
    BY KnownCalls, Changers DEF LeftAlone, SuperAdminCalls, StoredBy
  <2>2. {"accessGroups"} \subseteq Refreshed
    BY DEF Refreshed
  <2>3. {"accessGroups", "adminUsers"} \subseteq {"accessGroups"} \cup {"adminUsers"}
    OBVIOUS
  <2> QED
    BY <1>1, <2>1, <2>2, <2>3, SavesTell
<1> QED
  BY <1>2, TellingScreen DEF AccessGroupsPage

LEMMA GroupDrawerTelling == Telling(GroupDrawer)
<1>1. ((App \cup TopBar \cup {"accessGroups", "adminUsers"}) \cup {}) \cap Refreshed
      \subseteq {"accessGroups", "adminUsers"}
  BY DEF App, TopBar, Refreshed
<1>2. Tells(Submit({"updateGroup", "setGroupMembers", "setGroupCompanies"},
      {"accessGroups", "adminUsers"}, {}),
            (App \cup TopBar \cup {"accessGroups", "adminUsers"}) \cup {})
  <2>1. LeftAlone({"updateGroup", "setGroupMembers", "setGroupCompanies"}, {})
    BY KnownCalls, Changers DEF LeftAlone, SuperAdminCalls
  <2>2. {"accessGroups", "adminUsers"} \cup {} \subseteq Refreshed
    BY DEF Refreshed
  <2>3. {"accessGroups", "adminUsers"} \subseteq {"accessGroups", "adminUsers"} \cup {} \cup {}
    OBVIOUS
  <2> QED
    BY <1>1, <2>1, <2>2, <2>3, SubmitTells
<1>3. Tells(Submit({"deleteGroup"}, {"accessGroups", "adminUsers"}, {}),
            (App \cup TopBar \cup {"accessGroups", "adminUsers"}) \cup {})
  <2>1. LeftAlone({"deleteGroup"}, {})
    BY KnownCalls, Changers DEF LeftAlone, SuperAdminCalls
  <2>2. {"accessGroups", "adminUsers"} \cup {} \subseteq Refreshed
    BY DEF Refreshed
  <2>3. {"accessGroups", "adminUsers"} \subseteq {"accessGroups", "adminUsers"} \cup {} \cup {}
    OBVIOUS
  <2> QED
    BY <1>1, <2>1, <2>2, <2>3, SubmitTells
<1> QED
  BY <1>2, <1>3, TellingModal DEF GroupDrawer, AccessGroupsPage

(* A change that the screen is known not to be told of, in one query. *)
LEMMA UntoldTells ==
  ASSUME NEW calls, NEW q, <<Submit(calls, {}, {}), q>> \in MissingRefresh,
         NEW shows, NEW others, LeftAlone(calls, others),
         shows \cap Refreshed \subseteq {q} \cup others
  PROVE  Tells(Submit(calls, {}, {}), shows)
<1>1. PICK change : change = Submit(calls, {}, {})
  OBVIOUS
<1>2. change.calls = calls /\ change.refreshes = {} /\ change.adopts = {}
  BY <1>1 DEF Submit
<1>3. \A other \in others : LeftAlone(calls, {other})
  BY DEF LeftAlone
<1>4. Tells(change, shows)
  BY <1>1, <1>2, <1>3 DEF Tells
<1> QED
  BY <1>1, <1>4

LEMMA CreateEmployeeModalTelling == Telling(CreateEmployeeModal)
<1>1. ((CompanyLayout \cup Roster) \cup {}) \cap Refreshed
        \subseteq {"company", "employees", "badgeStates"}
  BY DEF CompanyLayout, App, TopBar, Roster, Refreshed
<1>2. LeftAlone({"createEmployee", "createLogin"}, {"company", "badgeStates"})
      /\ LeftAlone({"createEmployee"}, {"company"})
  BY KnownCalls, Changers DEF LeftAlone, AdminCalls, StoredBy
<1>3. Roster \subseteq Refreshed /\ Roster = {"employees", "badgeStates"}
  BY DEF Roster, Refreshed
<1>4. \A call \in {"createEmployee"} :
        Tells(Save(call, Roster), (CompanyLayout \cup Roster) \cup {})
  BY <1>1, <1>2, <1>3, SavesTell
<1>5. Tells(Submit({"createEmployee", "createLogin"}, Roster, {}),
            (CompanyLayout \cup Roster) \cup {})
  BY <1>1, <1>2, <1>3, SubmitTells
<1>6. <<Submit({"createEmployee", "createLogin"}, {}, {}), "employees">> \in MissingRefresh
  BY DEF MissingRefresh, Undelivered
<1>7. Tells(Submit({"createEmployee", "createLogin"}, {}, {}),
            (CompanyLayout \cup Roster) \cup {})
  BY <1>1, <1>2, <1>6, UntoldTells
<1> QED
  BY <1>4, <1>5, <1>7, TellingModal DEF CreateEmployeeModal, EmployeesPage, Undelivered

LEMMA ImportCsvModalTelling == Telling(ImportCsvModal)
<1>1. ((CompanyLayout \cup Roster) \cup {}) \cap Refreshed
        \subseteq {"company", "employees", "badgeStates"}
  BY DEF CompanyLayout, App, TopBar, Roster, Refreshed
<1>2. LeftAlone({"importEmployees"}, {"company", "badgeStates"}) /\ LeftAlone({}, {"company"})
  BY KnownCalls, Changers DEF LeftAlone, AdminCalls, StoredBy
<1>3. Roster \subseteq Refreshed /\ Roster = {"employees", "badgeStates"}
  BY DEF Roster, Refreshed
<1>4. Tells(Submit({}, Roster, {}), (CompanyLayout \cup Roster) \cup {})
  BY <1>1, <1>2, <1>3, SubmitTells
<1>5. <<Submit({"importEmployees"}, {}, {}), "employees">> \in MissingRefresh
  BY DEF MissingRefresh, Imported, Save
<1>6. Tells(Submit({"importEmployees"}, {}, {}), (CompanyLayout \cup Roster) \cup {})
  BY <1>1, <1>2, <1>5, UntoldTells
<1> QED
  BY <1>4, <1>6, TellingModal DEF ImportCsvModal, EmployeesPage, Imported, Save

LEMMA InviteModalTelling == Telling(InviteModal)
<1>1. ((CompanyLayout \cup {"memberships"}) \cup {}) \cap Refreshed
        \subseteq {"company", "memberships"}
  BY DEF CompanyLayout, App, TopBar, Refreshed
<1>2. LeftAlone({"invite", "sendMemberLink"}, {"company"}) /\ LeftAlone({"invite"}, {"company"})
  BY KnownCalls, Changers DEF LeftAlone, AdminCalls, StoredBy
<1>3. {"memberships"} \subseteq Refreshed
  BY DEF Refreshed
<1>4. \A call \in {"invite"} :
        Tells(Save(call, {"memberships"}), (CompanyLayout \cup {"memberships"}) \cup {})
  BY <1>1, <1>2, <1>3, SavesTell
<1>5. Tells(Submit({"invite", "sendMemberLink"}, {"memberships"}, {}),
            (CompanyLayout \cup {"memberships"}) \cup {})
  BY <1>1, <1>2, <1>3, SubmitTells
<1>6. <<Submit({"invite", "sendMemberLink"}, {}, {}), "memberships">> \in MissingRefresh
  BY DEF MissingRefresh, InviteNotSent
<1>7. Tells(Submit({"invite", "sendMemberLink"}, {}, {}),
            (CompanyLayout \cup {"memberships"}) \cup {})
  BY <1>1, <1>2, <1>6, UntoldTells
<1> QED
  BY <1>4, <1>5, <1>7, TellingModal DEF InviteModal, TeamPage, InviteNotSent

(* Whoever looks at it, the grid of one employee offers some of these. *)
LEMMA WeeklyGridTelling ==
  ASSUME NEW who PROVE Telling(WeeklyGridPage(who))
<1>1. PICK more : more = (IF who = {"employee"} THEN {} ELSE {"roster", "jobs"})
  OBVIOUS
<1>2. PICK edits : edits = (IF who \subseteq Admins THEN {"editEntry", "deleteEntry"}
                            ELSE IF who = {"employee"} THEN {"createCorrection"}
                            ELSE {"editEntry"})
  OBVIOUS
<1>3. WeeklyGridPage(who) =
        Screen("week", who, CompanyLayout \cup {"weeklyGrid", "mePrefs"} \cup more,
               {Save("updateUserPrefs", {"mePrefs", "weeklyGrid"})}
                 \cup {Save(call, {"weeklyGrid"}) :
                         call \in {"createManual", "updateManual", "removeManual",
                                   "copyLastWeek", "approve"} \cup edits})
  BY <1>1, <1>2 DEF WeeklyGridPage
<1>4. (CompanyLayout \cup {"weeklyGrid", "mePrefs"} \cup more) \cap Refreshed
        \subseteq {"company", "weeklyGrid", "mePrefs", "jobs"}
  BY <1>1 DEF CompanyLayout, App, TopBar, Refreshed
<1>5. LeftAlone({"updateUserPrefs"}, {"company", "jobs"})
  BY KnownCalls, Changers DEF LeftAlone, EveryonesCalls, StoredBy
<1>6. LeftAlone({"createManual", "updateManual", "removeManual", "copyLastWeek", "approve"}
                  \cup {"editEntry", "deleteEntry", "createCorrection"},
                {"company", "mePrefs", "jobs"})
  BY KnownCalls, Changers DEF LeftAlone, AdminCalls, ManagerCalls, EveryonesCalls, StoredBy
<1>7. LeftAlone({"createManual", "updateManual", "removeManual", "copyLastWeek", "approve"}
                  \cup edits, {"company", "mePrefs", "jobs"})
  BY <1>2, <1>6 DEF LeftAlone
<1>8. {"mePrefs", "weeklyGrid"} \subseteq Refreshed /\ {"weeklyGrid"} \subseteq Refreshed
  BY DEF Refreshed
<1>9. \A call \in {"updateUserPrefs"} :
        Tells(Save(call, {"mePrefs", "weeklyGrid"}),
              CompanyLayout \cup {"weeklyGrid", "mePrefs"} \cup more)
  BY <1>4, <1>5, <1>8, SavesTell
<1>10. \A call \in {"createManual", "updateManual", "removeManual", "copyLastWeek", "approve"}
                     \cup edits :
         Tells(Save(call, {"weeklyGrid"}), CompanyLayout \cup {"weeklyGrid", "mePrefs"}
           \cup more)
  BY <1>4, <1>7, <1>8, SavesTell
<1> QED
  BY <1>3, <1>9, <1>10, TellingScreen

LEMMA NothingToTell ==
  /\ Telling(DashboardPage) /\ Telling(WeeklyTimesheetPrintPage) /\ Telling(CorrectionsPage)
  /\ Telling(ReportsPage) /\ Telling(PayrollExportsPage) /\ Telling(NotificationsLogPage)
  /\ Telling(ApplianceHealthPage) /\ Telling(EntryAuditDrawer)
<1>1. /\ Telling(DashboardPage) /\ Telling(WeeklyTimesheetPrintPage) /\ Telling(CorrectionsPage)
      /\ Telling(ReportsPage) /\ Telling(PayrollExportsPage) /\ Telling(NotificationsLogPage)
      /\ Telling(ApplianceHealthPage)
  BY TellingScreen
  DEF DashboardPage, WeeklyTimesheetPrintPage, CorrectionsPage, ReportsPage,
      PayrollExportsPage, NotificationsLogPage, ApplianceHealthPage
<1>2. Telling(EntryAuditDrawer)
  BY TellingModal DEF EntryAuditDrawer, TimesheetsReviewPage
<1> QED
  BY <1>1, <1>2

AllScreens ==
  {DashboardPage, CompaniesListPage, EmployeesPage, CreateEmployeeModal,
   ImportCsvModal, EmployeeDetailDrawer, JobsPage, JobEditorModal,
   MultiEmployeeGridPage, WeeklyTimesheetPrintPage, TimesheetsReviewPage,
   MissingTimeRemindersModal, EntryAuditDrawer, CorrectionsPage, DecideModal,
   ReportsPage, PayrollExportsPage, RunExportModal, TeamPage, InviteModal,
   KiosksPage, NotificationsLogPage, CompanySettingsPage, TimeOffSettings,
   AISettings, MyPunchPage, MyTimesheetPage, AddTimeModal, TimeOffModal,
   CorrectionRequestModal, NotificationPreferencesPage, PhoneVerificationCard,
   PreferencesPage, PhoneNotificationsCard, ApplianceHealthPage, UpdateCard,
   ApplianceSettingsPage, TunnelSection, AllUsersPage, MembershipsDrawer,
   AccessGroupsPage, GroupDrawer, WeeklyGridPage(Admins),
   WeeklyGridPage({"supervisor"}), WeeklyGridPage({"employee"})}

LEMMA ScreensAre == \A s \in DOMAIN Screens : Screens[s] \in AllScreens
BY DEF Screens, AllScreens

LEMMA EveryScreenTelling == \A s \in DOMAIN Screens : Telling(Screens[s])
<1>1. \A s \in AllScreens : Telling(s)
  BY NothingToTell, CompaniesListPageTelling, EmployeesPageTelling,
     CreateEmployeeModalTelling, ImportCsvModalTelling, EmployeeDetailDrawerTelling,
     JobsPageTelling, JobEditorModalTelling, MultiEmployeeGridPageTelling,
     TimesheetsReviewPageTelling, MissingTimeRemindersModalTelling, DecideModalTelling,
     RunExportModalTelling, TeamPageTelling, InviteModalTelling, KiosksPageTelling,
     CompanySettingsPageTelling, TimeOffSettingsTelling, AISettingsTelling,
     MyPunchPageTelling, MyTimesheetPageTelling, AddTimeModalTelling, TimeOffModalTelling,
     CorrectionRequestModalTelling, NotificationPreferencesPageTelling,
     PhoneVerificationCardTelling, PreferencesPageTelling, PhoneNotificationsCardTelling,
     UpdateCardTelling, ApplianceSettingsPageTelling, TunnelSectionTelling,
     AllUsersPageTelling, MembershipsDrawerTelling, AccessGroupsPageTelling,
     GroupDrawerTelling, WeeklyGridTelling
  DEF AllScreens
<1> QED
  BY <1>1, ScreensAre

LEMMA FollowedIsRefreshed == Followed \subseteq Refreshed /\ Refreshed \subseteq Queries
<1>1. Followed \subseteq Refreshed
  <2> SUFFICES ASSUME NEW q \in Followed PROVE q \in Refreshed
    OBVIOUS
  <2>1. PICK s \in DOMAIN Screens : \E change \in Screens[s].changes :
          q \in change.refreshes \cup change.adopts
    BY DEF Followed
  <2> QED
    BY <2>1, EveryScreenTelling DEF Telling, Tells
<1>2. Refreshed \subseteq Queries
  BY KnownReads DEF Refreshed, SuperAdminReads, AdminReads, ManagerReads, EveryonesReads
<1> QED
  BY <1>1, <1>2

(* What the tables say as a whole: a change that a query owes to the screen, on
   any screen and by any role, refreshes the query or is its data. *)
LEMMA ScreenTables ==
  /\ "PreferencesPage" \in DOMAIN Screens /\ Followed \subseteq Queries
  /\ \A s \in DOMAIN Screens, r \in Everyone, q \in Followed :
       \A does \in Effects[s][r][q] : does.owes => does.refreshes \/ does.adopts
<1>1. "PreferencesPage" \in DOMAIN Screens
  BY DEF Screens
<1>2. ASSUME NEW s \in DOMAIN Screens, NEW r \in Everyone, NEW q \in Followed,
             NEW does \in Effects[s][r][q], does.owes
      PROVE  does.refreshes \/ does.adopts
  <2>1. q \in Queries /\ q \in Refreshed
    BY FollowedIsRefreshed
  <2>2. PICK change \in Screens[s].changes :
          does = EffectOn(s, change, q) /\ Touches(s, change, q)
    BY <2>1 DEF Effects
  <2>3. PICK alters : alters = Alters(change, q)
    OBVIOUS
  <2>4. PICK told : told = (q \in change.refreshes)
    OBVIOUS
  <2>5. PICK given : given = (q \in change.adopts)
    OBVIOUS
  <2>6. PICK debt : debt = (Alters(change, q) /\ <<change, q>> \notin MissingRefresh)
    OBVIOUS
  <2>7. does.owes = debt /\ does.refreshes = told /\ does.adopts = given
    BY <2>2, <2>4, <2>5, <2>6 DEF EffectOn
  <2>8. Alters(change, q) /\ <<change, q>> \notin MissingRefresh
    BY <1>2, <2>6, <2>7
  <2>9. ~LeftAlone(change.calls, {q})
    BY <2>8 DEF LeftAlone, Alters, Changes
  <2>10. q \in change.refreshes \cup change.adopts
    BY <2>1, <2>2, <2>8, <2>9, EveryScreenTelling DEF Touches, Telling, Tells
  <2> QED
    BY <2>4, <2>5, <2>7, <2>10
<1> QED
  BY <1>1, <1>2, FollowedIsRefreshed

-----------------------------------------------------------------------------
(* What the screens show *)

Does == [alters : BOOLEAN, refreshes : BOOLEAN, adopts : BOOLEAN, owes : BOOLEAN]
Submission == [pc : {"unsent", "sent", "stored", "done"}, does : Does,
               here : BOOLEAN, aimed : BOOLEAN, got : SUBSET Edits]

ScreenTypes ==
  /\ role \in Everyone /\ query \in Followed /\ screen \in DOMAIN Screens
  /\ chosen \in BOOLEAN /\ loaded \in BOOLEAN /\ stale \in BOOLEAN /\ failed \in BOOLEAN
  /\ fetch \in [pc : {"idle", "asked", "read"}, got : SUBSET Edits]
  /\ submitted \in [Edits -> Submission]
  /\ kept \subseteq Edits /\ owed \subseteq kept

(* What the person is owed of a change, its answer brings about. *)
Told(does) == does.owes => does.alters /\ (does.refreshes \/ does.adopts)

(* A change that was stored is kept, and in the answer that carries data. *)
Carries(change, edit) ==
  /\ Told(change.does)
  /\ change.pc = "stored" /\ change.does.alters =>
       edit \in kept /\ (change.does.adopts => edit \in change.got)

AnswersTell == \A edit \in Edits : Carries(submitted[edit], edit)

(* The answer of a read brings what the screen has to show. *)
ReadBrings == fetch.pc = "read" => owed \subseteq fetch.got

(* Data without it is old, and if the screen shows them they are read again. *)
OldIsRead ==
  loaded /\ ~(owed \subseteq shown) => stale /\ (Active => fetch.pc # "idle" \/ failed)

ScreenInv == ScreenTypes /\ AnswersTell /\ ReadBrings /\ OldIsRead

(* What may be done on a screen tells of itself. *)
LEMMA EffectsTell ==
  ASSUME NEW s \in DOMAIN Screens, NEW r \in Everyone, NEW q \in Followed,
         NEW does \in Effects[s][r][q]
  PROVE  does \in Does /\ Told(does)
<1>1. q \in Queries /\ (does.owes => does.refreshes \/ does.adopts)
  BY ScreenTables
<1>2. PICK change : does = EffectOn(s, change, q)
  BY <1>1 DEF Effects
<1>3. PICK a : a = Alters(change, q) /\ a \in BOOLEAN
  BY DEF Alters
<1>4. PICK o : o = (Alters(change, q) /\ <<change, q>> \notin MissingRefresh) /\ o \in BOOLEAN
  OBVIOUS
<1>5. does = [alters |-> a, refreshes |-> q \in change.refreshes,
              adopts |-> q \in change.adopts, owes |-> o]
  BY <1>2, <1>3, <1>4 DEF EffectOn
<1>6. does \in Does
  BY <1>3, <1>4, <1>5 DEF Does
<1>7. does.owes => does.alters
  BY <1>3, <1>4, <1>5
<1> QED
  BY <1>1, <1>6, <1>7 DEF Told

(* A page that opens reads what is old. *)
LEMMA MountReads ==
  ASSUME ScreenInv, Mount, UNCHANGED <<loaded, shown, stale, failed, owed>>
  PROVE  OldIsRead' /\ ReadBrings' /\ fetch' \in [pc : {"idle", "asked", "read"}, got : SUBSET Edits]
<1>1. fetch' = Asked \/ fetch' = fetch
  BY DEF Mount
<1>2. ReadBrings' /\ fetch' \in [pc : {"idle", "asked", "read"}, got : SUBSET Edits]
  BY <1>1 DEF Asked, ScreenInv, ReadBrings, ScreenTypes
<1>3. OldIsRead'
  <2> SUFFICES ASSUME loaded, ~(owed \subseteq shown)
               PROVE  stale /\ (Active' => fetch'.pc # "idle" \/ failed)
    BY DEF OldIsRead
  <2>1. stale /\ (Active => fetch.pc # "idle" \/ failed)
    BY DEF ScreenInv, OldIsRead
  <2> QED
    BY <2>1 DEF Mount, Asked
<1> QED
  BY <1>2, <1>3

(* Where the person is changes, and not what was asked for. *)
SameChanges ==
  \A edit \in Edits :
    /\ submitted'[edit].pc = submitted[edit].pc /\ submitted'[edit].does = submitted[edit].does
    /\ submitted'[edit].got = submitted[edit].got

LEMMA OpenStep ==
  ASSUME ScreenInv, NEW next \in Relevant[query], Open(next)
  PROVE  ScreenInv'
<1>1. /\ screen' = next /\ chosen' \in IF query \in Selectable /\ ~SamePage(next) THEN BOOLEAN ELSE {chosen}
      /\ submitted' = [edit \in Edits |->
                       [submitted[edit] EXCEPT !.here = @ /\ SamePage(next)]]
      /\ UNCHANGED <<role, query, loaded, shown, stale, failed, kept, owed>> /\ Mount
  BY DEF Open
<1>2. screen' \in DOMAIN Screens
  BY <1>1, ScreenTables DEF ScreenInv, ScreenTypes, Relevant
<1>3. chosen' \in BOOLEAN
  BY <1>1 DEF ScreenInv, ScreenTypes
<1>4. submitted' \in [Edits -> Submission] /\ SameChanges
  <2> SUFFICES ASSUME NEW edit \in Edits
               PROVE  LET moved == [submitted[edit] EXCEPT !.here = @ /\ SamePage(next)]
                      IN  /\ moved \in Submission /\ moved.pc = submitted[edit].pc
                          /\ moved.does = submitted[edit].does /\ moved.got = submitted[edit].got
    BY <1>1 DEF SameChanges
  <2>1. submitted[edit] \in Submission
    BY DEF ScreenInv, ScreenTypes
  <2>2. PICK b : b = (submitted[edit].here /\ SamePage(next)) /\ b \in BOOLEAN
    OBVIOUS
  <2>3. [submitted[edit] EXCEPT !.here = @ /\ SamePage(next)] = [submitted[edit] EXCEPT !.here = b]
    BY <2>2
  <2> QED
    BY <2>1, <2>2, <2>3 DEF Submission
<1>6. AnswersTell'
  BY <1>1, <1>4 DEF ScreenInv, AnswersTell, Carries, SameChanges
<1>7. OldIsRead' /\ ReadBrings' /\ fetch' \in [pc : {"idle", "asked", "read"}, got : SUBSET Edits]
  BY <1>1, MountReads
<1> QED
  BY <1>1, <1>2, <1>3, <1>4, <1>6, <1>7 DEF ScreenInv, ScreenTypes

LEMMA SelectStep ==
  ASSUME ScreenInv, Select
  PROVE  ScreenInv'
<1>1. /\ chosen' = ~chosen
      /\ submitted' = [edit \in Edits |->
                       [submitted[edit] EXCEPT !.aimed = IF submitted[edit].here THEN chosen' ELSE @]]
      /\ UNCHANGED <<role, query, screen, loaded, shown, stale, failed, kept, owed>> /\ Mount
  BY DEF Select
<1>2. chosen' \in BOOLEAN
  BY <1>1 DEF ScreenInv, ScreenTypes
<1>3. submitted' \in [Edits -> Submission] /\ SameChanges
  <2> SUFFICES ASSUME NEW edit \in Edits, NEW b \in BOOLEAN
               PROVE  LET moved == [submitted[edit] EXCEPT !.aimed = b]
                      IN  /\ moved \in Submission /\ moved.pc = submitted[edit].pc
                          /\ moved.does = submitted[edit].does /\ moved.got = submitted[edit].got
    <3>1. \A edit \in Edits :
            (IF submitted[edit].here THEN chosen' ELSE submitted[edit].aimed) \in BOOLEAN
      BY <1>2 DEF ScreenInv, ScreenTypes, Submission
    <3> QED
      BY <1>1, <3>1 DEF SameChanges
  <2> QED
    BY DEF ScreenInv, ScreenTypes, Submission
<1>5. AnswersTell'
  BY <1>1, <1>3 DEF ScreenInv, AnswersTell, Carries, SameChanges
<1>6. OldIsRead' /\ ReadBrings' /\ fetch' \in [pc : {"idle", "asked", "read"}, got : SUBSET Edits]
  BY <1>1, MountReads
<1> QED
  BY <1>1, <1>2, <1>3, <1>5, <1>6 DEF ScreenInv, ScreenTypes

(* The cache stays as it is, and so does what the screen has to show. *)
LEMMA CacheStays ==
  ASSUME ScreenInv, UNCHANGED <<query, screen, chosen, loaded, shown, stale, fetch, failed, owed>>
  PROVE  ReadBrings' /\ OldIsRead'
BY DEF ScreenInv, ReadBrings, OldIsRead, Active

LEMMA SendChangeStep ==
  ASSUME ScreenInv, NEW edit \in Edits, NEW does \in Effects[screen][role][query],
         SendChange(edit, does)
  PROVE  ScreenInv'
<1>1. PICK sent : sent = [pc |-> "sent", does |-> does, got |-> {},
                          aimed |-> chosen \/ query \notin RefreshesSelection,
                          here |-> does.adopts \/ query \in RefreshesSelection]
  OBVIOUS
<1>2. /\ submitted' = [submitted EXCEPT ![edit] = sent]
      /\ UNCHANGED <<role, query, screen, chosen, loaded, shown, stale, fetch, failed, kept, owed>>
  BY <1>1 DEF SendChange
<1>3. does \in Does /\ Told(does)
  BY EffectsTell DEF ScreenInv, ScreenTypes
<1>4. sent \in Submission
  BY <1>1, <1>3 DEF Submission, ScreenInv, ScreenTypes, Does
<1>5. submitted' \in [Edits -> Submission]
  BY <1>2, <1>4 DEF ScreenInv, ScreenTypes
<1>6. AnswersTell'
  <2>1. sent.pc = "sent" /\ sent.does = does
    BY <1>1
  <2> QED
    BY <1>2, <1>3, <2>1 DEF ScreenInv, ScreenTypes, AnswersTell, Carries
<1>7. ScreenTypes'
  BY <1>2, <1>5 DEF ScreenInv, ScreenTypes
<1> QED
  BY <1>2, <1>6, <1>7, CacheStays DEF ScreenInv

(* The answer will carry what is stored by now, this change among it. *)
LEMMA StoreChangeStep ==
  ASSUME ScreenInv, NEW edit \in Edits, StoreChange(edit)
  PROVE  ScreenInv'
<1>1. PICK change : change = submitted[edit]
  OBVIOUS
<1>2. change \in Submission /\ Told(change.does)
  BY <1>1 DEF ScreenInv, ScreenTypes, AnswersTell, Carries
<1>3. PICK data : data = IF change.does.adopts THEN kept' ELSE {}
  OBVIOUS
<1>4. PICK next : next = [change EXCEPT !.pc = "stored", !.got = data]
  OBVIOUS
<1>5. /\ kept' = IF change.does.alters THEN kept \cup {edit} ELSE kept
      /\ submitted' = [submitted EXCEPT ![edit] = next]
      /\ UNCHANGED <<role, query, screen, chosen, loaded, shown, stale, fetch, failed, owed>>
  BY <1>1, <1>3, <1>4 DEF StoreChange, ScreenInv, ScreenTypes, Submission
<1>6. kept' \subseteq Edits /\ kept \subseteq kept' /\ owed \subseteq kept'
  BY <1>5 DEF ScreenInv, ScreenTypes
<1>7. /\ next \in Submission /\ next.does = change.does /\ next.got = data
  BY <1>2, <1>3, <1>4, <1>6 DEF Submission
<1>8. submitted' \in [Edits -> Submission]
  BY <1>5, <1>7 DEF ScreenInv, ScreenTypes
<1>9. AnswersTell'
  <2> SUFFICES ASSUME NEW e \in Edits
               PROVE  /\ Told(submitted'[e].does)
                      /\ submitted'[e].pc = "stored" /\ submitted'[e].does.alters =>
                           e \in kept' /\ (submitted'[e].does.adopts => e \in submitted'[e].got)
    BY DEF AnswersTell, Carries
  <2>1. CASE e = edit
    <3>1. submitted'[e] = next
      BY <1>5, <2>1 DEF ScreenInv, ScreenTypes
    <3>2. change.does.alters => edit \in kept'
      BY <1>5
    <3> QED
      BY <1>2, <1>3, <1>7, <2>1, <3>1, <3>2
  <2>2. CASE e # edit
    <3>1. submitted'[e] = submitted[e]
      BY <1>5, <2>2 DEF ScreenInv, ScreenTypes
    <3> QED
      BY <1>6, <3>1 DEF ScreenInv, AnswersTell, Carries
  <2> QED
    BY <2>1, <2>2
<1>10. ScreenTypes'
  BY <1>5, <1>6, <1>8 DEF ScreenInv, ScreenTypes
<1> QED
  BY <1>5, <1>9, <1>10, CacheStays DEF ScreenInv

(* What was not sent, or is over, owes nothing. *)
LEMMA Blanks ==
  /\ NoEffect \in Does /\ Told(NoEffect)
  /\ Unsent \in Submission /\ Unsent.does = NoEffect /\ Unsent.pc = "unsent"
  /\ Done \in Submission /\ Done.does = NoEffect /\ Done.pc = "done"
<1>1. NoEffect \in Does /\ ~NoEffect.owes
  BY DEF NoEffect, Does
<1>2. Unsent = [pc |-> "unsent", does |-> NoEffect, here |-> FALSE, aimed |-> FALSE, got |-> {}]
  BY DEF Unsent
<1>3. Unsent \in Submission /\ Unsent.does = NoEffect /\ Unsent.pc = "unsent"
  BY <1>1, <1>2 DEF Submission
<1>4. Done \in Submission /\ Done.does = NoEffect /\ Done.pc = "done"
  BY <1>3 DEF Done, Submission
<1> QED
  BY <1>1, <1>3, <1>4 DEF Told

(* A change that is done is nobody's any more. *)
LEMMA DoneTells ==
  ASSUME ScreenInv, NEW edit \in Edits, submitted' = [submitted EXCEPT ![edit] = Done],
         UNCHANGED kept
  PROVE  submitted' \in [Edits -> Submission] /\ AnswersTell'
<1>1. submitted' \in [Edits -> Submission]
  BY Blanks DEF ScreenInv, ScreenTypes
<1>2. AnswersTell'
  BY Blanks DEF ScreenInv, ScreenTypes, AnswersTell, Carries
<1> QED
  BY <1>1, <1>2

LEMMA LoseAnswerStep ==
  ASSUME ScreenInv, NEW edit \in Edits, LoseAnswer(edit)
  PROVE  ScreenInv'
<1>1. /\ submitted' = [submitted EXCEPT ![edit] = Done]
      /\ UNCHANGED <<role, query, screen, chosen, loaded, shown, stale, fetch, failed, kept, owed>>
  BY DEF LoseAnswer
<1>2. submitted' \in [Edits -> Submission] /\ AnswersTell'
  BY <1>1, DoneTells
<1>3. ScreenTypes'
  BY <1>1, <1>2 DEF ScreenInv, ScreenTypes
<1> QED
  BY <1>1, <1>2, <1>3, CacheStays DEF ScreenInv

(* The answer to a change: its data, another read, or neither. *)
LEMMA AnswerStep ==
  ASSUME ScreenInv, NEW edit \in Edits, Answer(edit)
  PROVE  ScreenInv'
<1>1. PICK change : change = submitted[edit]
  OBVIOUS
<1>2. PICK more : more = IF change.does.owes /\ change.aimed /\ ~Overtaken(change.does)
                         THEN {edit} ELSE {}
  OBVIOUS
<1>3. /\ change.pc = "stored"
      /\ IF change.does.adopts THEN Adopt(change.got)
         ELSE IF change.does.refreshes /\ change.aimed THEN Invalidate
         ELSE UNCHANGED <<loaded, shown, stale, fetch, failed>>
      /\ owed' = (IF change.does.adopts THEN owed \cap change.got ELSE owed) \cup more
      /\ submitted' = [submitted EXCEPT ![edit] = Done]
      /\ UNCHANGED <<role, query, screen, chosen, kept>>
  BY <1>1, <1>2 DEF Answer
<1>4. /\ change \in Submission /\ Told(change.does)
      /\ change.does.alters => edit \in kept /\ (change.does.adopts => edit \in change.got)
  BY <1>1, <1>3 DEF ScreenInv, ScreenTypes, AnswersTell, Carries
<1>5. submitted' \in [Edits -> Submission] /\ AnswersTell'
  BY <1>3, DoneTells
<1>6. /\ more # {} => /\ more = {edit} /\ change.does.owes /\ change.aimed
                      /\ ~Overtaken(change.does) /\ edit \in kept
                      /\ change.does.refreshes \/ change.does.adopts
      /\ more \subseteq kept
  BY <1>2, <1>4 DEF Told
<1>7. owed' \subseteq kept /\ (Active' <=> Active)
  BY <1>3, <1>6 DEF ScreenInv, ScreenTypes, Active
<1>8. CASE change.does.adopts
  <2>1. /\ loaded' = TRUE /\ shown' = change.got /\ stale' = FALSE /\ failed' = FALSE
        /\ UNCHANGED fetch
    BY <1>3, <1>8 DEF Adopt
  <2>2. owed' \subseteq change.got
    BY <1>3, <1>4, <1>6, <1>8 DEF Told
  <2>3. ReadBrings'
    <3>1. fetch.pc = "read" => more = {}
      BY <1>6, <1>8 DEF Overtaken
    <3> QED
      BY <1>3, <2>1, <3>1 DEF ScreenInv, ReadBrings
  <2>4. OldIsRead'
    BY <2>1, <2>2 DEF OldIsRead
  <2>5. ScreenTypes'
    BY <1>3, <1>5, <1>7, <2>1 DEF ScreenInv, ScreenTypes
  <2> QED
    BY <1>5, <2>3, <2>4, <2>5 DEF ScreenInv
<1>9. CASE ~change.does.adopts /\ change.does.refreshes /\ change.aimed
  <2>1. /\ stale' = loaded
        /\ fetch' = IF Active /\ (loaded \/ fetch.pc = "idle") THEN Asked ELSE fetch
        /\ UNCHANGED <<loaded, shown, failed>> /\ owed' = owed \cup more
    BY <1>3, <1>9 DEF Invalidate
  <2>2. fetch' = Asked \/ fetch' = fetch
    BY <2>1
  <2>3. ScreenTypes'
    BY <1>3, <1>5, <1>7, <2>1, <2>2 DEF ScreenInv, ScreenTypes, Asked
  <2>4. ReadBrings'
    <3> SUFFICES ASSUME fetch'.pc = "read"
                 PROVE  owed' \subseteq fetch'.got
      BY DEF ReadBrings
    <3>1. fetch' = fetch /\ fetch.pc # "idle"
      BY <2>2 DEF Asked
    <3>2. ~loaded \/ ~Active
      BY <2>1, <3>1 DEF Asked
    <3>3. more = {}
      BY <1>6, <3>1, <3>2 DEF Overtaken
    <3> QED
      BY <2>1, <3>1, <3>3 DEF ScreenInv, ReadBrings
  <2>5. OldIsRead'
    BY <1>7, <2>1 DEF OldIsRead, Asked
  <2> QED
    BY <1>5, <2>3, <2>4, <2>5 DEF ScreenInv
<1>10. CASE ~change.does.adopts /\ ~(change.does.refreshes /\ change.aimed)
  <2>1. UNCHANGED <<loaded, shown, stale, fetch, failed>> /\ owed' = owed \cup more
    BY <1>3, <1>10
  <2>2. owed' = owed
    BY <1>6, <1>10, <2>1
  <2>3. ReadBrings' /\ OldIsRead'
    BY <1>3, <2>1, <2>2, CacheStays
  <2>4. ScreenTypes'
    BY <1>3, <1>5, <1>7, <2>1 DEF ScreenInv, ScreenTypes
  <2> QED
    BY <1>5, <2>3, <2>4 DEF ScreenInv
<1> QED
  BY <1>8, <1>9, <1>10

(* Reads: the server's data, their answer, a failure; and time. *)
LEMMA ReadStep ==
  ASSUME ScreenInv, ServerReads \/ FetchAnswered \/ FetchFails \/ Age \/ Refetch \/ Forget
  PROVE  ScreenInv'
<1>1. UNCHANGED <<role, query, screen, chosen, submitted, kept, owed>>
  BY DEF ServerReads, FetchAnswered, FetchFails, Age, Refetch, Forget
<1>2. AnswersTell' /\ (Active' <=> Active)
  BY <1>1 DEF ScreenInv, AnswersTell, Carries, Active
<1>3. CASE ServerReads
  <2>1. /\ fetch' = [pc |-> "read", got |-> kept] /\ UNCHANGED <<loaded, shown, stale, failed>>
    BY <1>3 DEF ServerReads
  <2> QED
    BY <1>1, <1>2, <2>1 DEF ScreenInv, ScreenTypes, ReadBrings, OldIsRead
<1>4. CASE FetchAnswered
  <2>1. /\ fetch.pc = "read" /\ fetch' = NoFetch /\ loaded' = TRUE /\ shown' = fetch.got
        /\ stale' = FALSE /\ failed' = FALSE
    BY <1>4 DEF FetchAnswered
  <2> QED
    BY <1>1, <1>2, <2>1 DEF ScreenInv, ScreenTypes, ReadBrings, OldIsRead, NoFetch
<1>5. CASE FetchFails
  <2>1. fetch' = NoFetch /\ failed' = TRUE /\ UNCHANGED <<loaded, shown, stale>>
    BY <1>5 DEF FetchFails
  <2> QED
    BY <1>1, <1>2, <2>1 DEF ScreenInv, ScreenTypes, ReadBrings, OldIsRead, NoFetch
<1>6. CASE Age
  <2>1. stale' = TRUE /\ UNCHANGED <<loaded, shown, fetch, failed>>
    BY <1>6 DEF Age
  <2> QED
    BY <1>1, <1>2, <2>1 DEF ScreenInv, ScreenTypes, ReadBrings, OldIsRead
<1>7. CASE Refetch
  <2>1. fetch' = Asked /\ UNCHANGED <<loaded, shown, stale, failed>>
    BY <1>7 DEF Refetch
  <2> QED
    BY <1>1, <1>2, <2>1 DEF ScreenInv, ScreenTypes, ReadBrings, OldIsRead, Asked
<1>8. CASE Forget
  <2>1. loaded' = FALSE /\ stale' = FALSE /\ failed' = FALSE /\ UNCHANGED fetch
    BY <1>8 DEF Forget
  <2> QED
    BY <1>1, <1>2, <2>1 DEF ScreenInv, ScreenTypes, ReadBrings, OldIsRead
<1> QED
  BY <1>3, <1>4, <1>5, <1>6, <1>7, <1>8

LEMMA ScreenInvInit ==
  ASSUME ScreenInit
  PROVE  ScreenInv
<1>1. /\ role \in Everyone /\ query \in Followed /\ screen = "PreferencesPage" /\ chosen = TRUE
      /\ loaded = FALSE /\ shown = {} /\ stale = FALSE /\ failed = FALSE
      /\ fetch = Asked \/ fetch = NoFetch
      /\ submitted = [edit \in Edits |-> Unsent] /\ kept = {} /\ owed = {}
  BY DEF ScreenInit
<1>2. submitted \in [Edits -> Submission] /\ AnswersTell
  BY <1>1, Blanks DEF AnswersTell, Carries
<1>3. fetch \in [pc : {"idle", "asked", "read"}, got : SUBSET Edits]
  BY <1>1 DEF Asked, NoFetch
<1>4. screen \in DOMAIN Screens
  BY <1>1, ScreenTables
<1>5. ScreenTypes
  BY <1>1, <1>2, <1>3, <1>4 DEF ScreenTypes
<1> QED
  BY <1>1, <1>2, <1>5 DEF ScreenInv, ReadBrings, OldIsRead, Asked, NoFetch

LEMMA ScreenInvStep ==
  ASSUME ScreenInv, [ScreenNext]_screenVars
  PROVE  ScreenInv'
<1>1. CASE \E next \in Relevant[query] : Open(next)
  BY <1>1, OpenStep
<1>2. CASE Select
  BY <1>2, SelectStep
<1>3. ASSUME NEW edit \in Edits, \E does \in Effects[screen][role][query] : SendChange(edit, does)
      PROVE  ScreenInv'
  BY <1>3, SendChangeStep
<1>4. ASSUME NEW edit \in Edits, StoreChange(edit) PROVE ScreenInv'
  BY <1>4, StoreChangeStep
<1>5. ASSUME NEW edit \in Edits, Answer(edit) PROVE ScreenInv'
  BY <1>5, AnswerStep
<1>6. ASSUME NEW edit \in Edits, LoseAnswer(edit) PROVE ScreenInv'
  BY <1>6, LoseAnswerStep
<1>7. CASE ServerReads \/ FetchAnswered \/ FetchFails \/ Age \/ Refetch \/ Forget
  BY <1>7, ReadStep
<1>8. CASE UNCHANGED screenVars
  BY <1>8, CacheStays DEF screenVars, ScreenInv, ScreenTypes, AnswersTell, Carries
<1> QED
  BY <1>1, <1>2, <1>3, <1>4, <1>5, <1>6, <1>7, <1>8 DEF ScreenNext

(* The web client's cache (React Query), for any number of changes: once
   nothing is being read, and no read has failed, what a screen shows holds
   every change that it is owed, however reads, answers and pages interleave.
   Of the tables of screens and routes it uses what ScreenTables says. *)
THEOREM YourChangesShowAlways == ScreenSpec => []YourChangesShow
<1>1. ScreenInit => ScreenInv
  BY ScreenInvInit
<1>2. ScreenInv /\ [ScreenNext]_screenVars => ScreenInv'
  BY ScreenInvStep
<1>3. ScreenInv => YourChangesShow
  BY DEF ScreenInv, OldIsRead, YourChangesShow
<1> QED
  BY <1>1, <1>2, <1>3, PTL DEF ScreenSpec

-----------------------------------------------------------------------------
(* Types: forms *)

LEMMA PatchesAre ==
  ASSUME NEW p
  PROVE  p \in Patches <=> DOMAIN p \in SUBSET fields /\ p \in [DOMAIN p -> Values]
<1>1. p \in Patches <=> \E names \in SUBSET fields : p \in [names -> Values]
  BY DEF Patches
<1>2. ASSUME NEW names \in SUBSET fields, p \in [names -> Values]
      PROVE  DOMAIN p = names
  BY <1>2
<1> QED
  BY <1>1, <1>2

LEMMA NothingIsAPatch == <<>> \in Patches /\ \A f \in fields, v \in Values : [g \in {f} |-> v] \in Patches
<1>1. <<>> \in Patches
  <2>1. PICK p : p = <<>>
    OBVIOUS
  <2>2. DOMAIN p = {} /\ p \in [{} -> Values]
    BY <2>1
  <2> QED
    BY <2>1, <2>2, PatchesAre
<1>2. ASSUME NEW f \in fields, NEW v \in Values PROVE [g \in {f} |-> v] \in Patches
  <2>1. PICK p : p = [g \in {f} |-> v]
    OBVIOUS
  <2>2. DOMAIN p = {f} /\ p \in [{f} -> Values]
    BY <2>1
  <2> QED
    BY <2>1, <2>2, PatchesAre
<1> QED
  BY <1>1, <1>2

LEMMA OverlaidPatch ==
  ASSUME NEW p \in Patches, NEW q \in Patches PROVE Overlay(p, q) \in Patches
<1>1. PICK r : r = Overlay(p, q)
  OBVIOUS
<1>2. /\ DOMAIN p \in SUBSET fields /\ \A f \in DOMAIN p : p[f] \in Values
      /\ DOMAIN q \in SUBSET fields /\ \A f \in DOMAIN q : q[f] \in Values
  BY PatchesAre
<1>3. r = [f \in DOMAIN p \cup DOMAIN q |-> IF f \in DOMAIN p THEN p[f] ELSE q[f]]
  BY <1>1 DEF Overlay
<1>4. DOMAIN r \in SUBSET fields /\ r \in [DOMAIN r -> Values]
  BY <1>2, <1>3
<1> QED
  BY <1>1, <1>4, PatchesAre

LEMMA RestrictedPatch ==
  ASSUME NEW p \in Patches, NEW names \in SUBSET DOMAIN p PROVE Restrict(p, names) \in Patches
<1>1. PICK r : r = Restrict(p, names)
  OBVIOUS
<1>2. DOMAIN p \in SUBSET fields /\ \A f \in DOMAIN p : p[f] \in Values
  BY PatchesAre
<1>3. DOMAIN r \in SUBSET fields /\ r \in [DOMAIN r -> Values]
  BY <1>1, <1>2 DEF Restrict
<1> QED
  BY <1>1, <1>3, PatchesAre

LEMMA RecordsArePatches ==
  ASSUME NEW p
  PROVE  p \in [fields -> Values] <=> p \in Patches /\ DOMAIN p = fields
<1>1. p \in [fields -> Values] => DOMAIN p = fields
  OBVIOUS
<1> QED
  BY <1>1, PatchesAre

(* What is written down of a form, of one kind or another. *)
FormTypeInv == FormInv /\ FormTypeOK

LEMMA FormTypeInit == FormInit => FormTypeInv
<1> SUFFICES ASSUME FormInit PROVE FormTypeOK
  BY FormInvInit DEF FormTypeInv
<1>1. PICK f \in form.names, g \in form.names : fields = {f, g}
  BY DEF FormInit
<1>2. Cardinality({f, g}) \in 1..2
  <2>1. Cardinality({f}) = 1 /\ IsFiniteSet({f})
    BY FS_Singleton, Zenon
  <2>2. Cardinality({f} \cup {g}) \in {1, 2}
    BY <2>1, FS_AddElement
  <2>3. {f, g} = {f} \cup {g}
    OBVIOUS
  <2> QED
    BY <2>2, <2>3
<1>3. fields \subseteq form.names /\ Cardinality(fields) \in 1..2
  BY <1>1, <1>2
<1>4. stored \in [fields -> Values] /\ stored \in Patches
  BY RecordsArePatches DEF FormInit
<1>5. draft \in Patches
  BY <1>4, NothingIsAPatch DEF FormInit, Filled
<1>6. save.pc = "idle" /\ save.patch = <<>> /\ save.meant = {}
  BY DEF FormInit, NoSave
<1>7. /\ form \in Forms /\ asking \in BOOLEAN
      /\ touched \in SUBSET fields /\ late \in SUBSET fields
  <2>1. form \in Forms /\ touched = {} /\ late = {}
    BY DEF FormInit
  <2>2. asking = FALSE
    BY DEF FormInit
  <2> QED
    BY <2>1, <2>2
<1> QED
  BY <1>3, <1>4, <1>5, <1>6, <1>7, NothingIsAPatch DEF FormTypeOK

LEMMA FilledTyped == FormTypeOK => Filled(form, stored) \in Patches
BY NothingIsAPatch, RecordsArePatches DEF FormTypeOK, Filled

(* The form and the fields stay; the rest is as the step leaves it. *)
LEMMA FormMoves ==
  ASSUME FormTypeOK, UNCHANGED <<form, fields>>,
         stored' \in [fields -> Values], draft' \in Patches, asking' \in BOOLEAN,
         save'.pc \in {"idle", "sent", "stored", "failed"}, save'.patch \in Patches,
         save'.meant \in SUBSET fields, touched' \in SUBSET fields, late' \in SUBSET fields
  PROVE  FormTypeOK'
<1>1. Patches' = Patches
  BY DEF Patches
<1> QED
  BY <1>1 DEF FormTypeOK

LEMMA FormTypeStep == FormTypeInv /\ [FormNext]_formVars => FormTypeInv'
<1> SUFFICES ASSUME FormTypeInv, [FormNext]_formVars PROVE FormTypeOK'
  BY FormInvStep DEF FormTypeInv
<1>1. /\ FormTypeOK /\ SaveIsRecord /\ stored \in [fields -> Values] /\ stored \in Patches
      /\ draft \in Patches /\ asking \in BOOLEAN
      /\ save.pc \in {"idle", "sent", "stored", "failed"} /\ save.patch \in Patches
      /\ save.meant \in SUBSET fields /\ touched \in SUBSET fields /\ late \in SUBSET fields
  BY RecordsArePatches DEF FormTypeInv, FormInv, FormTypeOK
<1>2. NoSave.pc = "idle" /\ NoSave.patch \in Patches /\ NoSave.meant = {}
  BY NothingIsAPatch DEF NoSave
<1>3. ASSUME NEW pc, save' = [save EXCEPT !.pc = pc]
      PROVE  save'.pc = pc /\ save'.patch = save.patch /\ save'.meant = save.meant
  BY <1>1, <1>3 DEF SaveIsRecord
<1>4. ASSUME NEW f \in fields, NEW value \in Values, Edit(f, value) PROVE FormTypeOK'
  <2>1. draft' \in Patches
    BY <1>1, <1>4, NothingIsAPatch, OverlaidPatch DEF Edit
  <2>2. touched' \in SUBSET fields /\ late' \in SUBSET fields
    BY <1>1, <1>4 DEF Edit
  <2>3. UNCHANGED <<form, fields, stored, asking, save>>
    BY <1>4 DEF Edit
  <2> QED
    BY <1>1, <2>1, <2>2, <2>3, FormMoves
<1>5. CASE Leave
  BY <1>1, <1>5, FilledTyped, FormMoves DEF Leave
<1>6. ASSUME NEW patch \in Patches, Send(patch), asking' \in BOOLEAN PROVE FormTypeOK'
  <2>1. save'.pc = "sent" /\ save'.patch = patch /\ save'.meant = touched
    BY <1>6 DEF Send
  <2>2. UNCHANGED <<form, fields, stored, draft, touched>> /\ late' = {}
    BY <1>6 DEF Send
  <2> QED
    BY <1>1, <1>6, <2>1, <2>2, FormMoves
<1>7. CASE PressSave \/ Decline
  <2>1. CASE UNCHANGED <<form, fields, stored, draft, save, touched, late>> /\ asking' \in BOOLEAN
    BY <1>1, <2>1, FormMoves
  <2>2. CASE Send(draft) /\ UNCHANGED asking
    BY <1>1, <1>6, <2>2
  <2> QED
    BY <1>7, <2>1, <2>2 DEF PressSave, Decline
<1>8. CASE Confirm
  <2>1. PICK names : names = form.asks \cap DOMAIN draft
    OBVIOUS
  <2>2. Restrict(draft, names) \in Patches
    BY <1>1, <2>1, RestrictedPatch
  <2>3. Send(Restrict(draft, names)) /\ asking' \in BOOLEAN
    BY <1>8, <2>1 DEF Confirm
  <2> QED
    BY <1>6, <2>2, <2>3
<1>9. ASSUME NEW patch \in Patches, stored' = Overlay(patch, stored)
      PROVE  stored' \in [fields -> Values]
  <2>1. stored' \in Patches
    BY <1>1, <1>9, OverlaidPatch
  <2>2. DOMAIN patch \in SUBSET fields /\ DOMAIN stored = fields
    BY <1>1, PatchesAre
  <2>3. DOMAIN stored' = fields
    BY <1>9, <2>2, Overlaid
  <2> QED
    BY <2>1, <2>3, RecordsArePatches
<1>10. CASE Store
  <2>1. stored' \in [fields -> Values]
    BY <1>1, <1>9, <1>10 DEF Store
  <2>2. save' = [save EXCEPT !.pc = "stored"] /\ UNCHANGED <<form, fields, draft, asking, touched, late>>
    BY <1>10 DEF Store
  <2> QED
    BY <1>1, <1>3, <2>1, <2>2, FormMoves
<1>11. CASE StoreHalf
  <2>1. PICK names : names = {"member1"} \cap DOMAIN save.patch
    OBVIOUS
  <2>2. Restrict(save.patch, names) \in Patches
    BY <1>1, <2>1, RestrictedPatch
  <2>3. stored' = Overlay(Restrict(save.patch, names), stored)
    BY <1>11, <2>1 DEF StoreHalf
  <2>4. stored' \in [fields -> Values]
    BY <1>9, <2>2, <2>3
  <2>5. save' = [save EXCEPT !.pc = "failed"] /\ UNCHANGED <<form, fields, draft, asking, touched, late>>
    BY <1>11 DEF StoreHalf
  <2> QED
    BY <1>1, <1>3, <2>4, <2>5, FormMoves
<1>12. CASE Fail
  <2>1. save' = [save EXCEPT !.pc = "failed"]
        /\ UNCHANGED <<form, fields, stored, draft, asking, touched, late>>
    BY <1>12 DEF Fail
  <2> QED
    BY <1>1, <1>3, <2>1, FormMoves
<1>13. CASE Answered
  <2>1. draft' \in Patches /\ touched' \in SUBSET fields
    BY <1>1, <1>13, FilledTyped DEF Answered
  <2>2. asking' \in BOOLEAN /\ save' = NoSave /\ late' = {} /\ UNCHANGED <<form, fields, stored>>
    BY <1>1, <1>13 DEF Answered
  <2> QED
    BY <1>1, <1>2, <2>1, <2>2, FormMoves
<1>14. CASE Failed
  BY <1>1, <1>2, <1>14, FormMoves DEF Failed
<1>15. ASSUME NEW f \in fields, NEW value \in Values, OthersSave(f, value) PROVE FormTypeOK'
  <2>1. stored' \in [fields -> Values] /\ UNCHANGED <<form, fields, draft, asking, save, touched, late>>
    BY <1>1, <1>15 DEF OthersSave
  <2> QED
    BY <1>1, <2>1, FormMoves
<1>16. CASE UNCHANGED formVars
  BY <1>1, <1>16, FormMoves DEF formVars
<1> QED
  BY <1>4, <1>5, <1>7, <1>8, <1>10, <1>11, <1>12, <1>13, <1>14, <1>15, <1>16 DEF FormNext

-----------------------------------------------------------------------------
(* Types: what the screens show *)

(* The data on screen come from the server, by way of a read or an answer. *)
ScreenTypeInv == ScreenInv /\ shown \subseteq Edits

LEMMA ScreenTypeInit == ScreenInit => ScreenTypeInv
BY ScreenInvInit DEF ScreenInit, ScreenTypeInv

LEMMA ScreenTypeStep == ScreenTypeInv /\ [ScreenNext]_screenVars => ScreenTypeInv'
<1> SUFFICES ASSUME ScreenTypeInv, [ScreenNext]_screenVars PROVE shown' \subseteq Edits
  BY ScreenInvStep DEF ScreenTypeInv, Edits
<1>1. /\ shown \subseteq Edits /\ fetch.got \subseteq Edits
      /\ \A edit \in Edits : submitted[edit].got \subseteq Edits
  BY DEF ScreenTypeInv, ScreenInv, ScreenTypes, Submission
<1>2. ASSUME NEW edit \in Edits, Answer(edit) PROVE shown' \subseteq Edits
  BY <1>1, <1>2 DEF Answer, Adopt, Invalidate
<1>3. CASE \/ \E next \in Relevant[query] : Open(next)
           \/ Select
           \/ \E edit \in Edits :
                \/ \E does \in Effects[screen][role][query] : SendChange(edit, does)
                \/ StoreChange(edit)
                \/ LoseAnswer(edit)
           \/ ServerReads \/ FetchFails \/ Age \/ Refetch
           \/ UNCHANGED screenVars
  <2>1. shown' = shown
    BY <1>3 DEF Open, Select, SendChange, StoreChange, LoseAnswer, ServerReads, FetchFails, Age,
                Refetch, screenVars
  <2> QED
    BY <1>1, <2>1
<1>4. CASE FetchAnswered
  BY <1>1, <1>4 DEF FetchAnswered
<1>5. CASE Forget
  BY <1>5 DEF Forget
<1> QED
  BY <1>2, <1>3, <1>4, <1>5 DEF ScreenNext

LEMMA ScreenTypeGiven == ScreenTypeInv => ScreenTypeOK
<1> SUFFICES ASSUME ScreenTypeInv PROVE ScreenTypeOK
  OBVIOUS
<1>1. DOMAIN NoEffect = {"alters", "refreshes", "adopts", "owes"}
  BY DEF NoEffect
<1>2. ASSUME NEW does \in Does PROVE does \in [DOMAIN NoEffect -> BOOLEAN]
  BY <1>1, <1>2 DEF Does
<1>3. ASSUME NEW change \in Submission
      PROVE  change \in [pc : {"unsent", "sent", "stored", "done"},
                         does : [DOMAIN NoEffect -> BOOLEAN],
                         here : BOOLEAN, aimed : BOOLEAN, got : SUBSET Edits]
  BY <1>2, <1>3 DEF Submission
<1>4. submitted \in [Edits -> [pc : {"unsent", "sent", "stored", "done"},
                               does : [DOMAIN NoEffect -> BOOLEAN],
                               here : BOOLEAN, aimed : BOOLEAN, got : SUBSET Edits]]
  BY <1>3 DEF ScreenTypeInv, ScreenInv, ScreenTypes
<1>5. /\ role \in Everyone /\ query \in Followed /\ screen \in DOMAIN Screens
      /\ chosen \in BOOLEAN /\ loaded \in BOOLEAN /\ stale \in BOOLEAN /\ failed \in BOOLEAN
      /\ fetch \in [pc : {"idle", "asked", "read"}, got : SUBSET Edits]
      /\ kept \subseteq Edits /\ owed \subseteq Edits /\ shown \subseteq Edits
  BY DEF ScreenTypeInv, ScreenInv, ScreenTypes
<1>6. {chosen, loaded, stale, failed} \subseteq BOOLEAN
  BY <1>5
<1> QED
  BY <1>4, <1>5, <1>6 DEF ScreenTypeOK

-----------------------------------------------------------------------------
(* The components together.  In a behaviour of one of them the others do not
   move, so that each brings its own invariant. *)

PageTypesTogether ==
  /\ part = "manual" => LinkInv
  /\ part = "grid" => GridTypeInv
  /\ part = "forms" => FormTypeInv
  /\ part = "screens" => ScreenTypeInv

LEMMA PageTypesInit == Init => PageTypesTogether
BY LinkInvInit, GridTypeInit, FormTypeInit, ScreenTypeInit DEF Init, PageTypesTogether

LEMMA PageTypesStep == PageTypesTogether /\ [Next]_mcVars => PageTypesTogether'
<1> SUFFICES ASSUME PageTypesTogether, [Next]_mcVars PROVE PageTypesTogether'
  OBVIOUS
<1>1. part' = part
  BY DEF Next, mcVars
<1>2. /\ part = "manual" => [ManualNext]_manualVars
      /\ part = "grid" => [GridNext]_gridVars
      /\ part = "forms" => [FormNext]_formVars
      /\ part = "screens" => [ScreenNext]_screenVars
  BY DEF Next, mcVars
<1> QED
  BY <1>1, <1>2, ManualStep, GridTypeStep, FormTypeStep, ScreenTypeStep DEF PageTypesTogether

(* The manual entries on the server and the pages, in any behaviour: what they
   keep has its type; the toast and the requests name entries that were made;
   and what is typed into a form, sent and stored are fields of its record. *)
THEOREM PagesTypeCorrect == Spec => []TypeOK
<1>1. PageTypesTogether => TypeOK
  BY GridTypes, ScreenTypeGiven DEF PageTypesTogether, TypeOK, LinkInv, FormTypeInv
<1> QED
  BY <1>1, PageTypesInit, PageTypesStep, PTL DEF Spec
=============================================================================
