----------------------------- MODULE WeeklyGrid -----------------------------
(***************************************************************************)
(* The weekly grid of an employee, in the browser of somebody who may edit *)
(* it: cells that open an editor, what it saves and deletes, and the toast *)
(* that takes the last change back.  Answers find the page as it is by     *)
(* then; others change the same entries; the employee can be another one.  *)
(*                                                                         *)
(* A cell's punches are a number of hours, and what an entry superseded    *)
(* comes back when it goes (ManualEntries has the rows).  The cells are    *)
(* those of one day: an entry without a job takes the punches of them all. *)
(***************************************************************************)
EXTENDS Naturals, Sequences

CONSTANTS
  Owners,      \* the employees whose weeks can be opened
  GridCells,
  Takes,       \* the cells whose punches an entry of a cell supersedes
  MaxHours,    \* the length of a day
  MaxEntries,  \* bound of the model: manual entries ever made
  MaxPunched,  \* bound of the model: hours that are punched in a cell at a time
  MaxChanges   \* bound of the model: changes asked for, here or elsewhere

ASSUME GridAssumption ==
  /\ Takes \in [GridCells -> SUBSET GridCells]
  /\ MaxHours \in Nat \ {0} /\ MaxEntries \in Nat /\ MaxPunched \in Nat
  /\ MaxChanges \in Nat

VARIABLES
  entries,   \* manual entries, in id order
  punched,   \* the hours of each cell's punches that no entry supersedes
  person,    \* whose week the page shows
  grid,      \* each week as it was last fetched
  editor,    \* the cell that the editor is open for
  saving,    \* the editor's request
  undo,      \* the toast
  undoing,   \* the toast's request
  subject,   \* history: the change that the toast is about
  changes    \* how many were asked for

gridVars == <<entries, punched, person, grid, editor, saving, undo, undoing, subject, changes>>

Entry == [owner : Owners, cell : GridCells, hours : 1..MaxHours,
          took : [GridCells -> Nat], deleted : BOOLEAN]

(* A cell of the grid as the page has it; id 0 is no manual entry. *)
CellView == [hours : Nat, id : 0..MaxEntries]
NoGrid == [c \in {} |-> 0]

Editor == [cell : GridCells, hours : Nat, id : 0..MaxEntries]
NoEditor == [cell |-> "none"]

Toast == [kind : {"created", "updated"}, id : 1..MaxEntries, hours : Nat]
           \cup [kind : {"deleted"}, cell : GridCells, hours : Nat]
NoToast == [kind |-> "none"]

(* What a request asks of the server. *)
Change == [op : {"create", "update", "remove"}, owner : Owners, cell : GridCells,
           id : 0..MaxEntries, hours : Nat]
NoCall == [pc |-> "none"]

(* The employee's day as it was before the change: what an undo should bring
   back, for as long as nothing has come between.  mixed: punches that the
   entry has not taken stood beside it. *)
Subject == [owner : Owners, hours : [GridCells -> Nat], mixed : BOOLEAN]
NoSubject == [owner |-> "nobody"]

-----------------------------------------------------------------------------
(* The server *)

LiveEntries(owner, cell) ==
  {i \in DOMAIN entries : /\ entries[i].owner = owner /\ entries[i].cell = cell
                          /\ ~entries[i].deleted}

(* getWeeklyGrid *)
ViewOf(owner, cell) ==
  LET live == LiveEntries(owner, cell)
      id   == IF live = {} THEN 0 ELSE CHOOSE i \in live : TRUE
  IN  [hours |-> punched[owner][cell] + (IF id = 0 THEN 0 ELSE entries[id].hours),
       id    |-> id]

TakePunches(owner, cell) ==
  [punched EXCEPT ![owner] = [c \in GridCells |-> IF c \in Takes[cell] THEN 0 ELSE @[c]]]

(* createManualEntry: one manual entry per cell, and the punches give way. *)
CreateEntry(change) ==
  /\ LiveEntries(change.owner, change.cell) = {} /\ change.hours \in 1..MaxHours
  /\ Len(entries) < MaxEntries
  /\ entries' = Append(entries,
       [owner |-> change.owner, cell |-> change.cell, hours |-> change.hours,
        took |-> [c \in GridCells |->
                    IF c \in Takes[change.cell] THEN punched[change.owner][c] ELSE 0],
        deleted |-> FALSE])
  /\ punched' = TakePunches(change.owner, change.cell)

UpdateEntry(change) ==
  /\ change.id \in DOMAIN entries /\ ~entries[change.id].deleted
  /\ change.hours \in 1..MaxHours
  /\ entries' = [entries EXCEPT ![change.id].hours = change.hours]
  /\ UNCHANGED punched

RemoveEntry(change) ==
  /\ change.id \in DOMAIN entries /\ ~entries[change.id].deleted
  /\ LET entry == entries[change.id]
     IN  punched' = [punched EXCEPT ![entry.owner] =
                       [c \in GridCells |-> @[c] + entry.took[c]]]
  /\ entries' = [entries EXCEPT ![change.id].deleted = TRUE]

Effect(change) ==
  \/ change.op = "create" /\ CreateEntry(change)
  \/ change.op = "update" /\ UpdateEntry(change)
  \/ change.op = "remove" /\ RemoveEntry(change)

(* The id that the answer to a change has. *)
IdOf(change) == IF change.op = "create" THEN Len(entries) + 1 ELSE change.id

OwnerOf(change) ==
  IF change.op = "create" THEN change.owner ELSE entries[change.id].owner

-----------------------------------------------------------------------------
(* Whoever changes the employee's day comes between. *)
Unless(owner, of) == IF of.owner = owner THEN NoSubject ELSE of
Disturbed(owner, call) == IF call = NoCall THEN call ELSE [call EXCEPT !.of = Unless(owner, @)]

(* Variables have their types. *)
GridTypeOK ==
  /\ entries \in Seq(Entry)
  /\ punched \in [Owners -> [GridCells -> Nat]]
  /\ person \in Owners
  /\ \A owner \in Owners : grid[owner] \in [GridCells -> CellView] \cup {NoGrid}
  /\ editor \in Editor \cup {NoEditor}
  /\ undo \in Toast \cup {NoToast}
  /\ saving.pc \in {"none", "sent", "done"}
  /\ saving.pc # "none" => saving.change \in Change /\ saving.of \in Subject \cup {NoSubject}
  /\ undoing.pc \in {"none", "sent", "done"}
  /\ undoing.pc # "none" => undoing.change \in Change /\ undoing.of \in Subject \cup {NoSubject}
  /\ changes \in 0..MaxChanges
  /\ subject \in Subject \cup {NoSubject}

GridInit ==
  /\ entries = <<>> /\ punched \in [Owners -> [GridCells -> 0..MaxPunched]]
  /\ person \in Owners
  /\ grid = [owner \in Owners |->
               IF owner = person THEN [c \in GridCells |-> ViewOf(owner, c)] ELSE NoGrid]
  /\ editor = NoEditor /\ undo = NoToast /\ subject = NoSubject
  /\ saving = NoCall /\ undoing = NoCall /\ changes = 0

-----------------------------------------------------------------------------
(* The page *)

(* Nothing but "Loading..." is drawn until the week is there. *)
Drawn == grid[person] # NoGrid

(* The picker, or the browser's history, which closes no editor. *)
GoTo(owner) ==
  /\ owner # person /\ person' = owner
  /\ UNCHANGED <<entries, punched, grid, editor, saving, undo, undoing, subject, changes>>

(* The week is fetched, as it is now. *)
FetchGrid ==
  /\ grid' = [grid EXCEPT ![person] = [c \in GridCells |-> ViewOf(person, c)]]
  /\ UNCHANGED <<entries, punched, person, editor, saving, undo, undoing, subject, changes>>

Opened(cell, view) == [cell |-> cell, hours |-> view.hours, id |-> view.id]

(* A click on a cell, or a job picked for a day. *)
OpenCell(cell) ==
  /\ Drawn /\ editor = NoEditor
  /\ editor' = Opened(cell, grid[person][cell])
  /\ UNCHANGED <<entries, punched, person, grid, saving, undo, undoing, subject, changes>>

(* Cancel, or Escape, which waits for no answer; or the editor closes because
   one of the cell's entries was edited or removed from its list. *)
CloseEditor ==
  /\ editor # NoEditor /\ editor' = NoEditor
  /\ saving' = IF saving = NoCall THEN saving ELSE [saving EXCEPT !.of = NoSubject]
  /\ UNCHANGED <<entries, punched, person, grid, undo, undoing, subject, changes>>

DayBefore(entered) ==
  [owner |-> person, hours |-> [c \in GridCells |-> ViewOf(person, c).hours],
   mixed |-> entered /\ \E c \in {editor.cell} \cup Takes[editor.cell] :
                           punched[person][c] # 0]

(* The buttons of the editor wait for its last request. *)
Press(op, hours) ==
  /\ changes < MaxChanges /\ changes' = changes + 1
  /\ Drawn /\ editor # NoEditor /\ saving = NoCall
  /\ saving' = [pc     |-> "sent",
                change |-> [op |-> op, owner |-> person, cell |-> editor.cell,
                            id |-> editor.id, hours |-> hours],
                of     |-> IF /\ grid[person] = [c \in GridCells |-> ViewOf(person, c)]
                              /\ editor = Opened(editor.cell, ViewOf(person, editor.cell))
                           THEN DayBefore(op # "create") ELSE NoSubject]
  /\ UNCHANGED <<entries, punched, person, grid, editor, undo, undoing, subject>>

SaveCell(hours) == Press(IF editor.id # 0 THEN "update" ELSE "create", hours)

(* Delete, and a save of no hours. *)
DeleteCell == editor # NoEditor /\ editor.id # 0 /\ Press("remove", 0)

(* The server carries the change out; its answer may be lost. *)
SaveApplied ==
  /\ saving.pc = "sent"
  /\ Effect(saving.change)
  /\ saving' \in {NoCall, [saving EXCEPT !.pc = "done", !.change.id = IdOf(saving.change)]}
  /\ subject' = Unless(OwnerOf(saving.change), subject)
  /\ undoing' = Disturbed(OwnerOf(saving.change), undoing)
  /\ UNCHANGED <<person, grid, editor, undo, changes>>

(* onError, of this and of a lost answer: the editor stays. *)
SaveRefused ==
  /\ saving.pc = "sent" /\ saving' = NoCall
  /\ UNCHANGED <<entries, punched, person, grid, editor, undo, undoing, subject, changes>>

(* Mutant of SavedToast: it remembers what was saved. *)
SavedToastOfNow ==
  IF editor # NoEditor /\ editor.id # 0
  THEN [kind |-> "updated", id |-> saving.change.id, hours |-> saving.change.hours]
  ELSE [kind |-> "created", id |-> saving.change.id, hours |-> 0]

(* Was it an update, and of what?  The editor is asked, as it is now. *)
SavedToast ==
  IF editor # NoEditor /\ editor.id # 0
  THEN [kind |-> "updated", id |-> saving.change.id, hours |-> editor.hours]
  ELSE [kind |-> "created", id |-> saving.change.id, hours |-> 0]

(* onSuccess.  No editor, and a deleted cell leaves the toast there was. *)
SaveAnswered ==
  /\ saving.pc = "done" /\ saving' = NoCall
  /\ IF saving.change.op # "remove" THEN undo' = SavedToast
     ELSE IF editor # NoEditor
     THEN undo' = [kind |-> "deleted", cell |-> editor.cell, hours |-> editor.hours]
     ELSE UNCHANGED undo
  /\ subject' = saving.of /\ editor' = NoEditor
  /\ UNCHANGED <<entries, punched, person, grid, undoing, changes>>

-----------------------------------------------------------------------------
(* The toast *)

(* The cell of a deleted entry is filled for whoever the page shows now. *)
UndoChange ==
  [op    |-> CASE undo.kind = "created" -> "remove"
               [] undo.kind = "updated" -> "update"
               [] undo.kind = "deleted" -> "create",
   owner |-> person,
   cell  |-> IF undo.kind = "deleted" THEN undo.cell ELSE entries[undo.id].cell,
   id    |-> IF undo.kind = "deleted" THEN 0 ELSE undo.id,
   hours |-> undo.hours]

PressUndo ==
  /\ changes < MaxChanges /\ changes' = changes + 1
  /\ Drawn /\ undo # NoToast /\ undoing = NoCall
  /\ undoing' = [pc |-> "sent", change |-> UndoChange,
                 of |-> IF subject.owner = person THEN subject ELSE NoSubject]
  /\ UNCHANGED <<entries, punched, person, grid, editor, saving, undo, subject>>

UndoApplied ==
  /\ undoing.pc = "sent"
  /\ Effect(undoing.change)
  /\ undoing' \in {NoCall, [undoing EXCEPT !.pc = "done"]}
  /\ subject' = Unless(OwnerOf(undoing.change), subject)
  /\ saving' = Disturbed(OwnerOf(undoing.change), saving)
  /\ UNCHANGED <<person, grid, editor, undo, changes>>

(* An error leaves the toast. *)
UndoRefused ==
  /\ undoing.pc = "sent" /\ undoing' = NoCall
  /\ UNCHANGED <<entries, punched, person, grid, editor, saving, undo, subject, changes>>

(* The toast goes, if it is another's by now, too. *)
UndoAnswered ==
  /\ undoing.pc = "done" /\ undoing' = NoCall /\ undo' = NoToast
  /\ subject' = NoSubject
  /\ UNCHANGED <<entries, punched, person, grid, editor, saving, changes>>

(* A minute is over, or it is dismissed. *)
ToastGoes ==
  /\ undo # NoToast /\ undo' = NoToast /\ subject' = NoSubject
  /\ UNCHANGED <<entries, punched, person, grid, editor, saving, undoing, changes>>

-----------------------------------------------------------------------------
(* Others, and what the page changes without a toast: the entry list, the
   removal of punches, and last week's copy. *)
OthersChange(owner, cell) ==
  /\ changes < MaxChanges /\ changes' = changes + 1
  /\ \/ /\ \E n \in 0..MaxPunched : punched' = [punched EXCEPT ![owner][cell] = n]
        /\ punched' # punched /\ UNCHANGED entries
     \/ \E op \in {"create", "update", "remove"}, hours \in 1..MaxHours :
          Effect([op |-> op, owner |-> owner, cell |-> cell,
                  id |-> ViewOf(owner, cell).id, hours |-> hours])
  /\ subject' = Unless(owner, subject)
  /\ saving' = Disturbed(owner, saving)
  /\ undoing' = Disturbed(owner, undoing)
  /\ UNCHANGED <<person, grid, editor, undo>>

GridNext ==
  \/ \E owner \in Owners : GoTo(owner)
  \/ FetchGrid
  \/ \E cell \in GridCells : OpenCell(cell)
  \/ CloseEditor
  \/ \E hours \in 1..MaxHours : SaveCell(hours)
  \/ DeleteCell
  \/ SaveApplied
  \/ SaveRefused
  \/ SaveAnswered
  \/ PressUndo
  \/ UndoApplied
  \/ UndoRefused
  \/ UndoAnswered
  \/ ToastGoes
  \/ \E owner \in Owners, cell \in GridCells : OthersChange(owner, cell)

GridSpec == GridInit /\ [][GridNext]_gridVars

-----------------------------------------------------------------------------
(* Properties *)

(* An undo brings the employee's day back to what it was when Save was pressed
   (and leaves the others' alone). *)
BringsBack(of) ==
  \A owner \in Owners, cell \in GridCells :
    ViewOf(owner, cell).hours' =
      IF owner = of.owner THEN of.hours[cell] ELSE ViewOf(owner, cell).hours

(* What an undo of an entry brings back, where no punches stood beside it: if
   the grid was true when Save was pressed, the editor stayed open until the
   answer, the page shows the same employee, and nobody else has changed the
   day, all its cells show again what they showed: those, too, whose punches an
   entry without a job has taken. *)
UndoRestoresEntries ==
  [][UndoApplied /\ undoing.of # NoSubject /\ ~undoing.of.mixed => BringsBack(undoing.of)]_gridVars
=============================================================================
