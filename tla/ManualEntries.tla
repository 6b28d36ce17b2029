---------------------------- MODULE ManualEntries ----------------------------
(***************************************************************************)
(* Manual time entries of one employee.  A manual entry states the time of *)
(* a cell (a company-local day and a job, or no job) and supersedes the    *)
(* punches of that cell; deleting it gives them back.                      *)
(*                                                                         *)
(* createManualEntry reads the day's approval, takes the row locks of the  *)
(* punches it is going to supersede (SELECT ... FOR UPDATE), then inserts  *)
(* and marks.  Between those steps other writers move: they are separate   *)
(* actions here.  The row locks are part of the state of a request.        *)
(***************************************************************************)
EXTENDS Integers, Sequences

CONSTANTS
  Staff,          \* supervisors and admins
  Workers,        \* the employee's own sessions
  Days, Jobs,
  UtcDay,         \* the date in UTC of the local midnight at which a day begins
  TimeOff,        \* the jobs that are time off
  Null,
  Mode,           \* employee_manual_entry_mode
  SelfTimeOff,    \* time_off_self_entry
  LastWeeks,      \* the cells copyLastWeek may find in the week before
  TimesheetRows,  \* sources the timesheet review deletes a row of
  MaxRows         \* bound of the model

VARIABLES
  rows,    \* time_entries, as committed, in id order
  req,     \* what each writer's request has reached
  review   \* an approval or its reversal between its read and its update

manualVars == <<rows, req, review>>

Writers == Staff \cup Workers

Cell == [day : Days, job : Jobs \cup {Null}]

ASSUME ManualAssumption ==
  /\ Staff \cap Workers = {}
  /\ Null \notin Jobs \cup Nat /\ TimeOff \subseteq Jobs /\ SelfTimeOff \in BOOLEAN
  /\ Mode \in {"allowed", "override_only", "disabled"}
  /\ LastWeeks \subseteq Seq(Cell) \ {<<>>}
  /\ DOMAIN UtcDay = Days
  /\ TimesheetRows \subseteq {"punch", "manual"}
  /\ MaxRows \in Nat

(* supersededBy is superseded_by_entry_id; supersedes is the manual row's
   supersedes_entry_ids, fixed at its insert. *)
Row == [source       : {"punch", "manual"},
        cell         : Cell,
        by           : Writers \cup {Null},
        open         : BOOLEAN,
        approved     : BOOLEAN,
        deleted      : BOOLEAN,
        supersedes   : SUBSET Nat,
        supersededBy : Nat \cup {Null}]

(* A request.  In copyLastWeek, todo are the cells still to visit and made
   the days it has filled; held are the row locks. *)
Request == [pc   : {"idle", "copying", "checked", "locked"},
            cell : Cell \cup {Null},
            held : SUBSET Nat,
            todo : Seq(Cell),
            made : SUBSET Days]

Idle == [pc |-> "idle", cell |-> Null, held |-> {}, todo |-> <<>>, made |-> {}]

Review == [approve : BOOLEAN, ids : SUBSET Nat]

(* The variables hold rows and requests, and a manual row is signed by the
   session that made it (created_by). *)
ManualTypeOK ==
  /\ rows \in Seq(Row)
  /\ \A i \in DOMAIN rows : rows[i].source = "manual" => rows[i].by \in Writers
  /\ req \in [Writers -> Request]
  /\ review \in Review \cup {Null}

ManualInit ==
  /\ rows = <<>>
  /\ req = [w \in Writers |-> Idle]
  /\ review = Null

-----------------------------------------------------------------------------
Live(i) == ~rows[i].deleted

LockedByOther(w, i) == \E v \in Writers \ {w} : i \in req[v].held

Locked(i) == \E v \in Writers : i \in req[v].held

(* Mutant of Overlapping: whereNull('superseded_by_entry_id') is missing. *)
OverlappingTaken(cell) ==
  {i \in DOMAIN rows : /\ cell.job \notin TimeOff
                       /\ rows[i].source = "punch"
                       /\ Live(i)
                       /\ rows[i].cell.day = cell.day
                       /\ cell.job # Null => rows[i].cell.job = cell.job}

(* findOverlappingPunches: a cell without a job takes every job's, and time
   off sits beside the day's punches. *)
Overlapping(cell) ==
  {i \in DOMAIN rows : /\ cell.job \notin TimeOff
                       /\ rows[i].source = "punch"
                       /\ Live(i)
                       /\ rows[i].supersededBy = Null
                       /\ rows[i].cell.day = cell.day
                       /\ cell.job # Null => rows[i].cell.job = cell.job}

(* Mutant of Granted: the SELECT goes without FOR UPDATE's wait. *)
GrantedAtOnce(w, ids) == TRUE

(* FOR UPDATE waits for whoever holds one of the rows and then reads them
   again, so a request sees them as they are when it gets them. *)
Granted(w, ids) == \A i \in ids : ~LockedByOther(w, i)

(* employeeModeFor *)
ModeFor(job) ==
  IF job \notin TimeOff THEN Mode
  ELSE IF SelfTimeOff THEN "allowed" ELSE "disabled"

(* canManualEdit, for the employee's own entries. *)
MayEdit(w, job, approved) ==
  w \in Staff \/ (ModeFor(job) # "disabled" /\ ~approved)

DayApproved(day) ==
  \E i \in DOMAIN rows : Live(i) /\ rows[i].cell.day = day /\ rows[i].approved

OverrideOnly(w, job) == w \in Workers /\ ModeFor(job) = "override_only"

(* The rows an override_only employee's first look locks. *)
Precheck(w, cell) == IF OverrideOnly(w, cell.job) THEN Overlapping(cell) ELSE {}

(* createManualEntry up to its authorization, from a request or from the
   loop of copyLastWeek. *)
Admitted(w, cell) ==
  /\ MayEdit(w, cell.job, DayApproved(cell.day))
  /\ OverrideOnly(w, cell.job) =>
       Overlapping(cell) # {} /\ Granted(w, Overlapping(cell))

Create(w, cell) ==
  /\ req[w] = Idle
  /\ Admitted(w, cell)
  /\ req' = [req EXCEPT ![w].pc = "checked", ![w].cell = cell,
                        ![w].held = Precheck(w, cell)]
  /\ UNCHANGED <<rows, review>>

(* The rows to supersede are locked. *)
LockPunches(w) ==
  /\ req[w].pc = "checked"
  /\ Granted(w, Overlapping(req[w].cell))
  /\ req' = [req EXCEPT ![w].pc = "locked", ![w].held = Overlapping(req[w].cell)]
  /\ UNCHANGED <<rows, review>>

(* The rows that time_entries_manual_unique_per_day_job has at the key of the
   cell: the index goes by the date in UTC. *)
Holders(cell) ==
  {i \in DOMAIN rows : /\ rows[i].source = "manual" /\ Live(i)
                       /\ rows[i].supersededBy = Null
                       /\ UtcDay[rows[i].cell.day] = UtcDay[cell.day]
                       /\ rows[i].cell.job = cell.job}

(* The punches of a request, superseded by the row it appends. *)
Marked(w) ==
  [i \in DOMAIN rows |->
     IF i \in req[w].held THEN [rows[i] EXCEPT !.supersededBy = Len(rows) + 1]
     ELSE rows[i]]

(* Where a request goes when its createManualEntry has returned or thrown:
   copyLastWeek swallows the error and takes the next cell. *)
After(w, made) ==
  IF req[w].todo = <<>>
  THEN Idle
  ELSE [req[w] EXCEPT !.pc = "copying", !.cell = Null, !.held = {},
                      !.made = @ \cup made]

(* Mutant of ManualRow: the insert leaves created_by out. *)
UnsignedRow(w) ==
  [source |-> "manual", cell |-> req[w].cell, by |-> Null,
   open |-> FALSE, approved |-> FALSE, deleted |-> FALSE,
   supersedes |-> req[w].held, supersededBy |-> Null]

ManualRow(w) ==
  [source |-> "manual", cell |-> req[w].cell, by |-> w,
   open |-> FALSE, approved |-> FALSE, deleted |-> FALSE,
   supersedes |-> req[w].held, supersededBy |-> Null]

(* Insert, mark and commit. *)
Insert(w) ==
  /\ req[w].pc = "locked"
  /\ Holders(req[w].cell) = {}
  /\ Len(rows) < MaxRows
  /\ rows' = Append(Marked(w), ManualRow(w))
  /\ req' = [req EXCEPT ![w] = After(w, {req[w].cell.day})]
  /\ UNCHANGED review

(* 23505: another manual entry holds the key. *)
Conflict(w) ==
  /\ req[w].pc = "locked"
  /\ Holders(req[w].cell) # {}
  /\ req' = [req EXCEPT ![w] = After(w, {})]
  /\ UNCHANGED <<rows, review>>

(* The process dies, or the connection of one createManualEntry: its
   transaction rolls back and its locks are freed. *)
Disconnect(w) ==
  /\ req[w] # Idle
  /\ req' \in {[req EXCEPT ![w] = Idle], [req EXCEPT ![w] = After(w, {})]}
  /\ UNCHANGED <<rows, review>>

-----------------------------------------------------------------------------
(* copyLastWeek: one createManualEntry after another *)

Copy(w, cells) ==
  /\ req[w] = Idle
  /\ MayEdit(w, Null, FALSE)
  /\ req' = [req EXCEPT ![w].pc = "copying", ![w].todo = cells]
  /\ UNCHANGED <<rows, review>>

(* A day that has an entry, of whatever job, is passed over. *)
DayTaken(day) ==
  \E i \in DOMAIN rows : /\ Live(i)
                         /\ rows[i].supersededBy = Null
                         /\ rows[i].cell.day = day

(* The next cell is passed over, or refused ... *)
SkipCell(w) ==
  LET cell == Head(req[w].todo)
  IN  /\ req[w].pc = "copying"
      /\ \/ DayTaken(cell.day)
         \/ ~MayEdit(w, cell.job, DayApproved(cell.day))
         \/ OverrideOnly(w, cell.job) /\ Overlapping(cell) = {}
      /\ req' = [req EXCEPT ![w] = IF Len(req[w].todo) = 1 THEN Idle
                                   ELSE [req[w] EXCEPT !.todo = Tail(req[w].todo)]]
      /\ UNCHANGED <<rows, review>>

(* ... or handed to createManualEntry. *)
CopyCell(w) ==
  LET cell == Head(req[w].todo)
  IN  /\ req[w].pc = "copying"
      /\ ~DayTaken(cell.day)
      /\ Admitted(w, cell)
      /\ req' = [req EXCEPT ![w].todo = Tail(@), ![w].pc = "checked",
                            ![w].cell = cell, ![w].held = Precheck(w, cell)]
      /\ UNCHANGED <<rows, review>>

-----------------------------------------------------------------------------
(* Mutant of Restored: a delete like any other, that gives nothing back. *)
NothingRestored(id) == [rows EXCEPT ![id].deleted = TRUE]

(* _deleteWithinTrx: the entry goes, its punches come back. *)
Restored(id) ==
  [i \in DOMAIN rows |->
     IF i = id THEN [rows[i] EXCEPT !.deleted = TRUE]
     ELSE IF i \in rows[id].supersedes /\ rows[i].supersededBy = id
     THEN [rows[i] EXCEPT !.supersededBy = Null]
     ELSE rows[i]]

(* deleteManualEntry, and updateManualEntry with a duration of 0.  (Another
   duration changes no column modelled here.) *)
DeleteManual(w, id) ==
  /\ rows[id].source = "manual" /\ Live(id)
  /\ MayEdit(w, rows[id].cell.job, rows[id].approved)
  /\ \A i \in rows[id].supersedes : ~Locked(i)
  /\ rows' = Restored(id)
  /\ UNCHANGED <<req, review>>

-----------------------------------------------------------------------------
(* The rest of the system, as far as it touches these rows *)

(* A clock-in, and what ends it. *)
Punch(cell) ==
  /\ cell.job \notin TimeOff
  /\ Len(rows) < MaxRows
  /\ \A i \in DOMAIN rows : Live(i) => ~rows[i].open
  /\ rows' = Append(rows, [source |-> "punch", cell |-> cell, by |-> Null,
                           open |-> TRUE, approved |-> FALSE, deleted |-> FALSE,
                           supersedes |-> {}, supersededBy |-> Null])
  /\ UNCHANGED <<req, review>>

ClockOut(id) ==
  /\ rows[id].open /\ Live(id) /\ ~Locked(id)
  /\ rows' = [rows EXCEPT ![id].open = FALSE]
  /\ UNCHANGED <<req, review>>

(* deleteEntry and editEntry from the timesheet review.  (A manual entry is
   taken to go on beginning at midnight.) *)
DeleteEntry(id) ==
  /\ rows[id].source \in TimesheetRows
  /\ Live(id) /\ ~Locked(id)
  /\ rows' = [rows EXCEPT ![id].deleted = TRUE]
  /\ UNCHANGED <<req, review>>

EditEntry(id, cell) ==
  /\ rows[id].source \in TimesheetRows
  /\ Live(id) /\ ~Locked(id)
  /\ rows[id].source = "manual" /\ rows[id].supersededBy = Null =>
       Holders(cell) \subseteq {id}
  /\ rows' = [rows EXCEPT ![id].cell = cell]
  /\ UNCHANGED <<req, review>>

(* approvePeriod reads the closed entries, unapprovePeriod the approved
   ones, without locks ... *)
ReviewRead(approve) ==
  LET ids == {i \in DOMAIN rows : /\ Live(i)
                                  /\ rows[i].approved = ~approve
                                  /\ approve => ~rows[i].open}
  IN  /\ review = Null /\ ids # {}
      /\ review' = [approve |-> approve, ids |-> ids]
      /\ UNCHANGED <<rows, req>>

(* ... and updates what it read, by id. *)
ReviewWrite ==
  /\ review # Null
  /\ \A i \in review.ids : ~Locked(i)
  /\ rows' = [i \in DOMAIN rows |->
                IF i \in review.ids THEN [rows[i] EXCEPT !.approved = review.approve]
                ELSE rows[i]]
  /\ review' = Null
  /\ UNCHANGED req

-----------------------------------------------------------------------------
ManualNext ==
  \/ \E w \in Writers :
       \/ \E cell \in Cell : Create(w, cell)
       \/ LockPunches(w)
       \/ Insert(w)
       \/ Conflict(w)
       \/ Disconnect(w)
       \/ \E cells \in LastWeeks : Copy(w, cells)
       \/ SkipCell(w)
       \/ CopyCell(w)
       \/ \E id \in DOMAIN rows : DeleteManual(w, id)
  \/ \E cell \in Cell : Punch(cell)
  \/ \E id \in DOMAIN rows :
       \/ ClockOut(id)
       \/ DeleteEntry(id)
       \/ \E cell \in Cell : EditEntry(id, cell)
  \/ \E approve \in BOOLEAN : ReviewRead(approve)
  \/ ReviewWrite

ManualSpec == ManualInit /\ [][ManualNext]_manualVars

-----------------------------------------------------------------------------
(* Properties *)

(* The two ends of a supersede link agree: a superseded punch is in the
   array of the manual entry that has it, and a manual entry that is in
   force has every punch of its array; under override_only it has one, which
   nobody takes away between the check and the insert. *)
LinksAgree ==
  \A i \in DOMAIN rows :
    /\ rows[i].supersededBy # Null =>
         /\ rows[i].supersededBy \in DOMAIN rows
         /\ i \in rows[rows[i].supersededBy].supersedes
    /\ rows[i].source = "manual" /\ Live(i) =>
         /\ \A k \in rows[i].supersedes : rows[k].supersededBy = i
         /\ OverrideOnly(rows[i].by, rows[i].cell.job) => rows[i].supersedes # {}

(* No hours are lost: a punch is hidden only by a manual entry in force. *)
HiddenByLiveEntry ==
  \A i \in DOMAIN rows :
    rows[i].supersededBy # Null /\ Live(i) => Live(rows[i].supersededBy)

(* Punches and manual entries belong together: the links agree at both ends,
   and what they hide is hidden by hours in force. *)
SupersedeLinks == LinksAgree /\ HiddenByLiveEntry

(* A superseded punch changes hands only through a revert: one manual entry
   never takes it from another. *)
NoTakeover ==
  [][\A i \in DOMAIN rows :
       rows[i].supersededBy # Null => rows'[i].supersededBy \in {rows[i].supersededBy, Null}]_manualVars

(* Approval is a gate for the employee: none of the employee's own manual
   entries replaces a punch that a supervisor has signed off. *)
ApprovedHoursStand ==
  [][\A i \in DOMAIN rows :
       rows[i].supersededBy = Null /\ rows'[i].supersededBy # Null
         /\ rows'[rows'[i].supersededBy].by \in Workers => ~rows[i].approved]_manualVars

(* copyLastWeek copies every cell: it passes over a day that had entries,
   never one that it has itself begun to fill. *)
CopiesEveryCell ==
  \A w \in Writers :
    req[w].pc = "copying" =>
      ~(DayTaken(Head(req[w].todo).day) /\ Head(req[w].todo).day \in req[w].made)
=============================================================================
