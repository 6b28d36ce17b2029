------------------------ MODULE ManualEntries_proofs ------------------------
(***************************************************************************)
(* Manual entries and the punches they replace, for any number of          *)
(* sessions and rows.                                                      *)
(*                                                                         *)
(* The invariant behind it: a request that has begun its transaction holds *)
(* the row locks of punches that nobody has superseded, no two requests    *)
(* hold the same one, and whatever changes such a row waits for its lock.  *)
(***************************************************************************)
EXTENDS ManualEntries, SequenceTheorems, TLAPS

(* What a request r of w may rest on: the punches it holds are free for its
   cell, and an override_only employee holds one. *)
Sound(w, r) ==
  /\ r.pc \in {"checked", "locked"} =>
       /\ r.cell \in Cell
       /\ r.held \subseteq Overlapping(r.cell)
       /\ OverrideOnly(w, r.cell.job) => r.held # {}
  /\ r.pc \in {"idle", "copying"} => r.held = {}
  /\ r.pc = "copying" => r.todo # <<>>

RequestsSound == \A w \in Writers : Sound(w, req[w])

LocksExclude ==
  \A v, w \in Writers : v # w => req[v].held \cap req[w].held = {}

(* The links of row i: manual rows supersede punches, rows of the table, and
   a link in force has both its ends. *)
Linked(i) ==
  /\ rows[i].supersedes \subseteq DOMAIN rows
  /\ rows[i].source = "punch" => rows[i].supersedes = {}
  /\ rows[i].source = "manual" => rows[i].supersededBy = Null
  /\ rows[i].supersededBy # Null =>
       /\ rows[i].supersededBy \in DOMAIN rows
       /\ i \in rows[rows[i].supersededBy].supersedes
  /\ rows[i].source = "manual" /\ Live(i) =>
       \A k \in rows[i].supersedes : rows[k].supersededBy = i

RowsLinked == \A i \in DOMAIN rows : Linked(i)

LinkInv == ManualTypeOK /\ RequestsSound /\ LocksExclude /\ RowsLinked

(* What the timesheet review can break: a manual entry that hides a punch is
   in force, and one of an override_only employee hides a punch. *)
InForce(i) ==
  /\ rows[i].supersededBy # Null => Live(rows[i].supersededBy)
  /\ rows[i].source = "manual" /\ Live(i) /\ OverrideOnly(rows[i].by, rows[i].cell.job) =>
       rows[i].supersedes # {}

HoursInForce == \A i \in DOMAIN rows : InForce(i)

LEMMA LinkInvInit == ManualInit => LinkInv /\ HoursInForce
<1> SUFFICES ASSUME ManualInit PROVE LinkInv /\ HoursInForce
  OBVIOUS
<1>1. rows = <<>> /\ DOMAIN rows = {} /\ rows \in Seq(Row)
  BY DEF ManualInit
<1>2. Idle \in Request
  BY DEF Idle, Request
<1>3. ManualTypeOK
  BY <1>1, <1>2 DEF ManualInit, ManualTypeOK
<1> QED
  BY <1>1, <1>3 DEF ManualInit, LinkInv, RequestsSound, Sound, LocksExclude, RowsLinked, HoursInForce, Idle

-----------------------------------------------------------------------------
(* Requests *)

(* A step that moves one request, to a sound one that holds nobody else's
   rows, and leaves the table alone. *)
LEMMA RequestMoves ==
  ASSUME LinkInv, NEW w \in Writers, NEW r \in Request, Sound(w, r),
         \A v \in Writers \ {w} : req[v].held \cap r.held = {},
         req' = [req EXCEPT ![w] = r], UNCHANGED <<rows, review>>
  PROVE  LinkInv'
<1>1. req \in [Writers -> Request] /\ req' \in [Writers -> Request]
  BY DEF LinkInv, ManualTypeOK
<1>2. \A v \in Writers : req'[v] = IF v = w THEN r ELSE req[v]
  BY <1>1
<1>3. ManualTypeOK'
  BY <1>1 DEF LinkInv, ManualTypeOK
<1>4. RequestsSound'
  <2> SUFFICES ASSUME NEW v \in Writers PROVE Sound(v, req[v])'
    BY DEF RequestsSound
  <2>1. Sound(v, req'[v])
    BY <1>2 DEF LinkInv, RequestsSound
  <2> QED
    BY <2>1 DEF Sound, Overlapping, Live
<1>5. LocksExclude'
  BY <1>2 DEF LinkInv, LocksExclude
<1>6. RowsLinked'
  BY DEF LinkInv, RowsLinked, Linked, Live
<1> QED
  BY <1>3, <1>4, <1>5, <1>6 DEF LinkInv

LEMMA RequestType == ASSUME LinkInv, NEW w \in Writers
                     PROVE  req[w] \in Request /\ req \in [Writers -> Request] /\ Sound(w, req[w])
BY DEF LinkInv, ManualTypeOK, RequestsSound

(* Where a request goes at the end of a createManualEntry it holds nothing. *)
LEMMA AfterSound ==
  ASSUME LinkInv, NEW w \in Writers, NEW made \in SUBSET Days
  PROVE  After(w, made) \in Request /\ Sound(w, After(w, made)) /\ After(w, made).held = {}
<1>1. req[w] \in Request
  BY RequestType
<1>2. CASE req[w].todo = <<>>
  BY <1>2 DEF After, Idle, Request, Sound
<1>3. CASE req[w].todo # <<>>
  <2>1. After(w, made) = [req[w] EXCEPT !.pc = "copying", !.cell = Null, !.held = {},
                                        !.made = req[w].made \cup made]
    BY <1>3 DEF After
  <2>2. After(w, made) \in Request
    BY <1>1, <2>1 DEF Request
  <2> QED
    BY <1>1, <1>3, <2>1, <2>2 DEF Request, Sound
<1> QED
  BY <1>2, <1>3

(* The rows that Overlapping names belong to nobody else once they are granted. *)
LEMMA GrantedDisjoint ==
  ASSUME NEW w, NEW ids, Granted(w, ids)
  PROVE  \A v \in Writers \ {w} : req[v].held \cap ids = {}
BY DEF Granted, LockedByOther

LEMMA OverlappingInNat ==
  ASSUME LinkInv, NEW cell PROVE Overlapping(cell) \in SUBSET Nat
BY DEF LinkInv, ManualTypeOK, Overlapping

(* The first look of an admitted request locks what it needs. *)
LEMMA PrecheckSound ==
  ASSUME LinkInv, NEW w \in Writers, NEW cell \in Cell, Admitted(w, cell)
  PROVE  /\ Precheck(w, cell) \in SUBSET Nat
         /\ Precheck(w, cell) \subseteq Overlapping(cell)
         /\ OverrideOnly(w, cell.job) => Precheck(w, cell) # {}
         /\ \A v \in Writers \ {w} : req[v].held \cap Precheck(w, cell) = {}
BY OverlappingInNat, GrantedDisjoint DEF Admitted, Precheck

LEMMA CreateStep ==
  ASSUME LinkInv, NEW w \in Writers, NEW cell \in Cell, Create(w, cell)
  PROVE  LinkInv'
<1> DEFINE r == [req[w] EXCEPT !.pc = "checked", !.cell = cell, !.held = Precheck(w, cell)]
<1>1. req[w] \in Request
  BY RequestType
<1>2. Admitted(w, cell) /\ req' = [req EXCEPT ![w] = r] /\ UNCHANGED <<rows, review>>
  BY RequestType DEF Create
<1>3. r \in Request /\ Sound(w, r)
  BY <1>1, <1>2, PrecheckSound DEF Request, Sound
<1>4. \A v \in Writers \ {w} : req[v].held \cap r.held = {}
  BY <1>1, <1>2, PrecheckSound DEF Request
<1> QED
  BY <1>2, <1>3, <1>4, RequestMoves

LEMMA LockPunchesStep ==
  ASSUME LinkInv, NEW w \in Writers, LockPunches(w)
  PROVE  LinkInv'
<1> DEFINE cell == req[w].cell
           r == [req[w] EXCEPT !.pc = "locked", !.held = Overlapping(cell)]
<1>1. req[w] \in Request /\ Sound(w, req[w])
  BY RequestType
<1>2. /\ req[w].pc = "checked" /\ Granted(w, Overlapping(cell))
      /\ req' = [req EXCEPT ![w] = r] /\ UNCHANGED <<rows, review>>
  BY RequestType DEF LockPunches
<1>3. r \in Request
  BY <1>1, OverlappingInNat DEF Request
<1>4. Sound(w, r)
  BY <1>1, <1>2 DEF Sound
<1>5. \A v \in Writers \ {w} : req[v].held \cap r.held = {}
  BY <1>2, GrantedDisjoint
<1> QED
  BY <1>2, <1>3, <1>4, <1>5, RequestMoves

(* Conflict and Disconnect: the request ends, or goes on with its copying. *)
LEMMA RequestEnds ==
  ASSUME LinkInv, NEW w \in Writers, UNCHANGED <<rows, review>>,
         req' \in {[req EXCEPT ![w] = Idle], [req EXCEPT ![w] = After(w, {})]}
  PROVE  LinkInv'
<1>1. CASE req' = [req EXCEPT ![w] = Idle]
  <2>1. Idle \in Request /\ Sound(w, Idle) /\ Idle.held = {}
    BY DEF Idle, Request, Sound
  <2> QED
    BY <1>1, <2>1, RequestMoves
<1>2. CASE req' = [req EXCEPT ![w] = After(w, {})]
  <2>1. After(w, {}) \in Request /\ Sound(w, After(w, {})) /\ After(w, {}).held = {}
    BY AfterSound
  <2> QED
    BY <1>2, <2>1, RequestMoves
<1> QED
  BY <1>1, <1>2

-----------------------------------------------------------------------------
(* copyLastWeek *)

LEMMA CopyStep ==
  ASSUME LinkInv, NEW w \in Writers, NEW cells \in LastWeeks, Copy(w, cells)
  PROVE  LinkInv'
<1> DEFINE r == [Idle EXCEPT !.pc = "copying", !.todo = cells]
<1>1. req[w] = Idle /\ req' = [req EXCEPT ![w] = r] /\ UNCHANGED <<rows, review>>
  BY RequestType DEF Copy
<1>2. cells \in Seq(Cell) /\ cells # <<>>
  BY ManualAssumption
<1>3. r \in Request /\ Sound(w, r)
  BY <1>2 DEF Idle, Request, Sound
<1>4. r.held = {}
  BY DEF Idle
<1> QED
  BY <1>1, <1>3, <1>4, RequestMoves

LEMMA EmptyRest ==
  ASSUME NEW n \in Nat, NEW rest, Len(rest) = n - 1, n # 1 PROVE rest # <<>>
<1>1. rest = <<>> => Len(rest) = 0
  BY EmptySeq
<1> QED
  BY <1>1

(* The cell that is next, and the ones after it. *)
LEMMA NextCell ==
  ASSUME LinkInv, NEW w \in Writers, req[w].pc = "copying"
  PROVE  /\ Head(req[w].todo) \in Cell
         /\ Tail(req[w].todo) \in Seq(Cell)
         /\ Len(req[w].todo) # 1 => Tail(req[w].todo) # <<>>
         /\ req[w].held = {}
<1>1. req[w] \in Request /\ Sound(w, req[w])
  BY RequestType
<1>2. req[w].todo \in Seq(Cell) /\ req[w].todo # <<>>
  BY <1>1 DEF Request, Sound
<1>3. /\ Head(req[w].todo) \in Cell /\ Tail(req[w].todo) \in Seq(Cell)
      /\ Len(Tail(req[w].todo)) = Len(req[w].todo) - 1
  BY <1>2, HeadTailProperties
<1>4. Len(req[w].todo) \in Nat
  BY <1>2
<1>5. Len(req[w].todo) # 1 => Tail(req[w].todo) # <<>>
  BY <1>3, <1>4, EmptyRest
<1> QED
  BY <1>1, <1>3, <1>5 DEF Sound

LEMMA SkipCellStep ==
  ASSUME LinkInv, NEW w \in Writers, SkipCell(w)
  PROVE  LinkInv'
<1>1. /\ req \in [Writers -> Request] /\ req[w].pc = "copying" /\ UNCHANGED <<rows, review>>
      /\ req' = [req EXCEPT ![w] = IF Len(req[w].todo) = 1 THEN Idle
                                   ELSE [req[w] EXCEPT !.todo = Tail(req[w].todo)]]
  BY RequestType DEF SkipCell
<1>2. CASE Len(req[w].todo) = 1
  BY <1>1, <1>2, RequestEnds
<1>3. CASE Len(req[w].todo) # 1
  <2> DEFINE r == [req[w] EXCEPT !.todo = Tail(req[w].todo)]
  <2> DEFINE x == IF Len(req[w].todo) = 1 THEN Idle ELSE r
  <2>3. req' = [req EXCEPT ![w] = x]
    BY <1>1
  <2>4. x = r
    BY <1>3
  <2>1. req' = [req EXCEPT ![w] = r]
    <3> HIDE DEF x, r
    <3> QED
      BY <2>3, <2>4
  <2>2. r \in Request /\ Sound(w, r) /\ r.held = {}
    BY <1>1, <1>3, NextCell DEF Request, Sound
  <2> QED
    BY <1>1, <2>1, <2>2, RequestMoves
<1> QED
  BY <1>2, <1>3

LEMMA CopyCellStep ==
  ASSUME LinkInv, NEW w \in Writers, CopyCell(w)
  PROVE  LinkInv'
<1> DEFINE cell == Head(req[w].todo)
           r == [req[w] EXCEPT !.todo = Tail(req[w].todo), !.pc = "checked",
                               !.cell = cell, !.held = Precheck(w, cell)]
<1>1. req[w] \in Request /\ cell \in Cell /\ Tail(req[w].todo) \in Seq(Cell)
  BY RequestType, NextCell DEF CopyCell
<1>2. Admitted(w, cell) /\ req' = [req EXCEPT ![w] = r] /\ UNCHANGED <<rows, review>>
  BY RequestType DEF CopyCell
<1>3. r \in Request /\ Sound(w, r)
  BY <1>1, <1>2, PrecheckSound DEF Request, Sound
<1>4. \A v \in Writers \ {w} : req[v].held \cap r.held = {}
  BY <1>1, <1>2, PrecheckSound DEF Request
<1> QED
  BY <1>2, <1>3, <1>4, RequestMoves

-----------------------------------------------------------------------------
(* The table *)

Signed(tbl) == \A i \in DOMAIN tbl : tbl[i].source = "manual" => tbl[i].by \in Writers

(* A request stays sound while the rows it holds stay as they are. *)
LEMMA HeldStays ==
  ASSUME NEW w \in Writers, Sound(w, req[w]), req'[w] = req[w], DOMAIN rows \subseteq DOMAIN rows',
         \A i \in req[w].held : rows'[i] = rows[i]
  PROVE  Sound(w, req[w])'
BY DEF Sound, Overlapping, Live

(* A step that writes rows which nobody has locked. *)
LEMMA TableMoves ==
  ASSUME LinkInv, rows' \in Seq(Row), DOMAIN rows \subseteq DOMAIN rows', Signed(rows'),
         \A i \in DOMAIN rows : Locked(i) => rows'[i] = rows[i],
         RowsLinked', UNCHANGED req, review' \in Review \cup {Null}
  PROVE  LinkInv'
<1>1. ManualTypeOK'
  BY DEF LinkInv, ManualTypeOK, Signed
<1>2. RequestsSound'
  <2> SUFFICES ASSUME NEW w \in Writers PROVE Sound(w, req[w])'
    BY DEF RequestsSound
  <2>1. Sound(w, req[w]) /\ req[w] \in Request
    BY RequestType
  <2>2. \A i \in req[w].held : i \in DOMAIN rows /\ Locked(i)
    BY <2>1 DEF Sound, Overlapping, Locked, Request
  <2> QED
    BY <2>1, <2>2, HeldStays
<1>3. LocksExclude'
  BY DEF LinkInv, LocksExclude
<1> QED
  BY <1>1, <1>2, <1>3 DEF LinkInv

(* A row that changes in place, or several, keeps a table a table. *)
LEMMA RowType == ASSUME LinkInv, NEW i \in DOMAIN rows
                 PROVE  /\ rows \in Seq(Row) /\ rows[i] \in Row /\ DOMAIN rows = 1..Len(rows)
                        /\ Signed(rows) /\ Linked(i)
BY DEF LinkInv, ManualTypeOK, RowsLinked, Signed

LEMMA TableOf ==
  ASSUME LinkInv, NEW tbl, tbl = [i \in DOMAIN rows |-> tbl[i]],
         \A i \in DOMAIN rows : tbl[i] \in Row
  PROVE  tbl \in Seq(Row) /\ DOMAIN tbl = DOMAIN rows /\ Len(tbl) = Len(rows)
<1>1. rows \in Seq(Row) /\ DOMAIN rows = 1..Len(rows) /\ Len(rows) \in Nat
  BY DEF LinkInv, ManualTypeOK
<1> QED
  BY <1>1

(* What a change of other columns leaves of a row. *)
SameLinks(old, new) ==
  /\ new \in Row
  /\ new.source = old.source /\ new.by = old.by /\ (old.deleted => new.deleted)
  /\ new.supersedes = old.supersedes /\ new.supersededBy = old.supersededBy

(* A step that changes other columns: the cell of a row, or whether it is
   deleted, only where the timesheet review may. *)
OtherColumns ==
  /\ DOMAIN rows' = DOMAIN rows
  /\ \A i \in DOMAIN rows :
       /\ SameLinks(rows[i], rows'[i])
       /\ rows[i].source \notin TimesheetRows =>
            rows'[i].deleted = rows[i].deleted /\ rows'[i].cell = rows[i].cell

(* Such a step, when it waits for the locks of its rows. *)
LEMMA ColumnsMove ==
  ASSUME LinkInv, rows' = [i \in DOMAIN rows |-> rows'[i]], OtherColumns,
         \A i \in DOMAIN rows : Locked(i) => rows'[i] = rows[i],
         UNCHANGED req, review' \in Review \cup {Null}
  PROVE  LinkInv'
<1>1. rows' \in Seq(Row) /\ DOMAIN rows' = DOMAIN rows
  BY TableOf DEF SameLinks, OtherColumns
<1>2. Signed(rows')
  BY <1>1, RowType DEF Signed, SameLinks, OtherColumns
<1>3. RowsLinked'
  <2> SUFFICES ASSUME NEW i \in DOMAIN rows PROVE Linked(i)'
    BY <1>1 DEF RowsLinked
  <2>1. Linked(i) /\ rows[i] \in Row
    BY RowType
  <2>2. \A k \in DOMAIN rows : SameLinks(rows[k], rows'[k])
    BY DEF OtherColumns
  <2> QED
    BY <1>1, <2>1, <2>2 DEF Linked, Live, SameLinks
<1> QED
  BY <1>1, <1>2, <1>3, TableMoves

(* One row changes in place. *)
LEMMA RowWritten ==
  ASSUME LinkInv, NEW id \in DOMAIN rows, NEW new, SameLinks(rows[id], new), ~Locked(id),
         rows[id].source \notin TimesheetRows =>
           new.deleted = rows[id].deleted /\ new.cell = rows[id].cell,
         rows' = [rows EXCEPT ![id] = new], UNCHANGED <<req, review>>
  PROVE  LinkInv' /\ OtherColumns
<1>1. /\ DOMAIN rows' = DOMAIN rows /\ rows' = [i \in DOMAIN rows |-> rows'[i]]
      /\ rows'[id] = new
      /\ \A i \in DOMAIN rows \ {id} : rows'[i] = rows[i]
  BY RowType
<1>2. OtherColumns
  BY <1>1, RowType DEF SameLinks, OtherColumns
<1>3. \A i \in DOMAIN rows : Locked(i) => rows'[i] = rows[i]
  BY <1>1
<1>4. review' \in Review \cup {Null}
  BY DEF LinkInv, ManualTypeOK
<1> QED
  BY <1>1, <1>2, <1>3, <1>4, ColumnsMove

(* The review of the timesheet and the clock-out change one row ... *)
LEMMA ClockOutStep ==
  ASSUME LinkInv, NEW id \in DOMAIN rows, ClockOut(id)
  PROVE  LinkInv' /\ OtherColumns
<1> DEFINE new == [rows[id] EXCEPT !.open = FALSE]
<1>1. rows' = [rows EXCEPT ![id] = new] /\ ~Locked(id) /\ UNCHANGED <<req, review>>
  BY DEF ClockOut
<1>2. new.deleted = rows[id].deleted /\ new.cell = rows[id].cell /\ SameLinks(rows[id], new)
  BY RowType DEF Row, SameLinks
<1> HIDE DEF new
<1> QED
  BY <1>1, <1>2, RowWritten

LEMMA DeleteEntryStep ==
  ASSUME LinkInv, NEW id \in DOMAIN rows, DeleteEntry(id)
  PROVE  LinkInv' /\ OtherColumns
<1> DEFINE new == [rows[id] EXCEPT !.deleted = TRUE]
<1>1. /\ rows' = [rows EXCEPT ![id] = new] /\ ~Locked(id) /\ UNCHANGED <<req, review>>
      /\ rows[id].source \in TimesheetRows
  BY DEF DeleteEntry
<1>2. SameLinks(rows[id], new)
  BY RowType DEF Row, SameLinks
<1> HIDE DEF new
<1> QED
  BY <1>1, <1>2, RowWritten

LEMMA EditEntryStep ==
  ASSUME LinkInv, NEW id \in DOMAIN rows, NEW cell \in Cell, EditEntry(id, cell)
  PROVE  LinkInv' /\ OtherColumns
<1> DEFINE new == [rows[id] EXCEPT !.cell = cell]
<1>1. /\ rows' = [rows EXCEPT ![id] = new] /\ ~Locked(id) /\ UNCHANGED <<req, review>>
      /\ rows[id].source \in TimesheetRows
  BY DEF EditEntry
<1>2. SameLinks(rows[id], new)
  BY RowType DEF Row, SameLinks
<1> HIDE DEF new
<1> QED
  BY <1>1, <1>2, RowWritten

(* ... an approval or its reversal the rows it has read. *)
LEMMA ReviewReadStep ==
  ASSUME LinkInv, NEW approve \in BOOLEAN, ReviewRead(approve)
  PROVE  LinkInv' /\ UNCHANGED rows
<1>1. DOMAIN rows \subseteq Nat /\ UNCHANGED <<rows, req>>
  BY DEF LinkInv, ManualTypeOK, ReviewRead
<1>2. review' \in Review
  BY <1>1 DEF ReviewRead, Review
<1> QED
  BY <1>1, <1>2 DEF LinkInv, ManualTypeOK, RequestsSound, Sound, Overlapping, Live,
                    LocksExclude, RowsLinked, Linked

LEMMA ReviewWriteStep ==
  ASSUME LinkInv, ReviewWrite
  PROVE  LinkInv' /\ OtherColumns
<1>1. review \in Review /\ review' = Null /\ UNCHANGED req
  BY DEF LinkInv, ManualTypeOK, ReviewWrite
<1>2. DOMAIN rows' = DOMAIN rows /\ rows' = [i \in DOMAIN rows |-> rows'[i]]
  BY DEF ReviewWrite
<1>3. ASSUME NEW i \in DOMAIN rows
      PROVE  rows'[i] = IF i \in review.ids THEN [rows[i] EXCEPT !.approved = review.approve]
                        ELSE rows[i]
  BY DEF ReviewWrite
<1>4. OtherColumns
  <2> SUFFICES ASSUME NEW i \in DOMAIN rows
               PROVE  /\ SameLinks(rows[i], rows'[i])
                      /\ rows'[i].deleted = rows[i].deleted /\ rows'[i].cell = rows[i].cell
    BY <1>2 DEF OtherColumns
  <2>1. rows[i] \in Row
    BY RowType
  <2>2. CASE i \in review.ids
    <3> DEFINE new == [rows[i] EXCEPT !.approved = review.approve]
    <3>1. review.approve \in BOOLEAN
      BY <1>1 DEF Review
    <3>2. SameLinks(rows[i], new) /\ new.deleted = rows[i].deleted /\ new.cell = rows[i].cell
      BY <2>1, <3>1 DEF SameLinks, Row
    <3>3. rows'[i] = new
      BY <1>3, <2>2
    <3> HIDE DEF new
    <3> QED
      BY <3>2, <3>3
  <2>3. CASE i \notin review.ids
    BY <1>3, <2>1, <2>3 DEF SameLinks
  <2> QED
    BY <2>2, <2>3
<1>5. \A i \in DOMAIN rows : Locked(i) => rows'[i] = rows[i]
  BY <1>3 DEF ReviewWrite
<1> QED
  BY <1>1, <1>2, <1>4, <1>5, ColumnsMove

-----------------------------------------------------------------------------
(* Links that are made and undone *)

(* A locked row is a punch that nobody has superseded. *)
LEMMA LockedIsFree ==
  ASSUME LinkInv, NEW w \in Writers, NEW i \in req[w].held
  PROVE  i \in DOMAIN rows /\ rows[i].source = "punch" /\ rows[i].supersededBy = Null
BY RequestType DEF Sound, Overlapping, Request

LEMMA PunchStep ==
  ASSUME LinkInv, NEW cell \in Cell, Punch(cell)
  PROVE  LinkInv' /\ (HoursInForce => HoursInForce')
<1> DEFINE n == Len(rows)
           r == [source |-> "punch", cell |-> cell, by |-> Null,
                 open |-> TRUE, approved |-> FALSE, deleted |-> FALSE,
                 supersedes |-> {}, supersededBy |-> Null]
<1>1. rows \in Seq(Row) /\ r \in Row /\ n \in Nat /\ DOMAIN rows = 1..n
  BY DEF LinkInv, ManualTypeOK, Row
<1>2. rows' = Append(rows, r) /\ UNCHANGED <<req, review>>
  BY DEF Punch
<1>3. /\ rows' \in Seq(Row) /\ DOMAIN rows' = 1..(n + 1)
      /\ rows'[n + 1] = r /\ \A i \in DOMAIN rows : rows'[i] = rows[i]
  BY <1>1, <1>2, AppendProperties
<1>4. /\ r.source = "punch" /\ r.supersedes = {} /\ r.supersededBy = Null
  OBVIOUS
<1> HIDE DEF r, n
<1>5. Signed(rows') /\ DOMAIN rows \subseteq DOMAIN rows'
  BY <1>1, <1>3, <1>4, RowType DEF Signed
<1>6. RowsLinked'
  <2> SUFFICES ASSUME NEW i \in DOMAIN rows' PROVE Linked(i)'
    BY DEF RowsLinked
  <2>1. CASE i \in DOMAIN rows
    BY <1>1, <1>3, <2>1, RowType DEF Linked, Live
  <2>2. CASE i = n + 1
    BY <1>3, <1>4, <2>2 DEF Linked
  <2> QED
    BY <1>1, <1>3, <2>1, <2>2
<1>7. LinkInv'
  BY <1>2, <1>3, <1>5, <1>6, TableMoves DEF LinkInv, ManualTypeOK
<1>8. ASSUME HoursInForce PROVE HoursInForce'
  <2> SUFFICES ASSUME NEW i \in DOMAIN rows' PROVE InForce(i)'
    BY DEF HoursInForce
  <2>1. CASE i \in DOMAIN rows
    BY <1>1, <1>3, <1>8, <2>1, RowType DEF Linked, HoursInForce, InForce, Live
  <2>2. CASE i = n + 1
    BY <1>3, <1>4, <2>2 DEF InForce
  <2> QED
    BY <1>1, <1>3, <2>1, <2>2
<1> QED
  BY <1>7, <1>8

(* A deleted manual entry gives back every punch that it had. *)
LEMMA DeleteManualStep ==
  ASSUME LinkInv, NEW w \in Writers, NEW id \in DOMAIN rows, DeleteManual(w, id)
  PROVE  /\ LinkInv' /\ (HoursInForce => HoursInForce')
         /\ \A i \in DOMAIN rows : rows'[i].supersededBy \in {rows[i].supersededBy, Null}
<1> DEFINE gone == [rows[id] EXCEPT !.deleted = TRUE]
           back(i) == [rows[i] EXCEPT !.supersededBy = Null]
           restored(i) == i # id /\ i \in rows[id].supersedes /\ rows[i].supersededBy = id
<1>1. /\ rows[id].source = "manual" /\ \A i \in rows[id].supersedes : ~Locked(i)
      /\ UNCHANGED <<req, review>>
  BY DEF DeleteManual
<1>2. /\ DOMAIN rows' = DOMAIN rows /\ rows' = [i \in DOMAIN rows |-> rows'[i]]
      /\ rows'[id] = gone
      /\ \A i \in DOMAIN rows : restored(i) => rows'[i] = back(i)
      /\ \A i \in DOMAIN rows : i # id /\ ~restored(i) => rows'[i] = rows[i]
  BY DEF DeleteManual, Restored
<1>3. \A i \in DOMAIN rows :
        /\ rows'[i] \in Row
        /\ rows'[i].source = rows[i].source /\ rows'[i].by = rows[i].by
        /\ rows'[i].cell = rows[i].cell /\ rows'[i].supersedes = rows[i].supersedes
        /\ rows'[i].supersededBy = IF restored(i) THEN Null ELSE rows[i].supersededBy
        /\ rows'[i].deleted = (i = id \/ rows[i].deleted)
  <2> SUFFICES ASSUME NEW i \in DOMAIN rows
               PROVE  /\ rows'[i] \in Row
                      /\ rows'[i].source = rows[i].source /\ rows'[i].by = rows[i].by
                      /\ rows'[i].cell = rows[i].cell /\ rows'[i].supersedes = rows[i].supersedes
                      /\ rows'[i].supersededBy = IF restored(i) THEN Null ELSE rows[i].supersededBy
                      /\ rows'[i].deleted = (i = id \/ rows[i].deleted)
    OBVIOUS
  <2>0. rows[i] \in Row
    BY RowType
  <2>1. CASE i = id
    BY <1>2, <2>0, <2>1 DEF Row
  <2>2. CASE restored(i)
    BY <1>2, <2>0, <2>2 DEF Row
  <2>3. CASE i # id /\ ~restored(i)
    <3>1. rows'[i] = rows[i]
      BY <1>2, <2>3
    <3> QED
      BY <2>0, <2>3, <3>1 DEF Row
  <2> QED
    BY <2>1, <2>2, <2>3
<1>4. rows' \in Seq(Row)
  BY <1>2, <1>3, TableOf
<1>5. Signed(rows')
  BY <1>2, <1>3, RowType DEF Signed
<1>6. \A i \in DOMAIN rows : Locked(i) => rows'[i] = rows[i]
  BY <1>1, <1>2, LockedIsFree DEF Locked
<1> HIDE DEF gone, back
<1>7. RowsLinked'
  <2> SUFFICES ASSUME NEW i \in DOMAIN rows PROVE Linked(i)'
    BY <1>2 DEF RowsLinked
  <2>1. Linked(i) /\ Linked(id)
    BY RowType
  <2>2. \A k \in DOMAIN rows : Linked(k) /\ rows[k] \in Row
    BY RowType
  <2> DEFINE m == rows[i].supersededBy
  <2>3. rows'[i].supersededBy # Null =>
          rows'[i].supersededBy = m /\ m \in DOMAIN rows /\ i \in rows'[m].supersedes
    BY <1>3, <2>1 DEF Linked
  <2>4. ASSUME rows'[i].source = "manual", ~rows'[i].deleted, NEW k \in rows'[i].supersedes
        PROVE  rows'[k].supersededBy = i
    <3>1. i # id /\ k \in rows[i].supersedes /\ k \in DOMAIN rows /\ rows[k].supersededBy = i
      BY <1>3, <2>1, <2>4 DEF Linked, Live
    <3> QED
      BY <1>3, <3>1
  <2> QED
    BY <1>2, <1>3, <2>1, <2>3, <2>4 DEF Linked, Live
<1>8. LinkInv'
  BY <1>1, <1>2, <1>4, <1>5, <1>6, <1>7, TableMoves DEF LinkInv, ManualTypeOK
<1>9. ASSUME HoursInForce PROVE HoursInForce'
  <2> SUFFICES ASSUME NEW i \in DOMAIN rows PROVE InForce(i)'
    BY <1>2 DEF HoursInForce
  <2>1. Linked(i) /\ InForce(i) /\ Linked(id)
    BY <1>9, RowType DEF HoursInForce
  <2>2. rows'[i].supersededBy # Null => ~rows'[rows[i].supersededBy].deleted
    BY <1>1, <1>3, <2>1 DEF Linked, InForce, Live
  <2>3. rows'[i].supersededBy # Null => rows'[i].supersededBy = rows[i].supersededBy
    BY <1>3
  <2>4. rows'[i].source = "manual" /\ ~rows'[i].deleted
          /\ OverrideOnly(rows'[i].by, rows'[i].cell.job) => rows'[i].supersedes # {}
    BY <1>3, <2>1 DEF InForce, Live
  <2> QED
    BY <2>2, <2>3, <2>4 DEF InForce, Live, OverrideOnly, ModeFor
<1> QED
  BY <1>3, <1>8, <1>9

(* The row that an insert adds, and the punches it marks. *)
LEMMA InsertedTable ==
  ASSUME LinkInv, NEW w \in Writers, Insert(w)
  PROVE  LET n == Len(rows)
         IN  /\ rows' \in Seq(Row) /\ DOMAIN rows' = 1..(n + 1) /\ n \in Nat /\ DOMAIN rows = 1..n
             /\ rows'[n + 1] = ManualRow(w)
             /\ \A i \in DOMAIN rows : i \notin req[w].held => rows'[i] = rows[i]
             /\ \A i \in req[w].held :
                  /\ rows'[i].source = rows[i].source /\ rows'[i].by = rows[i].by
                  /\ rows'[i].supersedes = rows[i].supersedes
                  /\ rows'[i].supersededBy = n + 1
<1> DEFINE n == Len(rows)
           mark(i) == [rows[i] EXCEPT !.supersededBy = n + 1]
<1>1. rows \in Seq(Row) /\ n \in Nat /\ DOMAIN rows = 1..n
  BY DEF LinkInv, ManualTypeOK
<1>2. req[w] \in Request /\ req[w].cell \in Cell /\ req[w].held \subseteq DOMAIN rows
  BY RequestType, LockedIsFree DEF Insert, Sound
<1>3. ManualRow(w) \in Row
  BY <1>2 DEF ManualRow, Row, Request
<1>4. ASSUME NEW i \in DOMAIN rows
      PROVE  /\ Marked(w)[i] = IF i \in req[w].held THEN mark(i) ELSE rows[i]
             /\ mark(i) \in Row /\ rows[i] \in Row
             /\ mark(i).source = rows[i].source /\ mark(i).by = rows[i].by
             /\ mark(i).supersedes = rows[i].supersedes
             /\ mark(i).supersededBy = n + 1
  <2>1. rows[i] \in Row
    BY RowType
  <2>2. mark(i) \in Row
    BY <1>1, <2>1 DEF Row
  <2>3. /\ mark(i).source = rows[i].source /\ mark(i).by = rows[i].by
        /\ mark(i).supersedes = rows[i].supersedes
        /\ mark(i).supersededBy = n + 1
    BY <2>1 DEF Row
  <2>4. Marked(w)[i] = IF i \in req[w].held THEN mark(i) ELSE rows[i]
    BY DEF Marked
  <2> QED
    BY <2>1, <2>2, <2>3, <2>4
<1> HIDE DEF mark
<1>5. Marked(w) = [i \in DOMAIN rows |-> Marked(w)[i]]
  BY DEF Marked
<1>6. \A i \in DOMAIN rows : Marked(w)[i] \in Row
  BY <1>4
<1>7. Marked(w) \in Seq(Row) /\ Len(Marked(w)) = n
  BY <1>5, <1>6, TableOf
<1>8. /\ rows' = Append(Marked(w), ManualRow(w))
      /\ rows' \in Seq(Row) /\ DOMAIN rows' = 1..(n + 1)
      /\ rows'[n + 1] = ManualRow(w) /\ \A i \in 1..n : rows'[i] = Marked(w)[i]
  BY <1>1, <1>3, <1>7, AppendProperties DEF Insert
<1> HIDE DEF n
<1>9. \A i \in DOMAIN rows : rows'[i] = IF i \in req[w].held THEN mark(i) ELSE rows[i]
  BY <1>1, <1>4, <1>8
<1>10. \A i \in req[w].held : rows'[i] = mark(i)
  BY <1>2, <1>9
<1> QED
  BY <1>1, <1>2, <1>4, <1>8, <1>9, <1>10 DEF n

LEMMA InsertStep ==
  ASSUME LinkInv, NEW w \in Writers, Insert(w)
  PROVE  LinkInv' /\ (HoursInForce => HoursInForce')
<1> DEFINE n == Len(rows)
           after == After(w, {req[w].cell.day})
<1>1. /\ rows' \in Seq(Row) /\ DOMAIN rows' = 1..(n + 1) /\ n \in Nat /\ DOMAIN rows = 1..n
      /\ rows'[n + 1] = ManualRow(w)
      /\ \A i \in DOMAIN rows : i \notin req[w].held => rows'[i] = rows[i]
      /\ \A i \in req[w].held :
           /\ rows'[i].source = rows[i].source /\ rows'[i].by = rows[i].by
           /\ rows'[i].supersedes = rows[i].supersedes
           /\ rows'[i].supersededBy = n + 1
  BY InsertedTable
<1>2. /\ req \in [Writers -> Request] /\ Sound(w, req[w]) /\ req[w].pc = "locked"
      /\ req' = [req EXCEPT ![w] = after] /\ UNCHANGED review
  BY RequestType DEF Insert
<1>3. after \in Request /\ after.held = {} /\ Sound(w, after)
  <2>1. {req[w].cell.day} \in SUBSET Days
    BY <1>2 DEF Sound, Cell
  <2> QED
    BY <2>1, AfterSound
<1>4. req' \in [Writers -> Request] /\ req'[w] = after /\ \A v \in Writers \ {w} : req'[v] = req[v]
  BY <1>2, <1>3
<1>5. /\ ManualRow(w).source = "manual" /\ ManualRow(w).by = w /\ ~ManualRow(w).deleted
      /\ ManualRow(w).supersedes = req[w].held /\ ManualRow(w).supersededBy = Null
      /\ ManualRow(w).cell = req[w].cell
  BY DEF ManualRow
<1>6. \A i \in req[w].held : i \in DOMAIN rows /\ rows[i].source = "punch" /\ rows[i].supersededBy = Null
  BY LockedIsFree
<1>7. n + 1 # Null /\ n + 1 \notin DOMAIN rows
  BY <1>1, ManualAssumption
<1> HIDE DEF n, after
<1>8. ManualTypeOK'
  <2>1. \A i \in DOMAIN rows' : rows'[i].source = "manual" => rows'[i].by \in Writers
    BY <1>1, <1>5, <1>6, RowType DEF Signed
  <2> QED
    BY <1>1, <1>2, <1>4, <2>1 DEF LinkInv, ManualTypeOK
<1>9. RequestsSound'
  <2> SUFFICES ASSUME NEW v \in Writers PROVE Sound(v, req[v])'
    BY DEF RequestsSound
  <2>1. CASE v = w
    <3>1. req'[w].held = {} /\ req'[w].pc \in {"idle", "copying"} /\ Sound(w, req'[w])
      BY <1>3, <1>4 DEF after, After, Idle
    <3> QED
      BY <2>1, <3>1 DEF Sound
  <2>2. CASE v # w
    <3>1. Sound(v, req[v]) /\ req'[v] = req[v]
      BY <1>4, <2>2, RequestType
    <3>2. \A i \in req[v].held : i \in DOMAIN rows /\ i \notin req[w].held
      BY <2>2, LockedIsFree DEF LinkInv, LocksExclude
    <3> QED
      BY <1>1, <3>1, <3>2, HeldStays
  <2> QED
    BY <2>1, <2>2
<1>10. LocksExclude'
  BY <1>3, <1>4 DEF LinkInv, LocksExclude
<1>11. \A i \in DOMAIN rows : Linked(i)
  BY RowType
<1>12. RowsLinked'
  <2> SUFFICES ASSUME NEW i \in DOMAIN rows' PROVE Linked(i)'
    BY DEF RowsLinked
  <2>1. CASE i = n + 1
    BY <1>1, <1>5, <1>6, <2>1 DEF Linked, Live
  <2>2. CASE i \in req[w].held
    BY <1>1, <1>5, <1>6, <1>7, <1>11, <2>2 DEF Linked, Live
  <2>3. CASE i \in DOMAIN rows /\ i \notin req[w].held
    <3>1. rows'[i] = rows[i] /\ Linked(i)
      BY <1>1, <1>11, <2>3
    <3>2. \A k \in DOMAIN rows : rows'[k].supersedes = rows[k].supersedes
      BY <1>1
    <3>3. ASSUME NEW k \in DOMAIN rows, rows[k].supersededBy = i PROVE rows'[k].supersededBy = i
      BY <1>1, <1>6, <2>3, <3>3, ManualAssumption
    <3> QED
      BY <1>1, <3>1, <3>2, <3>3 DEF Linked, Live
  <2> QED
    BY <1>1, <2>1, <2>2, <2>3
<1>13. LinkInv'
  BY <1>8, <1>9, <1>10, <1>12 DEF LinkInv
<1>14. ASSUME HoursInForce PROVE HoursInForce'
  <2> SUFFICES ASSUME NEW i \in DOMAIN rows' PROVE InForce(i)'
    BY DEF HoursInForce
  <2>1. CASE i = n + 1
    BY <1>2, <1>5, <1>1, <2>1 DEF InForce, Sound, OverrideOnly, ModeFor
  <2>2. CASE i \in req[w].held
    BY <1>1, <1>5, <1>6, <2>2 DEF InForce, Live
  <2>3. CASE i \in DOMAIN rows /\ i \notin req[w].held
    <3>1. rows'[i] = rows[i] /\ Linked(i) /\ InForce(i)
      BY <1>1, <1>11, <1>14, <2>3 DEF HoursInForce
    <3>2. rows[i].supersededBy # Null => rows'[rows[i].supersededBy] = rows[rows[i].supersededBy]
      <4> DEFINE m == rows[i].supersededBy
      <4>1. m # Null => m \in DOMAIN rows /\ m \notin req[w].held
        BY <1>6, <1>11, <3>1 DEF Linked
      <4> QED
        BY <1>1, <4>1
    <3> QED
      BY <3>1, <3>2 DEF InForce, Live, OverrideOnly, ModeFor
  <2> QED
    BY <1>1, <2>1, <2>2, <2>3
<1> QED
  BY <1>13, <1>14

-----------------------------------------------------------------------------
(* Hours are hidden by the same entries, which are in force as before, when
   the timesheet review leaves manual entries alone. *)
LEMMA OtherColumnsInForce ==
  ASSUME LinkInv, HoursInForce, OtherColumns, "manual" \notin TimesheetRows
  PROVE  HoursInForce'
<1> SUFFICES ASSUME NEW i \in DOMAIN rows PROVE InForce(i)'
  BY DEF HoursInForce, OtherColumns
<1>1. Linked(i) /\ InForce(i) /\ \A k \in DOMAIN rows : Linked(k)
  BY RowType DEF HoursInForce
<1>2. /\ SameLinks(rows[i], rows'[i])
      /\ rows[i].source = "manual" => rows'[i].deleted = rows[i].deleted /\ rows'[i].cell = rows[i].cell
  BY DEF OtherColumns
<1>3. rows[i].supersededBy # Null => ~rows'[rows[i].supersededBy].deleted
  <2> SUFFICES ASSUME rows[i].supersededBy # Null PROVE ~rows'[rows[i].supersededBy].deleted
    OBVIOUS
  <2> DEFINE m == rows[i].supersededBy
  <2>1. m \in DOMAIN rows /\ rows[m] \in Row /\ rows[m].source # "punch" /\ ~rows[m].deleted
    BY <1>1, RowType DEF Linked, InForce, Live
  <2>2. rows[m].source \notin TimesheetRows
    BY <2>1 DEF Row
  <2> QED
    BY <2>1, <2>2 DEF OtherColumns
<1> QED
  BY <1>1, <1>2, <1>3 DEF SameLinks, InForce, Live, OverrideOnly, ModeFor

(* No step makes or breaks a link of a punch that is superseded, except to
   free it. *)
Kept == \A i \in DOMAIN rows :
          rows[i].supersededBy # Null => rows'[i].supersededBy \in {rows[i].supersededBy, Null}

LEMMA ManualStep ==
  ASSUME LinkInv, [ManualNext]_manualVars
  PROVE  /\ LinkInv' /\ Kept
         /\ HoursInForce /\ "manual" \notin TimesheetRows => HoursInForce'
<1> DEFINE Goal == /\ LinkInv' /\ Kept
                   /\ HoursInForce /\ "manual" \notin TimesheetRows => HoursInForce'
<1>a. ASSUME LinkInv', UNCHANGED rows PROVE Goal
  BY <1>a DEF Kept, HoursInForce, InForce, Live, OverrideOnly, ModeFor
<1>b. ASSUME LinkInv', OtherColumns PROVE Goal
  BY <1>b, OtherColumnsInForce DEF Kept, OtherColumns, SameLinks
<1>1. ASSUME NEW w \in Writers, NEW cell \in Cell, Create(w, cell) PROVE Goal
  BY <1>1, <1>a, CreateStep DEF Create
<1>2. ASSUME NEW w \in Writers, LockPunches(w) PROVE Goal
  BY <1>2, <1>a, LockPunchesStep DEF LockPunches
<1>3. ASSUME NEW w \in Writers, Insert(w) PROVE Goal
  <2>1. Kept
    BY <1>3, InsertedTable, LockedIsFree DEF Kept
  <2> QED
    BY <1>3, <2>1, InsertStep
<1>4. ASSUME NEW w \in Writers, Conflict(w) \/ Disconnect(w) PROVE Goal
  BY <1>4, <1>a, RequestEnds DEF Conflict, Disconnect
<1>5. ASSUME NEW w \in Writers, NEW cells \in LastWeeks, Copy(w, cells) PROVE Goal
  BY <1>5, <1>a, CopyStep DEF Copy
<1>6. ASSUME NEW w \in Writers, SkipCell(w) PROVE Goal
  BY <1>6, <1>a, SkipCellStep DEF SkipCell
<1>7. ASSUME NEW w \in Writers, CopyCell(w) PROVE Goal
  BY <1>7, <1>a, CopyCellStep DEF CopyCell
<1>8. ASSUME NEW w \in Writers, NEW id \in DOMAIN rows, DeleteManual(w, id) PROVE Goal
  BY <1>8, DeleteManualStep DEF Kept
<1>9. ASSUME NEW cell \in Cell, Punch(cell) PROVE Goal
  <2>1. rows \in Seq(Row) /\ DOMAIN rows = 1..Len(rows)
    BY DEF LinkInv, ManualTypeOK
  <2>2. \A i \in DOMAIN rows : rows'[i] = rows[i]
    BY <1>9, <2>1 DEF Punch
  <2> QED
    BY <1>9, <2>2, PunchStep DEF Kept
<1>10. ASSUME NEW id \in DOMAIN rows, ClockOut(id) PROVE Goal
  BY <1>10, <1>b, ClockOutStep
<1>11. ASSUME NEW id \in DOMAIN rows, DeleteEntry(id) PROVE Goal
  BY <1>11, <1>b, DeleteEntryStep
<1>12. ASSUME NEW id \in DOMAIN rows, NEW cell \in Cell, EditEntry(id, cell) PROVE Goal
  BY <1>12, <1>b, EditEntryStep
<1>13. ASSUME NEW approve \in BOOLEAN, ReviewRead(approve) PROVE Goal
  BY <1>13, <1>a, ReviewReadStep
<1>14. CASE ReviewWrite
  BY <1>14, <1>b, ReviewWriteStep
<1>15. CASE UNCHANGED manualVars
  <2>1. LinkInv'
    BY <1>15 DEF manualVars, LinkInv, ManualTypeOK, RequestsSound, Sound, Overlapping, Live,
                 LocksExclude, RowsLinked, Linked
  <2> QED
    BY <1>15, <2>1, <1>a DEF manualVars
<1> QED
  BY <1>1, <1>2, <1>3, <1>4, <1>5, <1>6, <1>7, <1>8, <1>9, <1>10, <1>11, <1>12, <1>13,
     <1>14, <1>15 DEF ManualNext

LEMMA LinkInvAlways == ManualSpec => []LinkInv
<1>1. LinkInv /\ [ManualNext]_manualVars => LinkInv'
  BY ManualStep
<1> QED
  BY <1>1, LinkInvInit, PTL DEF ManualSpec

(* Rows, requests and reviews keep their types. *)
THEOREM ManualTypeCorrect == ManualSpec => []ManualTypeOK
<1>1. LinkInv => ManualTypeOK
  BY DEF LinkInv
<1> QED
  BY <1>1, LinkInvAlways, PTL

(* One manual entry never takes a punch from another, whatever writers race
   for it: a superseded punch comes back before it goes to the next. *)
THEOREM NoTakeoverEver == ManualSpec => NoTakeover
<1>1. LinkInv /\ [ManualNext]_manualVars => [Kept]_manualVars
  BY ManualStep
<1> QED
  BY <1>1, LinkInvAlways, PTL DEF ManualSpec, NoTakeover, Kept

(* While the timesheet review does not delete or edit manual entries, the
   two ends of every link agree and a punch is hidden only by hours in force. *)
THEOREM SupersedeLinksAlways ==
  ASSUME "manual" \notin TimesheetRows
  PROVE  ManualSpec => []SupersedeLinks
<1>1. ManualInit => LinkInv /\ HoursInForce
  BY LinkInvInit
<1>2. LinkInv /\ HoursInForce /\ [ManualNext]_manualVars => LinkInv' /\ HoursInForce'
  BY ManualStep
<1>3. LinkInv /\ HoursInForce => SupersedeLinks
  <2> SUFFICES ASSUME LinkInv, HoursInForce PROVE SupersedeLinks
    OBVIOUS
  <2>1. \A i \in DOMAIN rows : Linked(i) /\ InForce(i)
    BY RowType DEF HoursInForce
  <2> QED
    BY <2>1 DEF SupersedeLinks, LinksAgree, HiddenByLiveEntry, Linked, InForce
<1> QED
  BY <1>1, <1>2, <1>3, PTL DEF ManualSpec
=============================================================================
