-------------------------- MODULE PunchClock_proofs --------------------------
(***************************************************************************)
(* What PunchClock guarantees for any number of employees, sessions and    *)
(* editors, any clock and any table.                                       *)
(***************************************************************************)
EXTENDS PunchClock, SequenceTheorems, TLAPS

InTransaction(s) == txn[s].pc \in {"holding", "splitting"}

(* A transaction that closes a row refers to a row of the table: rows are
   soft-deleted, never removed. *)
PointsAtRow ==
  \A s \in Transactions :
    InTransaction(s) /\ txn[s].op # "clockIn" => txn[s].id \in 1..Len(entries)

(* A lunch that is being split off lies after the start of the stretch. *)
LunchFits ==
  \A s \in Transactions :
    txn[s].pc = "splitting" => LunchStart(txn[s]) >= txn[s].first.start

(* The inductive strengthening of TypeOK. *)
TypeInv == TypeOK /\ PointsAtRow /\ LunchFits

-----------------------------------------------------------------------------
(* Tables *)

(* secondsBetween never goes below zero. *)
LEMMA SpanIsNat == \A a, b \in Int : SecondsBetween(a, b) \in Nat
BY DEF SecondsBetween

(* Closing a row leaves a row, of the same employee. *)
LEMMA EndedType ==
  ASSUME NEW row \in Row, NEW from \in Int, NEW at \in Nat
  PROVE  /\ Ended(row, from, at) \in Row
         /\ Ended(row, from, at).emp = row.emp
         /\ AutoEnded(row, at) \in Row
         /\ AutoEnded(row, at).emp = row.emp
<1>1. SecondsBetween(from, at) \in Nat BY SpanIsNat
<1>2. AutoAfter \in Nat BY PunchClockAssumption
<1> QED BY <1>1, <1>2 DEF Ended, AutoEnded, Row

(* An inserted row is a row of the table. *)
LEMMA NewRowType ==
  ASSUME NEW e \in Employees, NEW shift \in Nat, NEW type \in EntryTypes,
         NEW job \in Jobs \cup {Null}, NEW start \in Nat,
         NEW end \in Nat \cup {Null}, NEW off \in BOOLEAN
  PROVE  /\ NewRow(e, shift, type, job, start, end, off) \in Row
         /\ NewRow(e, shift, type, job, start, end, off).emp = e
BY SpanIsNat DEF NewRow, Row

(* Replacing a row of a table keeps its length and its other rows. *)
LEMMA ReplaceRow ==
  ASSUME NEW tbl \in Seq(Row), NEW id \in 1..Len(tbl), NEW row \in Row
  PROVE  LET new == [tbl EXCEPT ![id] = row]
         IN  /\ new \in Seq(Row)
             /\ Len(new) = Len(tbl)
             /\ new[id] = row
             /\ \A i \in 1..Len(tbl) : i # id => new[i] = tbl[i]
BY ExceptSeq

(* Appending a row keeps the table and all its rows. *)
LEMMA AddRow ==
  ASSUME NEW tbl \in Seq(Row), NEW row \in Row
  PROVE  LET new == Append(tbl, row)
         IN  /\ new \in Seq(Row)
             /\ Len(new) = Len(tbl) + 1
             /\ new[Len(new)] = row
             /\ \A i \in 1..Len(tbl) : new[i] = tbl[i]
BY AppendProperties

-----------------------------------------------------------------------------
(* What a transaction writes: the row it points at changes, keeping its
   employee, and the rows it adds belong to its employee. *)
Extends(tbl, t) ==
  /\ tbl \in Seq(Row)
  /\ Len(entries) <= Len(tbl)
  /\ \A i \in 1..Len(entries) : i # t.id => tbl[i] = entries[i]
  /\ \A i \in 1..Len(entries) : tbl[i].emp = entries[i].emp
  /\ \A i \in (Len(entries) + 1)..Len(tbl) : tbl[i].emp = t.emp

(* closeOpen changes one row, and whatever is appended to the table it
   leaves still extends it. *)
LEMMA ClosedExtends ==
  ASSUME TypeOK, NEW id \in 1..Len(entries), NEW from \in Int, NEW at \in Nat
  PROVE  /\ Closed(id, from, at) \in Seq(Row)
         /\ Len(Closed(id, from, at)) = Len(entries)
         /\ \A i \in 1..Len(entries) :
              /\ i # id => Closed(id, from, at)[i] = entries[i]
              /\ Closed(id, from, at)[i].emp = entries[i].emp
<1>1. entries \in Seq(Row) BY DEF TypeOK
<1>2. entries[id] \in Row BY <1>1, ElementOfSeq
<1>3. /\ Ended(entries[id], from, at) \in Row
      /\ Ended(entries[id], from, at).emp = entries[id].emp
  BY <1>2, EndedType
<1> QED BY <1>1, <1>3, ReplaceRow DEF Closed

(* closeOpen alone yields a table with as many rows. *)
LEMMA ClosedAloneExtends ==
  ASSUME TypeOK, NEW t, t.id \in 1..Len(entries), NEW from \in Int, NEW at \in Nat
  PROVE  Extends(Closed(t.id, from, at), t)
<1>1. Len(entries) \in Nat BY LenProperties DEF TypeOK
<1>2. /\ Closed(t.id, from, at) \in Seq(Row)
      /\ Len(Closed(t.id, from, at)) = Len(entries)
      /\ \A i \in 1..Len(entries) :
           /\ i # t.id => Closed(t.id, from, at)[i] = entries[i]
           /\ Closed(t.id, from, at)[i].emp = entries[i].emp
  BY ClosedExtends
<1> QED BY <1>1, <1>2 DEF Extends

(* Closing a row and opening its successor. *)
LEMMA SuccessorExtends ==
  ASSUME TypeOK, NEW t \in Closing, t.id \in 1..Len(entries),
         NEW type \in EntryTypes, NEW job \in Jobs \cup {Null}, NEW off \in BOOLEAN
  PROVE  Extends(Successor(t, type, job, off), t)
<1> DEFINE tbl == Closed(t.id, t.seen.start, t.at)
           row == NewRow(t.emp, t.seen.shift, type, job, t.at, Null, off)
<1>1. /\ t.emp \in Employees /\ t.at \in Nat
      /\ t.seen.start \in Int /\ t.seen.start \in Nat /\ t.seen.shift \in Nat
  BY DEF Closing, Row
<1>2. \A from \in Int, at \in Nat :
        /\ Closed(t.id, from, at) \in Seq(Row)
        /\ Len(Closed(t.id, from, at)) = Len(entries)
        /\ \A i \in 1..Len(entries) :
             /\ i # t.id => Closed(t.id, from, at)[i] = entries[i]
             /\ Closed(t.id, from, at)[i].emp = entries[i].emp
  BY ClosedExtends
<1>3. /\ tbl \in Seq(Row)
      /\ Len(tbl) = Len(entries)
      /\ \A i \in 1..Len(entries) : /\ i # t.id => tbl[i] = entries[i]
                                    /\ tbl[i].emp = entries[i].emp
  BY <1>1, <1>2
<1>0. row \in Row /\ row.emp = t.emp
  BY <1>1, SpanIsNat DEF NewRow, Row
<1>4. entries \in Seq(Row) /\ Len(entries) \in Nat
  BY LenProperties DEF TypeOK
<1> HIDE DEF tbl, row
<1>5. /\ Append(tbl, row) \in Seq(Row)
      /\ Len(Append(tbl, row)) = Len(entries) + 1
      /\ Append(tbl, row)[Len(entries) + 1] = row
      /\ \A i \in 1..Len(entries) : Append(tbl, row)[i] = tbl[i]
  BY <1>3, <1>0, AddRow
<1>6. Extends(Append(tbl, row), t)
  BY <1>3, <1>0, <1>4, <1>5 DEF Extends
<1> QED BY <1>6 DEF Successor, tbl, row

(* The jobs a break may resume on are jobs. *)
LEMMA LastWorkJobsType ==
  ASSUME NEW tbl \in Seq(Row), NEW shift
  PROVE  LastWorkJobs(tbl, shift) \subseteq Jobs \cup {Null}
<1>1. DOMAIN tbl = 1..Len(tbl) BY LenProperties
<1>2. \A i \in DOMAIN tbl : tbl[i] \in Row BY <1>1, ElementOfSeq
<1>3. \A i \in DOMAIN tbl : tbl[i].job \in Jobs \cup {Null} BY <1>2 DEF Row
<1> QED BY <1>3 DEF LastWorkJobs

(* A break resumes on a job or on none. *)
LEMMA ResumeJobsType ==
  ASSUME TypeOK, NEW t \in Closing, t.id \in 1..Len(entries)
  PROVE  ResumeJobs(t) \subseteq Jobs \cup {Null}
<1>1. t.seen.start \in Int /\ t.at \in Nat
  BY DEF Closing, Row
<1>2. \A from \in Int, at \in Nat : Closed(t.id, from, at) \in Seq(Row)
  BY ClosedExtends
<1>3. Closed(t.id, t.seen.start, t.at) \in Seq(Row)
  BY <1>1, <1>2
<1> QED BY <1>3, LastWorkJobsType DEF ResumeJobs

(* The lunch begins at an instant of the clock. *)
LEMMA LunchStartType ==
  ASSUME NEW t \in Closing \cup Splitting
  PROVE  LunchStart(t) \in Int
<1>1. t.seen.start \in Int /\ t.at \in Int BY DEF Closing, Splitting, Row
<1>2. SecondsBetween(t.seen.start, t.at) \in Nat BY <1>1, SpanIsNat
<1>3. Lunch \in Nat BY PunchClockAssumption
<1> QED BY <1>1, <1>2, <1>3 DEF LunchStart

(* A lunch split: a close and two closed rows. *)
LEMMA LunchExtends ==
  ASSUME TypeOK, NEW t \in Splitting, t.id \in 1..Len(entries), LunchStart(t) \in Nat
  PROVE  Extends(LunchSplit(t), t)
<1> DEFINE out   == LunchStart(t)
           back  == out + Lunch
           tbl   == Closed(t.id, t.first.start, out)
           lunch == NewRow(t.emp, t.seen.shift, "break", Null, out, back, FALSE)
           rest  == NewRow(t.emp, t.seen.shift, "work", t.seen.job, back, t.at, FALSE)
<1>1. /\ t.emp \in Employees /\ t.at \in Nat /\ t.first.start \in Int
      /\ t.seen.shift \in Nat /\ t.seen.job \in Jobs \cup {Null}
  BY DEF Splitting, Row
<1>2. out \in Nat /\ back \in Nat BY PunchClockAssumption
<1> HIDE DEF out, back
<1>3. lunch \in Row /\ lunch.emp = t.emp
  BY <1>1, <1>2, SpanIsNat DEF NewRow, Row, EntryTypes
<1>4. rest \in Row /\ rest.emp = t.emp
  <2>1. SecondsBetween(back, t.at) \in Nat BY <1>1, <1>2 DEF SecondsBetween
  <2>2. t.at # Null BY <1>1, NullAssumption
  <2> QED BY <1>1, <1>2, <2>1, <2>2 DEF NewRow, Row, EntryTypes
<1>5. \A from \in Int, at \in Nat :
        /\ Closed(t.id, from, at) \in Seq(Row)
        /\ Len(Closed(t.id, from, at)) = Len(entries)
        /\ \A i \in 1..Len(entries) :
             /\ i # t.id => Closed(t.id, from, at)[i] = entries[i]
             /\ Closed(t.id, from, at)[i].emp = entries[i].emp
  BY ClosedExtends
<1>6. /\ tbl \in Seq(Row)
      /\ Len(tbl) = Len(entries)
      /\ \A i \in 1..Len(entries) : /\ i # t.id => tbl[i] = entries[i]
                                    /\ tbl[i].emp = entries[i].emp
  BY <1>1, <1>2, <1>5
<1>7. entries \in Seq(Row) /\ Len(entries) \in Nat
  BY LenProperties DEF TypeOK
<1> HIDE DEF tbl, lunch, rest
<1>8. /\ <<lunch, rest>> \in Seq(Row)
      /\ Len(<<lunch, rest>>) = 2
      /\ <<lunch, rest>>[1] = lunch
      /\ <<lunch, rest>>[2] = rest
  BY <1>3, <1>4
<1> DEFINE new == tbl \o <<lunch, rest>>
<1>9. /\ new \in Seq(Row)
      /\ Len(new) = Len(entries) + 2
      /\ \A i \in 1..Len(entries) : new[i] = tbl[i]
      /\ new[Len(entries) + 1] = lunch
      /\ new[Len(entries) + 2] = rest
  BY <1>6, <1>7, <1>8, ConcatProperties
<1> HIDE DEF new
<1>10. \A i \in (Len(entries) + 1)..Len(new) : i = Len(entries) + 1 \/ i = Len(entries) + 2
  BY <1>7, <1>9
<1>11. \A i \in (Len(entries) + 1)..Len(new) : new[i].emp = t.emp
  BY <1>3, <1>4, <1>9, <1>10
<1>12. Extends(new, t)
  BY <1>6, <1>7, <1>9, <1>11 DEF Extends
<1> QED BY <1>12 DEF LunchSplit, new, tbl, lunch, rest, out, back

(* A clock-in yields a table that extends the one it found. *)
LEMMA StartExtends ==
  ASSUME TypeOK, NEW t \in Starting, NEW off \in BOOLEAN
  PROVE  Extends(ClockedIn(t, off), t)
<1> DEFINE row == NewRow(t.emp, Len(entries) + 1, "work", t.job, t.at, Null, off)
<1>1. entries \in Seq(Row) /\ Len(entries) \in Nat
  BY LenProperties DEF TypeOK
<1>2. row \in Row /\ row.emp = t.emp
  BY <1>1, SpanIsNat DEF Starting, NewRow, Row, EntryTypes
<1> HIDE DEF row
<1>3. LET tbl == Append(entries, row)
      IN  /\ tbl \in Seq(Row)
          /\ Len(tbl) = Len(entries) + 1
          /\ tbl[Len(entries) + 1] = row
          /\ \A i \in 1..Len(entries) : tbl[i] = entries[i]
  BY <1>1, <1>2, AddRow
<1>4. Extends(Append(entries, row), t)
  BY <1>1, <1>2, <1>3 DEF Extends
<1> QED BY <1>4 DEF ClockedIn, row

(* So does a close by the sweep. *)
LEMMA AutoExtends ==
  ASSUME TypeOK, NEW t \in Closing, t.id \in 1..Len(entries)
  PROVE  Extends(AutoClosed(t), t)
<1>1. entries \in Seq(Row) /\ Len(entries) \in Nat
  BY LenProperties DEF TypeOK
<1>2. entries[t.id] \in Row /\ t.at \in Nat /\ t.at \in Int
  BY <1>1, ElementOfSeq DEF Closing
<1>3. /\ AutoEnded(entries[t.id], t.at) \in Row
      /\ AutoEnded(entries[t.id], t.at).emp = entries[t.id].emp
  BY <1>2, EndedType
<1> QED BY <1>1, <1>3, ReplaceRow DEF Extends, AutoClosed

(* What each operation may leave behind, one operation at a time. *)
LEMMA OutcomesByOp ==
  ASSUME NEW s, NEW t, NEW off, off = (s \in OfflineSessions)
  PROVE  /\ t.op = "clockIn" => Outcomes(s, t) = {ClockedIn(t, off)}
         /\ t.op = "clockOut" => Outcomes(s, t) = {ClockedOut(t)}
         /\ t.op = "breakIn" => Outcomes(s, t) = {Successor(t, "break", Null, off)}
         /\ t.op = "breakOut" =>
              Outcomes(s, t) = {Successor(t, "work", j, off) : j \in ResumeJobs(t)}
         /\ t.op = "switchJob" => Outcomes(s, t) = {Successor(t, "work", t.job, off)}
         /\ t.op = "lunchOut" => Outcomes(s, t) = {LunchSplit(t)}
         /\ t.op = "autoClose" => Outcomes(s, t) = {AutoClosed(t)}
BY DEF Outcomes

(* Whatever the operation, its table extends the one it found. *)
LEMMA OutcomeExtends ==
  ASSUME TypeInv, NEW s \in Transactions, Ready(s),
         NEW tbl \in Outcomes(s, txn[s])
  PROVE  Extends(tbl, txn[s])
<1> DEFINE t == txn[s]
<1>1. TypeOK BY DEF TypeInv
<1>2. t \in Starting \cup Closing \cup Splitting
  BY <1>1 DEF TypeOK, Ready, Idle, Waiting
<1>3. PICK off \in BOOLEAN : off = (s \in OfflineSessions)
  <2>1. CASE s \in OfflineSessions
    <3>1. TRUE = (s \in OfflineSessions) BY <2>1
    <3> QED BY <3>1
  <2>2. CASE s \notin OfflineSessions
    <3>1. FALSE = (s \in OfflineSessions) BY <2>2
    <3> QED BY <3>1
  <2> QED BY <2>1, <2>2
<1>4. CASE t \in Starting
  <2>1. tbl = ClockedIn(t, off)
    BY <1>3, <1>4, OutcomesByOp DEF Starting
  <2> QED BY <1>1, <1>3, <1>4, <2>1, StartExtends
<1>5. CASE t \in Closing
  <2>1. t.id \in 1..Len(entries)
    BY <1>5 DEF TypeInv, PointsAtRow, InTransaction, Closing, Ops
  <2>2. t.op \in {"clockOut", "breakIn", "breakOut", "switchJob", "autoClose"}
    BY <1>5 DEF Ready, Closing, Ops
  <2>3. CASE t.op = "clockOut"
    <3>1. tbl = Closed(t.id, t.seen.start, t.at)
      BY <1>3, <2>3, OutcomesByOp DEF ClockedOut
    <3>2. t.seen.start \in Int /\ t.at \in Nat
      BY <1>5 DEF Closing, Row
    <3> QED BY <1>1, <2>1, <3>1, <3>2, ClosedAloneExtends
  <2>4. CASE t.op = "breakIn"
    <3>1. tbl = Successor(t, "break", Null, off)
      BY <1>3, <2>4, OutcomesByOp
    <3> QED BY <1>1, <1>3, <1>5, <2>1, <3>1, SuccessorExtends DEF EntryTypes
  <2>5. CASE t.op = "breakOut"
    <3>1. PICK j \in ResumeJobs(t) : tbl = Successor(t, "work", j, off)
      BY <1>3, <2>5, OutcomesByOp
    <3>2. j \in Jobs \cup {Null}
      BY <1>1, <1>5, <2>1, ResumeJobsType
    <3> QED BY <1>1, <1>3, <1>5, <2>1, <3>1, <3>2, SuccessorExtends DEF EntryTypes
  <2>6. CASE t.op = "switchJob"
    <3>1. tbl = Successor(t, "work", t.job, off)
      BY <1>3, <2>6, OutcomesByOp
    <3>2. t.job \in Jobs \cup {Null}
      BY <1>5 DEF Closing
    <3> QED BY <1>1, <1>3, <1>5, <2>1, <3>1, <3>2, SuccessorExtends DEF EntryTypes
  <2>7. CASE t.op = "autoClose"
    <3>1. tbl = AutoClosed(t)
      BY <1>3, <2>7, OutcomesByOp
    <3> QED BY <1>1, <1>5, <2>1, <3>1, AutoExtends
  <2> QED BY <2>2, <2>3, <2>4, <2>5, <2>6, <2>7
<1>6. CASE t \in Splitting
  <2>1. tbl = LunchSplit(t)
    BY <1>3, <1>6, OutcomesByOp DEF Splitting
  <2>2. t.id \in 1..Len(entries)
    BY <1>6 DEF TypeInv, PointsAtRow, InTransaction, Splitting
  <2>3. t.pc = "splitting" /\ t.first.start \in Nat
    BY <1>6 DEF Splitting, Row
  <2>4. LunchStart(t) \in Nat
    BY <1>6, <2>3, LunchStartType DEF TypeInv, LunchFits
  <2> QED BY <1>1, <1>6, <2>1, <2>2, <2>4, LunchExtends
<1> QED BY <1>2, <1>4, <1>5, <1>6

-----------------------------------------------------------------------------
(* Type correctness *)

(* An idle session is told apart from every transaction. *)
LEMMA IdleIsNoTransaction ==
  /\ Idle.pc = "idle"
  /\ \A t \in Waiting : t.pc = "waiting"
  /\ \A t \in Starting \cup Closing : t.pc = "holding"
  /\ \A t \in Splitting : t.pc = "splitting"
BY DEF Idle, Waiting, Starting, Closing, Splitting

(* The initial state is well typed. *)
LEMMA TypeInit == Init => TypeInv
<1> SUFFICES ASSUME Init PROVE TypeInv OBVIOUS
<1>1. entries \in Seq(Row) BY EmptySeq DEF Init
<1>2. TypeOK BY <1>1 DEF Init, TypeOK
<1>3. \A s \in Transactions : txn[s].pc = "idle" BY DEF Init, Idle
<1>4. PointsAtRow /\ LunchFits BY <1>3 DEF PointsAtRow, InTransaction, LunchFits
<1> QED BY <1>2, <1>4 DEF TypeInv

(* A transaction that ends leaves the others where they were, over a table
   that has not shrunk. *)
LEMMA EndKeepsTypes ==
  ASSUME TypeInv, NEW s \in Transactions,
         entries' \in Seq(Row), Len(entries) <= Len(entries'),
         txn' = [txn EXCEPT ![s] = Idle],
         lock' \in [Employees -> Transactions \cup {Null}],
         due' \subseteq due,
         UNCHANGED <<now, active, draft>>
  PROVE  TypeInv'
<1>1. Len(entries) \in Nat /\ Len(entries') \in Nat
  BY LenProperties DEF TypeInv, TypeOK
<1>2. TypeOK' BY <1>1 DEF TypeInv, TypeOK
<1>3. \A u \in Transactions : u # s => txn'[u] = txn[u]
  BY DEF TypeInv, TypeOK
<1>4. txn'[s].pc = "idle" BY DEF TypeInv, TypeOK, Idle
<1>5. PointsAtRow'
  BY <1>1, <1>3, <1>4 DEF TypeInv, PointsAtRow, InTransaction
<1>6. LunchFits'
  BY <1>3, <1>4 DEF TypeInv, LunchFits, LunchStart
<1> QED BY <1>2, <1>5, <1>6 DEF TypeInv

(* A transaction that moves on over an unchanged table. *)
LEMMA MoveKeepsTypes ==
  ASSUME TypeInv, NEW s \in Transactions,
         NEW new \in {Idle} \cup Waiting \cup Starting \cup Closing \cup Splitting,
         new.pc \in {"holding", "splitting"} /\ new.op # "clockIn" =>
           new.id \in 1..Len(entries),
         new.pc = "splitting" => LunchStart(new) >= new.first.start,
         txn' = [txn EXCEPT ![s] = new],
         now' \in Nat,
         lock' \in [Employees -> Transactions \cup {Null}],
         due' \subseteq 1..Len(entries),
         UNCHANGED <<entries, active, draft>>
  PROVE  TypeInv'
<1>1. TypeOK' BY DEF TypeInv, TypeOK
<1>2. txn'[s] = new /\ \A u \in Transactions : u # s => txn'[u] = txn[u]
  BY DEF TypeInv, TypeOK
<1>3. PointsAtRow' BY <1>2 DEF TypeInv, PointsAtRow, InTransaction
<1>4. LunchFits' BY <1>2 DEF TypeInv, LunchFits, LunchStart
<1> QED BY <1>1, <1>3, <1>4 DEF TypeInv

(* A step that leaves every transaction alone, over a table that has not
   shrunk. *)
LEMMA OthersKeepTypes ==
  ASSUME TypeInv, TypeOK', Len(entries) <= Len(entries'), UNCHANGED txn
  PROVE  TypeInv'
<1>1. Len(entries) \in Nat /\ Len(entries') \in Nat
  BY LenProperties DEF TypeInv, TypeOK
<1>2. PointsAtRow' BY <1>1 DEF TypeInv, PointsAtRow, InTransaction
<1>3. LunchFits' BY DEF TypeInv, LunchFits, LunchStart
<1> QED BY <1>2, <1>3 DEF TypeInv

(* findOpenEntry returns a row of the table or none. *)
LEMMA OpenEntriesAreRows ==
  ASSUME NEW tbl \in Seq(Row), NEW e, NEW id \in OpenEntries(tbl, e)
  PROVE  /\ id \in 1..Len(tbl)
         /\ tbl[id] \in Row
         /\ tbl[id].emp = e
         /\ IsOpen(tbl[id])
<1>1. DOMAIN tbl = 1..Len(tbl) BY LenProperties
<1>2. id \in 1..Len(tbl) BY <1>1 DEF OpenEntries
<1>3. tbl[id] \in Row BY <1>2, ElementOfSeq
<1> QED BY <1>2, <1>3 DEF OpenEntries

(* A request that queues for the lock is well typed. *)
LEMMA RequestKeepsTypes ==
  ASSUME TypeInv, NEW s \in Sessions, NEW op \in Ops, NEW e \in Employees,
         NEW j \in Jobs \cup {Null}, Request(s, op, e, j)
  PROVE  TypeInv'
<1> DEFINE new == [pc |-> "waiting", op |-> op, emp |-> e, job |-> j]
<1>1. new \in Waiting /\ new.pc = "waiting" BY DEF Waiting
<1>2. txn' = [txn EXCEPT ![s] = new] BY DEF Request
<1> HIDE DEF new
<1>3. /\ UNCHANGED <<now, entries, active, lock, due, draft>>
      /\ s \in Transactions
      /\ now' \in Nat
      /\ lock' \in [Employees -> Transactions \cup {Null}]
      /\ due' \subseteq 1..Len(entries)
  BY DEF Request, TypeInv, TypeOK, Transactions
<1> QED BY <1>1, <1>2, <1>3, MoveKeepsTypes

(* What the read under the lock brings: nothing to a clock-in, an open entry
   of the employee to any other punch. *)
LEMMA AcceptedRead ==
  ASSUME TypeOK, NEW op, NEW e, NEW at, NEW id \in FindOpen(e),
         Accepted(op, RowOrNull(id), at)
  PROVE  /\ op = "clockIn" => id = 0 /\ RowOrNull(id) = Null /\ OpenEntries(entries, e) = {}
         /\ op # "clockIn" => /\ id \in OpenEntries(entries, e)
                              /\ RowOrNull(id) = entries[id]
                              /\ Closable(op, entries[id], at)
<1>1. entries \in Seq(Row) BY DEF TypeOK
<1>2. \A i \in OpenEntries(entries, e) : i # 0 /\ entries[i] \in Row
  BY <1>1, OpenEntriesAreRows, LenProperties
<1>3. \A i \in OpenEntries(entries, e) : RowOrNull(i) = entries[i] /\ entries[i] # Null
  BY <1>2, PunchClockAssumption DEF RowOrNull
<1>4. id = 0 \/ id \in OpenEntries(entries, e) BY DEF FindOpen
<1>5. CASE op = "clockIn"
  <2>1. RowOrNull(id) = Null BY <1>5 DEF Accepted
  <2>2. id \notin OpenEntries(entries, e) BY <1>3, <2>1
  <2> QED BY <1>4, <1>5, <2>1, <2>2 DEF FindOpen
<1>6. CASE op # "clockIn"
  <2>1. Closable(op, RowOrNull(id), at) BY <1>6 DEF Accepted
  <2>2. RowOrNull(id) # Null BY <2>1 DEF Closable
  <2>3. id # 0 BY <2>2 DEF RowOrNull
  <2> QED BY <1>3, <1>4, <1>6, <2>1, <2>3
<1> QED BY <1>5, <1>6

(* So is what a punch knows after its read under the lock, *)
LEMMA LockAndReadKeepsTypes ==
  ASSUME TypeInv, NEW s \in Sessions, LockAndRead(s)
  PROVE  TypeInv'
<1>1. TypeOK /\ s \in Transactions BY DEF TypeInv, Transactions
<1>2. txn[s] \in Waiting
  BY <1>1, IdleIsNoTransaction DEF LockAndRead, TypeOK
<1>3. PICK at \in Claims(s, txn[s].op), id \in FindOpen(txn[s].emp) :
        /\ Accepted(txn[s].op, RowOrNull(id), at)
        /\ txn' = [txn EXCEPT ![s] =
                     [pc |-> "holding", op |-> @.op, emp |-> @.emp, job |-> @.job,
                      at |-> at, id |-> id, seen |-> RowOrNull(id)]]
  BY DEF LockAndRead
<1> DEFINE new == [pc |-> "holding", op |-> txn[s].op, emp |-> txn[s].emp,
                   job |-> txn[s].job, at |-> at, id |-> id, seen |-> RowOrNull(id)]
<1>4. txn' = [txn EXCEPT ![s] = new] BY <1>1, <1>3 DEF TypeOK
<1>5. at \in Nat BY <1>1 DEF Claims, TypeOK
<1>6. /\ new \in Starting \cup Closing
      /\ new.pc = "holding"
      /\ new.op # "clockIn" => new.id \in 1..Len(entries)
  <2>1. /\ txn[s].op \in Ops /\ txn[s].emp \in Employees
        /\ txn[s].job \in Jobs \cup {Null}
    BY <1>2 DEF Waiting
  <2>2. CASE txn[s].op = "clockIn"
    <3>1. id = 0 /\ RowOrNull(id) = Null BY <1>1, <1>3, <2>2, AcceptedRead
    <3> QED BY <1>5, <2>1, <2>2, <3>1 DEF Starting
  <2>3. CASE txn[s].op # "clockIn"
    <3>1. id \in OpenEntries(entries, txn[s].emp) /\ RowOrNull(id) = entries[id]
      BY <1>1, <1>3, <2>3, AcceptedRead
    <3>2. id \in 1..Len(entries) /\ id \in Nat /\ entries[id] \in Row
      BY <1>1, <3>1, OpenEntriesAreRows DEF TypeOK
    <3>3. /\ txn[s].op \in (Ops \ {"clockIn"}) \cup {"autoClose"}
          /\ RowOrNull(id) \in Row
      BY <2>1, <2>3, <3>1, <3>2
    <3> QED BY <1>5, <2>1, <2>3, <3>2, <3>3 DEF Closing
  <2> QED BY <2>2, <2>3
<1> HIDE DEF new
<1>7. /\ UNCHANGED <<entries, active, due, draft>>
      /\ now' = now + 1
      /\ lock' = [lock EXCEPT ![txn[s].emp] = s]
  BY DEF LockAndRead
<1>8. now' \in Nat BY <1>1, <1>7 DEF TypeOK
<1>9. lock' \in [Employees -> Transactions \cup {Null}] BY <1>1, <1>7 DEF TypeOK
<1>10. due' \subseteq 1..Len(entries) BY <1>1, <1>7 DEF TypeOK
<1> QED BY <1>1, <1>4, <1>6, <1>7, <1>8, <1>9, <1>10, MoveKeepsTypes

(* what a lunch split knows after its second read, *)
LEMMA ReadAgainKeepsTypes ==
  ASSUME TypeInv, NEW s \in Sessions, ReadAgain(s)
  PROVE  TypeInv'
<1>1. TypeOK /\ s \in Transactions BY DEF TypeInv, Transactions
<1>2. txn[s] \in Closing
  BY <1>1, IdleIsNoTransaction DEF ReadAgain, TypeOK, Starting
<1>3. PICK id \in OpenEntries(entries, txn[s].emp) :
        /\ LunchStart(txn[s]) >= entries[id].start
        /\ txn' = [txn EXCEPT ![s] =
                     [pc |-> "splitting", op |-> "lunchOut", emp |-> @.emp,
                      job |-> @.job, at |-> @.at, id |-> id, seen |-> @.seen,
                      first |-> entries[id]]]
  BY DEF ReadAgain
<1> DEFINE new == [pc |-> "splitting", op |-> "lunchOut", emp |-> txn[s].emp,
                   job |-> txn[s].job, at |-> txn[s].at, id |-> id,
                   seen |-> txn[s].seen, first |-> entries[id]]
<1>4. txn' = [txn EXCEPT ![s] = new] BY <1>1, <1>3 DEF TypeOK
<1>5. id \in 1..Len(entries) /\ entries[id] \in Row
  BY <1>1, OpenEntriesAreRows DEF TypeOK
<1>6. /\ new \in Splitting /\ new.id \in 1..Len(entries)
      /\ new.pc = "splitting" /\ new.first = entries[id]
  BY <1>2, <1>5 DEF Splitting, Closing
<1>7. LunchStart(new) = LunchStart(txn[s]) BY DEF LunchStart
<1> HIDE DEF new
<1>8. /\ UNCHANGED <<entries, active, due, draft>>
      /\ now' \in Nat
      /\ lock' \in [Employees -> Transactions \cup {Null}]
      /\ due' \subseteq 1..Len(entries)
  BY <1>1 DEF ReadAgain, TypeOK
<1> QED BY <1>1, <1>3, <1>4, <1>6, <1>7, <1>8, MoveKeepsTypes

(* and what the sweep knows of a candidate. *)
LEMMA AutoReadKeepsTypes ==
  ASSUME TypeInv, NEW id \in due, AutoRead(id)
  PROVE  TypeInv'
<1>1. TypeOK /\ Cron \in Transactions BY DEF TypeInv, Transactions
<1>2. id \in 1..Len(entries) /\ entries[id] \in Row
  BY <1>1, ElementOfSeq DEF TypeOK
<1>3. /\ UNCHANGED <<now, entries, active, draft>>
      /\ now' \in Nat
      /\ lock' \in [Employees -> Transactions \cup {Null}]
      /\ due' \subseteq 1..Len(entries)
  BY <1>1, <1>2 DEF AutoRead, TypeOK
<1>4. CASE StillOpen(id)
  <2> DEFINE new == [pc |-> "holding", op |-> "autoClose",
                     emp |-> entries[id].emp, job |-> Null,
                     at |-> entries[id].start + AutoAfter,
                     id |-> id, seen |-> entries[id]]
  <2>1. txn' = [txn EXCEPT ![Cron] = new] BY <1>4 DEF AutoRead
  <2>2. /\ entries[id].emp \in Employees
        /\ entries[id].start + AutoAfter \in Nat
    BY <1>2, PunchClockAssumption DEF Row
  <2>3. new \in Closing /\ new.pc = "holding" /\ new.id \in 1..Len(entries)
    BY <1>2, <2>2 DEF Closing
  <2> HIDE DEF new
  <2> QED BY <1>1, <1>3, <2>1, <2>3, MoveKeepsTypes
<1>5. CASE ~StillOpen(id)
  <2>1. UNCHANGED txn BY <1>5 DEF AutoRead
  <2>2. TypeOK' BY <1>1, <1>3, <2>1 DEF TypeOK
  <2>3. Len(entries) <= Len(entries') BY <1>1, <1>3, LenProperties DEF TypeOK
  <2> QED BY <2>1, <2>2, <2>3, OthersKeepTypes
<1> QED BY <1>4, <1>5

(* A commit leaves a well-typed table and frees the lock. *)
LEMMA CommitKeepsTypes ==
  ASSUME TypeInv, NEW s \in Transactions, Commit(s)
  PROVE  TypeInv'
<1>1. TypeOK BY DEF TypeInv
<1>2. PICK tbl \in Outcomes(s, txn[s]) : entries' = tbl
  BY DEF Commit
<1>3. Extends(tbl, txn[s]) BY <1>2, OutcomeExtends DEF Commit
<1>4. entries' \in Seq(Row) /\ Len(entries) <= Len(entries')
  BY <1>2, <1>3 DEF Extends
<1>5. /\ txn' = [txn EXCEPT ![s] = Idle]
      /\ lock' \in [Employees -> Transactions \cup {Null}]
      /\ due' \subseteq due
  BY <1>1 DEF Commit, Release, TypeOK
<1>6. UNCHANGED <<now, active, draft>> BY DEF Commit
<1> QED BY <1>4, <1>5, <1>6, EndKeepsTypes

(* A rollback and a lost connection leave the table alone. *)
LEMMA AbortKeepsTypes ==
  ASSUME TypeInv, NEW s \in Transactions, Rollback(s) \/ Disconnect(s)
  PROVE  TypeInv'
<1>1. TypeOK BY DEF TypeInv
<1>2. entries' = entries /\ UNCHANGED <<now, active, draft>>
  BY DEF Rollback, Disconnect
<1>3. entries' \in Seq(Row) /\ Len(entries) <= Len(entries')
  BY <1>1, <1>2, LenProperties DEF TypeOK
<1>4. txn' = [txn EXCEPT ![s] = Idle] /\ due' \subseteq due
  BY DEF Rollback, Disconnect, Release
<1>5. lock' \in [Employees -> Transactions \cup {Null}]
  BY <1>1 DEF Rollback, Disconnect, Release, TypeOK
<1> QED BY <1>2, <1>3, <1>4, <1>5, EndKeepsTypes

(* A refused punch leaves the table alone. *)
LEMMA RefuseKeepsTypes ==
  ASSUME TypeInv, NEW s \in Sessions, Refuse(s)
  PROVE  TypeInv'
<1>1. TypeOK /\ s \in Transactions BY DEF TypeInv, Transactions
<1>2. /\ txn' = [txn EXCEPT ![s] = Idle]
      /\ UNCHANGED <<now, entries, active, lock, due, draft>>
  BY DEF Refuse
<1>3. Len(entries) <= Len(entries') BY <1>1, <1>2, LenProperties DEF TypeOK
<1>4. /\ entries' \in Seq(Row) /\ due' \subseteq due
      /\ lock' \in [Employees -> Transactions \cup {Null}]
  BY <1>1, <1>2 DEF TypeOK
<1> QED BY <1>1, <1>2, <1>3, <1>4, EndKeepsTypes

(* The sweep lists ids of the table. *)
LEMMA SweepScanKeepsTypes ==
  ASSUME TypeInv, SweepScan
  PROVE  TypeInv'
<1>1. TypeOK BY DEF TypeInv
<1>2. DOMAIN entries = 1..Len(entries) BY <1>1, LenProperties DEF TypeOK
<1>3. TypeOK' BY <1>1, <1>2 DEF SweepScan, TypeOK
<1>4. UNCHANGED <<txn, entries>> BY DEF SweepScan
<1>5. Len(entries) <= Len(entries') BY <1>1, <1>4, LenProperties DEF TypeOK
<1> QED BY <1>3, <1>4, <1>5, OthersKeepTypes

(* An edit or a delete replaces a row by another of the same employee. *)
LEMMA PatchedType ==
  ASSUME NEW row \in Row, NEW p \in Patch
  PROVE  /\ Patched(row, p) \in Row
         /\ Patched(row, p).emp = row.emp
<1>1. Undefined \notin Int /\ Undefined \notin Jobs /\ Undefined \notin EntryTypes
      /\ Undefined # Null
  BY PunchClockAssumption
<1> DEFINE start == Pick(p.start, row.start)
           end   == Pick(p.end, row.end)
           dur   == IF p.start = Undefined /\ p.end = Undefined
                    THEN row.duration
                    ELSE IF end = Null THEN Null
                    ELSE SecondsBetween(start, end)
           job   == Pick(p.job, row.job)
           type  == Pick(p.type, row.type)
<1>2. start \in Nat /\ end \in Nat \cup {Null}
  BY DEF Pick, Patch, Row
<1>3. job \in Jobs \cup {Null} /\ type \in EntryTypes
  BY DEF Pick, Patch, Row
<1> HIDE DEF start, end
<1>4. dur \in Nat \cup {Null}
  BY <1>2 DEF SecondsBetween, Row
<1>5. Patched(row, p) = [row EXCEPT !.start = start, !.end = end, !.job = job,
                                    !.type = type, !.duration = dur]
  BY DEF Patched, start, end
<1> HIDE DEF dur, job, type
<1> QED BY <1>2, <1>3, <1>4, <1>5 DEF Row

(* Replacing a row by a row keeps the types. *)
LEMMA ReplaceKeepsTypes ==
  ASSUME TypeInv, NEW id \in 1..Len(entries), NEW row \in Row,
         entries' = [entries EXCEPT ![id] = row],
         UNCHANGED <<now, active, lock, txn, due, draft>>
  PROVE  TypeInv'
<1>1. TypeOK BY DEF TypeInv
<1>2. entries' \in Seq(Row) /\ Len(entries') = Len(entries)
  BY <1>1, ReplaceRow DEF TypeOK
<1>3. Len(entries) <= Len(entries') BY <1>1, <1>2, LenProperties DEF TypeOK
<1>4. TypeOK' BY <1>1, <1>2 DEF TypeOK
<1> QED BY <1>3, <1>4, OthersKeepTypes

(* An edit leaves a row of the table. *)
LEMMA EditKeepsTypes ==
  ASSUME TypeInv, NEW id \in DOMAIN entries, NEW p \in Patches, EditEntry(id, p)
  PROVE  TypeInv'
<1>1. entries \in Seq(Row) BY DEF TypeInv, TypeOK
<1>2. id \in 1..Len(entries) /\ entries[id] \in Row
  BY <1>1, LenProperties, ElementOfSeq
<1>3. p \in Patch BY PunchClockAssumption
<1>4. Patched(entries[id], p) \in Row BY <1>2, <1>3, PatchedType
<1>5. /\ entries' = [entries EXCEPT ![id] = Patched(entries[id], p)]
      /\ UNCHANGED <<now, active, lock, txn, due, draft>>
  BY DEF EditEntry
<1> QED BY <1>2, <1>4, <1>5, ReplaceKeepsTypes

(* A soft delete leaves a row of the table. *)
LEMMA DeleteKeepsTypes ==
  ASSUME TypeInv, NEW id \in DOMAIN entries, DeleteEntry(id)
  PROVE  TypeInv'
<1>1. entries \in Seq(Row) BY DEF TypeInv, TypeOK
<1>2. id \in 1..Len(entries) /\ entries[id] \in Row
  BY <1>1, LenProperties, ElementOfSeq
<1>3. Deleted(entries[id]) \in Row BY <1>2 DEF Deleted, Row
<1>4. /\ entries' = [entries EXCEPT ![id] = Deleted(entries[id])]
      /\ UNCHANGED <<now, active, lock, txn, due, draft>>
  BY DEF DeleteEntry
<1> QED BY <1>2, <1>3, <1>4, ReplaceKeepsTypes

(* An editor's new entry is well typed between its check and insert. *)
LEMMA CheckNewKeepsTypes ==
  ASSUME TypeInv, NEW d \in Editors, NEW new \in NewEntries, CheckNewEntry(d, new)
  PROVE  TypeInv'
<1>1. TypeOK BY DEF TypeInv
<1>2. new \in Draft BY PunchClockAssumption
<1> DEFINE job == IF new.type = "work" THEN new.job ELSE Null
<1>3. job \in Jobs \cup {Null} BY <1>2 DEF Draft
<1> HIDE DEF job
<1>4. [new EXCEPT !.job = job] \in Draft BY <1>2, <1>3 DEF Draft
<1>5. /\ draft' = [draft EXCEPT ![d] = [new EXCEPT !.job = job]]
      /\ UNCHANGED <<now, entries, active, lock, due, txn>>
  BY DEF CheckNewEntry, job
<1>6. TypeOK' BY <1>1, <1>4, <1>5 DEF TypeOK
<1>7. Len(entries) <= Len(entries') BY <1>1, <1>5, LenProperties DEF TypeOK
<1> QED BY <1>5, <1>6, <1>7, OthersKeepTypes

(* The insert of an entry appends a row of the table. *)
LEMMA InsertNewKeepsTypes ==
  ASSUME TypeInv, NEW d \in Editors, InsertNewEntry(d)
  PROVE  TypeInv'
<1>1. TypeOK BY DEF TypeInv
<1>2. draft[d] \in Draft BY <1>1 DEF InsertNewEntry, TypeOK
<1>3. Len(entries) \in Nat BY <1>1, LenProperties DEF TypeOK
<1> DEFINE row == NewRow(draft[d].emp, Len(entries) + 1, draft[d].type,
                         draft[d].job, draft[d].start, draft[d].end, FALSE)
<1>4. row \in Row
  <2>1. /\ draft[d].emp \in Employees /\ draft[d].type \in EntryTypes
        /\ draft[d].job \in Jobs \cup {Null}
        /\ draft[d].start \in Nat /\ draft[d].end \in Nat
    BY <1>2 DEF Draft
  <2>2. SecondsBetween(draft[d].start, draft[d].end) \in Nat
    BY <2>1 DEF SecondsBetween
  <2> QED BY <1>3, <2>1, <2>2 DEF NewRow, Row
<1> HIDE DEF row
<1>5. /\ entries' = Append(entries, row)
      /\ draft' = [draft EXCEPT ![d] = Null]
      /\ UNCHANGED <<now, active, lock, txn, due>>
  BY DEF InsertNewEntry, row
<1>6. entries' \in Seq(Row) /\ Len(entries') = Len(entries) + 1
  BY <1>1, <1>4, <1>5, AddRow DEF TypeOK
<1>7. Len(entries) <= Len(entries') BY <1>3, <1>6
<1>8. TypeOK' BY <1>1, <1>3, <1>5, <1>6 DEF TypeOK
<1> QED BY <1>5, <1>7, <1>8, OthersKeepTypes

(* Every step keeps the types. *)
LEMMA TypeStep == TypeInv /\ [Next]_vars => TypeInv'
<1> SUFFICES ASSUME TypeInv, [Next]_vars PROVE TypeInv' OBVIOUS
<1>1. TypeOK /\ Len(entries) \in Nat BY LenProperties DEF TypeInv, TypeOK
<1>2. CASE Punching
  BY <1>2, RequestKeepsTypes, LockAndReadKeepsTypes, RefuseKeepsTypes,
     ReadAgainKeepsTypes, CommitKeepsTypes, AbortKeepsTypes DEF Punching
<1>3. CASE Sweeping
  BY <1>3, SweepScanKeepsTypes, AutoReadKeepsTypes DEF Sweeping
<1>4. CASE Reviewing
  BY <1>4, EditKeepsTypes, DeleteKeepsTypes, CheckNewKeepsTypes,
     InsertNewKeepsTypes DEF Reviewing
<1>5. ASSUME NEW e \in Employees, Terminate(e) PROVE TypeInv'
  <2>1. UNCHANGED <<entries, txn>> BY <1>5 DEF Terminate
  <2>2. TypeOK' BY <1>1, <1>5 DEF Terminate, TypeOK
  <2> QED BY <1>1, <2>1, <2>2, OthersKeepTypes
<1>6. CASE Tick
  <2>1. UNCHANGED <<entries, txn>> BY <1>6 DEF Tick
  <2>2. TypeOK' BY <1>1, <1>6 DEF Tick, TypeOK
  <2> QED BY <1>1, <2>1, <2>2, OthersKeepTypes
<1>7. CASE UNCHANGED vars
  <2>1. UNCHANGED <<entries, txn>> BY <1>7 DEF vars
  <2>2. TypeOK' BY <1>1, <1>7 DEF vars, TypeOK
  <2> QED BY <1>1, <2>1, <2>2, OthersKeepTypes
<1> QED BY <1>2, <1>3, <1>4, <1>5, <1>6, <1>7 DEF Next

(* Type correctness: whatever interleaves, the table holds rows, the lock
   table transactions, and every transaction what its operation needs. *)
THEOREM TypeCorrect == Spec => []TypeOK
<1>1. Init => TypeInv BY TypeInit
<1>2. TypeInv /\ [Next]_vars => TypeInv' BY TypeStep
<1>3. TypeInv => TypeOK BY DEF TypeInv
<1> QED BY <1>1, <1>2, <1>3, PTL DEF Spec
-----------------------------------------------------------------------------
(* One open entry, for any editors and any patches, by the unique index *)

(* What the index keeps beside the types. *)
OpenInv == TypeInv /\ OpenUnique(entries)

(* Deleting a row opens none. *)
LEMMA DeleteKeepsUnique ==
  ASSUME TypeOK, OpenUnique(entries), NEW id \in DOMAIN entries, DeleteEntry(id)
  PROVE  OpenUnique(entries')
<1>1. entries \in Seq(Row) /\ DOMAIN entries = 1..Len(entries)
  BY LenProperties DEF TypeOK
<1>2. entries[id] \in Row BY <1>1, ElementOfSeq
<1>3. Deleted(entries[id]) \in Row /\ ~IsOpen(Deleted(entries[id]))
  BY <1>2 DEF Deleted, Row, IsOpen
<1>4. entries' = [entries EXCEPT ![id] = Deleted(entries[id])] BY DEF DeleteEntry
<1>5. DOMAIN entries' = DOMAIN entries BY <1>4
<1>6. \A i \in DOMAIN entries : i # id => entries'[i] = entries[i] BY <1>4
<1>7. ~IsOpen(entries'[id]) BY <1>3, <1>4
<1> QED BY <1>5, <1>6, <1>7 DEF OpenUnique

(* An added entry is closed. *)
LEMMA InsertKeepsUnique ==
  ASSUME TypeOK, OpenUnique(entries), NEW d \in Editors, InsertNewEntry(d)
  PROVE  OpenUnique(entries')
<1>1. entries \in Seq(Row) /\ DOMAIN entries = 1..Len(entries) /\ Len(entries) \in Nat
  BY LenProperties DEF TypeOK
<1>2. draft[d] \in Draft BY DEF InsertNewEntry, TypeOK
<1>3. draft[d].end # Null
  <2>1. draft[d].end \in Nat BY <1>2 DEF Draft
  <2> QED BY <2>1, NullAssumption
<1>4. \A shift, start : ~IsOpen(NewRow(draft[d].emp, shift, draft[d].type, draft[d].job,
                                      start, draft[d].end, FALSE))
  BY <1>3 DEF NewRow, IsOpen
<1>5. PICK row : entries' = Append(entries, row) /\ ~IsOpen(row)
  BY <1>4 DEF InsertNewEntry
<1>6. /\ DOMAIN entries' = 1..(Len(entries) + 1)
      /\ \A i \in 1..Len(entries) : entries'[i] = entries[i]
      /\ entries'[Len(entries) + 1] = row
  BY <1>1, <1>5
<1>7. \A i \in 1..(Len(entries) + 1) : i \in 1..Len(entries) \/ i = Len(entries) + 1
  BY <1>1
<1>8. \A i \in DOMAIN entries' :
        IsOpen(entries'[i]) => i \in DOMAIN entries /\ entries'[i] = entries[i]
  BY <1>1, <1>5, <1>6, <1>7
<1> QED BY <1>8 DEF OpenUnique

(* Every step that writes the table leaves it legal: a transaction checks
   the index at its commit, the other writers at their statement. *)
LEMMA OpenStep == OpenInv /\ [Next]_vars => OpenInv'
<1> SUFFICES ASSUME OpenInv, [Next]_vars PROVE OpenInv' OBVIOUS
<1>1. TypeInv' BY TypeStep DEF OpenInv
<1>2. TypeOK /\ OpenUnique(entries) BY DEF OpenInv, TypeInv
<1> SUFFICES OpenUnique(entries') BY <1>1 DEF OpenInv
<1>3. ASSUME UNCHANGED entries PROVE OpenUnique(entries')
  BY <1>2, <1>3
<1>4. CASE Punching
  <2>1. ASSUME NEW s \in Transactions, Commit(s) PROVE OpenUnique(entries')
    BY <2>1 DEF Commit, Acceptable, Legal
  <2>2. \/ UNCHANGED entries
        \/ \E s \in Transactions : Commit(s)
    BY <1>4 DEF Punching, Request, LockAndRead, Refuse, ReadAgain, Rollback, Disconnect
  <2> QED BY <1>3, <2>1, <2>2
<1>5. CASE Sweeping
  BY <1>3, <1>5 DEF Sweeping, SweepScan, AutoRead
<1>6. CASE Reviewing
  <2>1. ASSUME NEW id, NEW p, EditEntry(id, p) PROVE OpenUnique(entries')
    BY <2>1 DEF EditEntry, Legal
  <2>2. ASSUME NEW d, NEW new, CheckNewEntry(d, new) PROVE UNCHANGED entries
    BY <2>2 DEF CheckNewEntry
  <2> QED BY <1>2, <1>3, <1>6, <2>1, <2>2, DeleteKeepsUnique, InsertKeepsUnique
      DEF Reviewing
<1>7. CASE (\E e \in Employees : Terminate(e)) \/ Tick \/ UNCHANGED vars
  BY <1>3, <1>7 DEF Terminate, Tick, vars
<1> QED BY <1>4, <1>5, <1>6, <1>7 DEF Next

-----------------------------------------------------------------------------
(* The advisory lock: where every writer takes it, a transaction acts on
   current data *)

(* What a session inside its transaction may count on: it has the lock of
   its employee, and the open entry is the one it read. *)
SafeAt(s) ==
  InTransaction(s) =>
    /\ lock[txn[s].emp] = s
    /\ IF txn[s].op = "clockIn"
       THEN OpenEntries(entries, txn[s].emp) = {}
       ELSE /\ OpenEntries(entries, txn[s].emp) = {txn[s].id}
            /\ entries[txn[s].id] = txn[s].seen
    /\ txn[s].pc = "splitting" => txn[s].first = txn[s].seen
    /\ txn[s].op = "autoClose" => txn[s].at = txn[s].seen.start + AutoAfter

(* The inductive strengthening of SnapshotCurrent. *)
SafeInv == OpenInv /\ \A s \in Transactions : SafeAt(s)

(* The inductive invariant of the lock gives the property. *)
LEMMA SafeMeansCurrent == SafeInv => SnapshotCurrent
BY DEF SafeInv, SafeAt, InTransaction, SnapshotCurrent

(* A step that leaves an employee's open entry as it is. *)
Framed(e) ==
  /\ OpenEntries(entries', e) = OpenEntries(entries, e)
  /\ \A i \in OpenEntries(entries, e) : entries'[i] = entries[i]

(* A step that leaves the table and a transaction alone leaves what that
   transaction read current. *)
LEMMA Undisturbed ==
  ASSUME NEW u, SafeAt(u), txn'[u] = txn[u],
         InTransaction(u) => lock'[txn[u].emp] = lock[txn[u].emp] /\ Framed(txn[u].emp)
  PROVE  SafeAt(u)'
BY DEF SafeAt, InTransaction, Framed

(* A step that leaves the table alone leaves everybody's open entries alone. *)
LEMMA UnchangedFrames ==
  ASSUME UNCHANGED entries, NEW e
  PROVE  Framed(e)
BY DEF Framed

(* A session outside its transaction has nothing to keep current. *)
LEMMA OutsideIsSafe ==
  ASSUME NEW u, txn'[u] \in {Idle} \cup Waiting
  PROVE  SafeAt(u)'
BY IdleIsNoTransaction DEF SafeAt, InTransaction

(* Two sessions inside a transaction serve different employees. *)
LEMMA OneHolder ==
  ASSUME NEW s, NEW u, u # s, SafeAt(u), InTransaction(u), lock[txn[s].emp] \in {s, Null},
         u # Null
  PROVE  txn[u].emp # txn[s].emp
BY DEF SafeAt

(* A lock holder is never NULL. *)
LEMMA TransactionsAreNotNull == \A u \in Transactions : u # Null
BY PunchClockAssumption DEF Transactions

(* What a transaction writes stays with its own employee. *)
LEMMA ExtendsFrames ==
  ASSUME TypeInv, NEW s \in Transactions, SafeAt(s), InTransaction(s),
         Extends(entries', txn[s]), NEW e, e # txn[s].emp
  PROVE  Framed(e)
<1>1. /\ entries \in Seq(Row) /\ DOMAIN entries = 1..Len(entries)
      /\ Len(entries) \in Nat
  BY LenProperties DEF TypeInv, TypeOK
<1>2. /\ entries' \in Seq(Row) /\ DOMAIN entries' = 1..Len(entries')
      /\ Len(entries') \in Nat /\ Len(entries) <= Len(entries')
  BY LenProperties DEF Extends
<1>3. \A i \in DOMAIN entries : entries[i].emp = e => i # txn[s].id
  <2>1. CASE txn[s].op = "clockIn"
    <3>1. txn[s] \in Starting
      BY <2>1, IdleIsNoTransaction
      DEF TypeInv, TypeOK, InTransaction, Closing, Splitting, Ops
    <3>2. txn[s].id = 0 BY <3>1 DEF Starting
    <3> QED BY <1>1, <3>2
  <2>2. CASE txn[s].op # "clockIn"
    <3>1. txn[s].id \in OpenEntries(entries, txn[s].emp) BY <2>2 DEF SafeAt
    <3> QED BY <3>1 DEF OpenEntries
  <2> QED BY <2>1, <2>2
<1>4. \A i \in DOMAIN entries : entries[i].emp = e => entries'[i] = entries[i]
  BY <1>1, <1>3 DEF Extends
<1>5. \A i \in DOMAIN entries' : entries'[i].emp = e => i \in DOMAIN entries /\ entries[i].emp = e
  <2> SUFFICES ASSUME NEW i \in DOMAIN entries', entries'[i].emp = e
               PROVE  i \in DOMAIN entries /\ entries[i].emp = e
    OBVIOUS
  <2>1. i \notin (Len(entries) + 1)..Len(entries') BY DEF Extends
  <2>2. i \in DOMAIN entries BY <1>1, <1>2, <2>1
  <2> QED BY <1>1, <2>2 DEF Extends
<1>6. DOMAIN entries \subseteq DOMAIN entries' BY <1>1, <1>2
<1> QED BY <1>4, <1>5, <1>6 DEF Framed, OpenEntries

(* A commit disturbs no other transaction: those that hold a lock hold
   another employee's. *)
LEMMA CommitIsSafe ==
  ASSUME SafeInv, NEW s \in Transactions, Commit(s)
  PROVE  \A u \in Transactions : SafeAt(u)'
<1>1. TypeInv /\ TypeOK /\ SafeAt(s) BY DEF SafeInv, OpenInv, TypeInv
<1>2. InTransaction(s) BY DEF Commit, Ready, InTransaction
<1>3. Extends(entries', txn[s]) BY <1>1, OutcomeExtends DEF Commit
<1>4. /\ txn' = [txn EXCEPT ![s] = Idle]
      /\ lock' = [lock EXCEPT ![txn[s].emp] = Null]
  BY DEF Commit, Release
<1>5. lock[txn[s].emp] = s BY <1>1, <1>2 DEF SafeAt
<1>6. SafeAt(s)' BY <1>1, <1>4, OutsideIsSafe DEF TypeOK
<1>7. ASSUME NEW u \in Transactions, u # s PROVE SafeAt(u)'
  <2>1. SafeAt(u) BY DEF SafeInv
  <2>2. txn'[u] = txn[u] BY <1>1, <1>4, <1>7 DEF TypeOK
  <2>3. ASSUME InTransaction(u)
        PROVE  lock'[txn[u].emp] = lock[txn[u].emp] /\ Framed(txn[u].emp)
    <3>1. txn[u].emp # txn[s].emp
      BY <1>5, <1>7, <2>1, <2>3, OneHolder, TransactionsAreNotNull
    <3>2. Framed(txn[u].emp) BY <1>1, <1>2, <1>3, <3>1, ExtendsFrames
    <3>3. lock'[txn[u].emp] = lock[txn[u].emp] BY <1>1, <1>4, <3>1 DEF TypeOK
    <3> QED BY <3>2, <3>3
  <2> QED BY <2>1, <2>2, <2>3, Undisturbed
<1> QED BY <1>6, <1>7

(* A session that moves on over an unchanged table, touching no lock that
   another one holds. *)
LEMMA MoveIsSafe ==
  ASSUME SafeInv, NEW s \in Transactions, NEW new,
         txn' = [txn EXCEPT ![s] = new],
         UNCHANGED entries,
         \A u \in Transactions :
           u # s /\ InTransaction(u) => lock'[txn[u].emp] = lock[txn[u].emp],
         SafeAt(s)'
  PROVE  \A u \in Transactions : SafeAt(u)'
<1>1. TypeOK BY DEF SafeInv, OpenInv, TypeInv
<1>2. ASSUME NEW u \in Transactions, u # s PROVE SafeAt(u)'
  <2>1. SafeAt(u) BY DEF SafeInv
  <2>2. txn'[u] = txn[u] BY <1>1, <1>2 DEF TypeOK
  <2>3. InTransaction(u) => lock'[txn[u].emp] = lock[txn[u].emp] /\ Framed(txn[u].emp)
    BY <1>2, UnchangedFrames
  <2> QED BY <2>1, <2>2, <2>3, Undisturbed
<1> QED BY <1>2

(* Neither does a rollback or a lost connection. *)
LEMMA AbortIsSafe ==
  ASSUME SafeInv, NEW s \in Transactions, Rollback(s) \/ Disconnect(s)
  PROVE  \A u \in Transactions : SafeAt(u)'
<1>1. TypeOK /\ SafeAt(s) BY DEF SafeInv, OpenInv, TypeInv
<1>2. txn' = [txn EXCEPT ![s] = Idle] /\ UNCHANGED entries
  BY DEF Rollback, Disconnect, Release
<1>3. SafeAt(s)' BY <1>1, <1>2, OutsideIsSafe DEF TypeOK
<1>4. ASSUME NEW u \in Transactions, u # s, InTransaction(u)
      PROVE  lock'[txn[u].emp] = lock[txn[u].emp]
  <2>1. SafeAt(u) BY DEF SafeInv
  <2>2. lock[txn[u].emp] = u BY <1>4, <2>1 DEF SafeAt
  <2>3. CASE Rollback(s)
    <3>1. InTransaction(s) BY <2>3 DEF Rollback, Ready, InTransaction
    <3>2. lock[txn[s].emp] = s BY <1>1, <3>1 DEF SafeAt
    <3>3. txn[u].emp # txn[s].emp BY <1>4, <2>2, <3>2
    <3>4. lock' = [lock EXCEPT ![txn[s].emp] = Null] BY <2>3 DEF Rollback, Release
    <3> QED BY <1>1, <3>3, <3>4 DEF TypeOK
  <2>4. CASE Disconnect(s)
    <3>1. lock' = [e \in Employees |-> IF lock[e] = s THEN Null ELSE lock[e]]
      BY <2>4 DEF Disconnect
    <3>2. txn[u] \in Starting \cup Closing \cup Splitting
      BY <1>1, <1>4, IdleIsNoTransaction DEF TypeOK, InTransaction
    <3>3. txn[u].emp \in Employees
      BY <3>2 DEF Starting, Closing, Splitting
    <3> QED BY <1>4, <2>2, <3>1, <3>3
  <2> QED BY <2>3, <2>4
<1> QED BY <1>2, <1>3, <1>4, MoveIsSafe

(* A request that queues and one that is refused disturb no transaction. *)
LEMMA OutsideMovesAreSafe ==
  ASSUME SafeInv, NEW s \in Sessions,
         Refuse(s) \/ \E op \in Ops, e \in Employees, j \in Jobs \cup {Null} :
                        Request(s, op, e, j)
  PROVE  \A u \in Transactions : SafeAt(u)'
<1>1. TypeOK /\ s \in Transactions BY DEF SafeInv, OpenInv, TypeInv, Transactions
<1>2. UNCHANGED <<entries, lock>> BY DEF Refuse, Request
<1>3. PICK new \in {Idle} \cup Waiting : txn' = [txn EXCEPT ![s] = new]
  <2>1. CASE Refuse(s) BY <2>1 DEF Refuse
  <2>2. ASSUME NEW op \in Ops, NEW e \in Employees, NEW j \in Jobs \cup {Null},
               Request(s, op, e, j)
        PROVE  \E new \in {Idle} \cup Waiting : txn' = [txn EXCEPT ![s] = new]
    <3> DEFINE new == [pc |-> "waiting", op |-> op, emp |-> e, job |-> j]
    <3>1. new \in Waiting BY DEF Waiting
    <3>2. txn' = [txn EXCEPT ![s] = new] BY <2>2 DEF Request
    <3> HIDE DEF new
    <3> QED BY <3>1, <3>2
  <2> QED BY <2>1, <2>2
<1>4. SafeAt(s)' BY <1>1, <1>3, OutsideIsSafe DEF TypeOK
<1> QED BY <1>1, <1>2, <1>3, <1>4, MoveIsSafe

(* Where the index holds, an open entry is the only one. *)
LEMMA OnlyOne ==
  ASSUME OpenUnique(entries), NEW e, NEW id \in OpenEntries(entries, e)
  PROVE  OpenEntries(entries, e) = {id}
BY DEF OpenUnique, OpenEntries

(* What a punch reads under the lock is current, and nobody else's. *)
LEMMA LockAndReadIsSafe ==
  ASSUME SafeInv, NEW s \in Sessions, LockAndRead(s)
  PROVE  \A u \in Transactions : SafeAt(u)'
<1>1. TypeOK /\ s \in Transactions /\ OpenUnique(entries)
  BY DEF SafeInv, OpenInv, TypeInv, Transactions
<1>2. txn[s] \in Waiting
  BY <1>1, IdleIsNoTransaction DEF LockAndRead, TypeOK
<1>3. txn[s].emp \in Employees /\ txn[s].op # "autoClose" BY <1>2 DEF Waiting, Ops
<1>4. PICK at \in Claims(s, txn[s].op), id \in FindOpen(txn[s].emp) :
        /\ Accepted(txn[s].op, RowOrNull(id), at)
        /\ txn' = [txn EXCEPT ![s] =
                     [pc |-> "holding", op |-> @.op, emp |-> @.emp, job |-> @.job,
                      at |-> at, id |-> id, seen |-> RowOrNull(id)]]
  BY DEF LockAndRead
<1> DEFINE new == [pc |-> "holding", op |-> txn[s].op, emp |-> txn[s].emp,
                   job |-> txn[s].job, at |-> at, id |-> id, seen |-> RowOrNull(id)]
<1>5. txn' = [txn EXCEPT ![s] = new] BY <1>1, <1>4 DEF TypeOK
<1>6. /\ lock[txn[s].emp] = Null
      /\ lock' = [lock EXCEPT ![txn[s].emp] = s]
      /\ UNCHANGED entries
  BY DEF LockAndRead, LockFree
<1>7. SafeAt(s)'
  <2>1. txn'[s] = new BY <1>1, <1>5 DEF TypeOK
  <2>2. lock'[txn[s].emp] = s BY <1>1, <1>3, <1>6 DEF TypeOK
  <2>3. CASE txn[s].op = "clockIn"
    <3>1. OpenEntries(entries, txn[s].emp) = {} BY <1>1, <1>4, <2>3, AcceptedRead
    <3> QED BY <1>3, <1>6, <2>1, <2>2, <2>3, <3>1 DEF SafeAt, InTransaction
  <2>4. CASE txn[s].op # "clockIn"
    <3>1. id \in OpenEntries(entries, txn[s].emp) /\ RowOrNull(id) = entries[id]
      BY <1>1, <1>4, <2>4, AcceptedRead
    <3>2. OpenEntries(entries, txn[s].emp) = {id} BY <1>1, <3>1, OnlyOne
    <3> QED BY <1>3, <1>6, <2>1, <2>2, <2>4, <3>1, <3>2 DEF SafeAt, InTransaction
  <2> QED BY <2>3, <2>4
<1> HIDE DEF new
<1>8. ASSUME NEW u \in Transactions, u # s, InTransaction(u)
      PROVE  lock'[txn[u].emp] = lock[txn[u].emp]
  <2>1. txn[u].emp # txn[s].emp
    BY <1>6, <1>8, OneHolder, TransactionsAreNotNull DEF SafeInv
  <2> QED BY <1>1, <1>6, <2>1 DEF TypeOK
<1> QED BY <1>1, <1>5, <1>6, <1>7, <1>8, MoveIsSafe

(* The second read of a lunch split finds what the first found. *)
LEMMA ReadAgainIsSafe ==
  ASSUME SafeInv, NEW s \in Sessions, ReadAgain(s)
  PROVE  \A u \in Transactions : SafeAt(u)'
<1>1. TypeOK /\ s \in Transactions /\ OpenUnique(entries) /\ SafeAt(s)
  BY DEF SafeInv, OpenInv, TypeInv, Transactions
<1>2. PICK id \in OpenEntries(entries, txn[s].emp) :
        txn' = [txn EXCEPT ![s] =
                 [pc |-> "splitting", op |-> "lunchOut", emp |-> @.emp,
                  job |-> @.job, at |-> @.at, id |-> id, seen |-> @.seen,
                  first |-> entries[id]]]
  BY DEF ReadAgain
<1> DEFINE new == [pc |-> "splitting", op |-> "lunchOut", emp |-> txn[s].emp,
                   job |-> txn[s].job, at |-> txn[s].at, id |-> id,
                   seen |-> txn[s].seen, first |-> entries[id]]
<1>3. txn' = [txn EXCEPT ![s] = new] BY <1>1, <1>2 DEF TypeOK
<1>4. UNCHANGED <<entries, lock>> BY DEF ReadAgain
<1>5. /\ lock[txn[s].emp] = s
      /\ OpenEntries(entries, txn[s].emp) = {txn[s].id}
      /\ entries[txn[s].id] = txn[s].seen
  BY <1>1 DEF ReadAgain, SafeAt, InTransaction
<1>6. SafeAt(s)'
  <2>1. txn'[s] = new BY <1>1, <1>3 DEF TypeOK
  <2>2. id = txn[s].id BY <1>2, <1>5
  <2> QED BY <1>4, <1>5, <2>1, <2>2 DEF SafeAt, InTransaction
<1> HIDE DEF new
<1> QED BY <1>1, <1>3, <1>4, <1>6, MoveIsSafe

(* What the sweep reads again under the lock is current. *)
LEMMA AutoReadIsSafe ==
  ASSUME SafeInv, NEW id \in due, AutoRead(id)
  PROVE  \A u \in Transactions : SafeAt(u)'
<1>1. /\ TypeOK /\ Cron \in Transactions /\ OpenUnique(entries)
      /\ DOMAIN entries = 1..Len(entries)
  BY LenProperties DEF SafeInv, OpenInv, TypeInv, TypeOK, Transactions
<1>2. id \in 1..Len(entries) /\ entries[id] \in Row
  BY <1>1, ElementOfSeq DEF TypeOK
<1>3. UNCHANGED entries BY DEF AutoRead
<1>4. CASE StillOpen(id)
  <2> DEFINE new == [pc |-> "holding", op |-> "autoClose",
                     emp |-> entries[id].emp, job |-> Null,
                     at |-> entries[id].start + AutoAfter,
                     id |-> id, seen |-> entries[id]]
             e == entries[id].emp
  <2>1. /\ txn' = [txn EXCEPT ![Cron] = new]
        /\ lock[e] = Null
        /\ lock' = [lock EXCEPT ![e] = Cron]
    BY <1>4 DEF AutoRead, LockFree
  <2>2. e \in Employees BY <1>2 DEF Row
  <2>3. OpenEntries(entries, e) = {id}
    <3>1. id \in OpenEntries(entries, e)
      BY <1>1, <1>2, <1>4 DEF OpenEntries, StillOpen
    <3> QED BY <1>1, <3>1, OnlyOne
  <2>4. SafeAt(Cron)'
    <3>1. txn'[Cron] = new BY <1>1, <2>1 DEF TypeOK
    <3>2. lock'[e] = Cron BY <1>1, <2>1, <2>2 DEF TypeOK
    <3> QED BY <1>3, <2>3, <3>1, <3>2 DEF SafeAt, InTransaction
  <2>5. ASSUME NEW u \in Transactions, u # Cron, InTransaction(u)
        PROVE  lock'[txn[u].emp] = lock[txn[u].emp]
    <3>1. lock[txn[u].emp] = u BY <2>5 DEF SafeInv, SafeAt
    <3>2. txn[u].emp # e BY <2>1, <2>5, <3>1, TransactionsAreNotNull
    <3> QED BY <1>1, <2>1, <3>2 DEF TypeOK
  <2> HIDE DEF new
  <2> QED BY <1>1, <1>3, <2>1, <2>4, <2>5, MoveIsSafe
<1>5. CASE ~StillOpen(id)
  <2>1. UNCHANGED <<txn, lock>> BY <1>5 DEF AutoRead
  <2> QED BY <1>3, <2>1 DEF SafeInv, SafeAt, InTransaction
<1> QED BY <1>4, <1>5

(* Every step keeps the invariant of the lock. *)
LEMMA SafeStep ==
  ASSUME Editors = {}
  PROVE  SafeInv /\ [Next]_vars => SafeInv'
<1> SUFFICES ASSUME SafeInv, [Next]_vars PROVE SafeInv' OBVIOUS
<1>1. OpenInv' BY OpenStep DEF SafeInv
<1> SUFFICES \A u \in Transactions : SafeAt(u)' BY <1>1 DEF SafeInv
<1>2. CASE Punching
  BY <1>2, OutsideMovesAreSafe, LockAndReadIsSafe, ReadAgainIsSafe, CommitIsSafe,
     AbortIsSafe DEF Punching
<1>3. ASSUME UNCHANGED <<entries, lock, txn>>
      PROVE  \A u \in Transactions : SafeAt(u)'
  BY <1>3 DEF SafeInv, SafeAt, InTransaction
<1>4. CASE Sweeping
  <2>1. SweepScan => UNCHANGED <<entries, lock, txn>> BY DEF SweepScan
  <2> QED BY <1>3, <1>4, <2>1, AutoReadIsSafe DEF Sweeping
<1>5. ~Reviewing BY DEF Reviewing
<1>6. CASE (\E e \in Employees : Terminate(e)) \/ Tick \/ UNCHANGED vars
  BY <1>3, <1>6 DEF Terminate, Tick, vars
<1> QED BY <1>2, <1>4, <1>5, <1>6 DEF Next

(* It holds at first. *)
LEMMA SafeInit == Init => SafeInv
<1> SUFFICES ASSUME Init PROVE SafeInv OBVIOUS
<1>1. TypeInv BY TypeInit
<1>2. DOMAIN entries = {} BY DEF Init
<1>3. OpenUnique(entries) BY <1>2 DEF OpenUnique
<1>4. \A s \in Transactions : txn[s].pc = "idle" BY DEF Init, Idle
<1>5. \A s \in Transactions : SafeAt(s) BY <1>4 DEF SafeAt, InTransaction
<1> QED BY <1>1, <1>3, <1>5 DEF SafeInv, OpenInv

(* What lockEmployee promises, for any number of employees and sessions:
   as long as nobody writes without the lock, the entry a punch or the
   sweep acts on is, up to its commit, the employee's open entry as it was
   read. *)
THEOREM LockSuffices ==
  ASSUME Editors = {}
  PROVE  Spec => []SnapshotCurrent
<1>1. Init => SafeInv BY SafeInit
<1>2. SafeInv /\ [Next]_vars => SafeInv' BY SafeStep
<1>3. SafeInv => SnapshotCurrent BY SafeMeansCurrent
<1> QED BY <1>1, <1>2, <1>3, PTL DEF Spec

(* A commit changes the open row it read, or none. *)
LEMMA CommitKeepsClosed ==
  ASSUME SafeInv, NEW s \in Transactions, Commit(s)
  PROVE  ClosedRowsStay
<1>1. /\ TypeInv /\ TypeOK /\ SafeAt(s)
      /\ DOMAIN entries = 1..Len(entries)
  BY LenProperties DEF SafeInv, OpenInv, TypeInv, TypeOK
<1>2. Extends(entries', txn[s]) BY <1>1, OutcomeExtends DEF Commit
<1>3. InTransaction(s) BY DEF Commit, Ready, InTransaction
<1>4. \A i \in DOMAIN entries : entries[i].end # Null => i # txn[s].id
  <2>1. CASE txn[s].op = "clockIn"
    <3>1. txn[s] \in Starting
      BY <1>1, <1>3, <2>1, IdleIsNoTransaction
      DEF TypeOK, InTransaction, Closing, Splitting, Ops
    <3>2. txn[s].id = 0 BY <3>1 DEF Starting
    <3> QED BY <1>1, <3>2, LenProperties DEF TypeOK
  <2>2. CASE txn[s].op # "clockIn"
    <3>1. txn[s].id \in OpenEntries(entries, txn[s].emp) BY <1>1, <1>3, <2>2 DEF SafeAt
    <3> QED BY <3>1 DEF OpenEntries, IsOpen
  <2> QED BY <2>1, <2>2
<1> QED BY <1>1, <1>2, <1>4 DEF ClosedRowsStay, Extends

(* Where nobody writes without the lock, a close is final: a punch and the
   sweep that go for the same open row never both close it. *)
THEOREM ClosesAreFinal ==
  ASSUME Editors = {}
  PROVE  Spec => ClosedIsFinal
<1>1. Init => SafeInv BY SafeInit
<1>2. SafeInv /\ [Next]_vars => SafeInv' BY SafeStep
<1>3. SafeInv /\ [Next]_vars => [ClosedRowsStay]_vars
  <2> SUFFICES ASSUME SafeInv, Next PROVE ClosedRowsStay \/ UNCHANGED vars
    BY DEF vars
  <2>1. ASSUME UNCHANGED entries PROVE ClosedRowsStay BY <2>1 DEF ClosedRowsStay
  <2>2. CASE Punching
    <3>1. \/ UNCHANGED entries
          \/ \E s \in Transactions : Commit(s)
      BY <2>2 DEF Punching, Request, LockAndRead, Refuse, ReadAgain, Rollback, Disconnect
    <3> QED BY <2>1, <3>1, CommitKeepsClosed
  <2>3. CASE Sweeping BY <2>1, <2>3 DEF Sweeping, SweepScan, AutoRead
  <2>4. ~Reviewing BY DEF Reviewing
  <2>5. CASE (\E e \in Employees : Terminate(e)) \/ Tick
    BY <2>1, <2>5 DEF Terminate, Tick
  <2> QED BY <2>2, <2>3, <2>4, <2>5 DEF Next
<1> QED BY <1>1, <1>2, <1>3, PTL DEF Spec, ClosedIsFinal

-----------------------------------------------------------------------------
(* Durations *)

(* A closed row records its span. *)
Timed(row) == row.end # Null => row.duration = SecondsBetween(row.start, row.end)

TimedTable(tbl) == \A i \in 1..Len(tbl) : Timed(tbl[i])

(* A close records the span from the row's own start. *)
LEMMA EndedTimed ==
  ASSUME NEW row \in Row, NEW at \in Nat
  PROVE  /\ Timed(Ended(row, row.start, at))
         /\ at = row.start + AutoAfter => Timed(AutoEnded(row, at))
<1>1. Timed(Ended(row, row.start, at)) BY DEF Timed, Ended, Row
<1>2. ASSUME at = row.start + AutoAfter PROVE Timed(AutoEnded(row, at))
  <2>1. row.start \in Nat /\ AutoAfter \in Nat BY PunchClockAssumption DEF Row
  <2>2. SecondsBetween(row.start, at) = AutoAfter BY <1>2, <2>1 DEF SecondsBetween
  <2> QED BY <2>2 DEF Timed, AutoEnded, Row
<1> QED BY <1>1, <1>2

(* An inserted row that is closed records its span. *)
LEMMA NewRowTimed ==
  \A e, shift, type, job, start, end, off : Timed(NewRow(e, shift, type, job, start, end, off))
BY DEF Timed, NewRow

(* Appending a timed row keeps all durations right, *)
LEMMA AppendTimed ==
  ASSUME NEW tbl \in Seq(Row), TimedTable(tbl), NEW row \in Row, Timed(row)
  PROVE  TimedTable(Append(tbl, row))
<1>1. Len(tbl) \in Nat BY LenProperties
<1> DEFINE new == Append(tbl, row)
<1>2. /\ Len(new) = Len(tbl) + 1
      /\ new[Len(new)] = row
      /\ \A i \in 1..Len(tbl) : new[i] = tbl[i]
  BY AddRow
<1> HIDE DEF new
<1>3. \A i \in 1..Len(new) : i \in 1..Len(tbl) \/ i = Len(new) BY <1>1, <1>2
<1>4. TimedTable(new) BY <1>2, <1>3 DEF TimedTable
<1> QED BY <1>4 DEF new

(* and so does replacing one by a timed row. *)
LEMMA ReplaceTimed ==
  ASSUME NEW tbl \in Seq(Row), TimedTable(tbl), NEW id \in 1..Len(tbl),
         NEW row \in Row, Timed(row)
  PROVE  TimedTable([tbl EXCEPT ![id] = row])
BY ReplaceRow DEF TimedTable

(* closeOpen keeps them right when the row is still what it read. *)
LEMMA ClosedTimed ==
  ASSUME TypeOK, TimedTable(entries), NEW id \in 1..Len(entries), NEW at \in Nat
  PROVE  /\ TimedTable(Closed(id, entries[id].start, at))
         /\ Closed(id, entries[id].start, at) \in Seq(Row)
         /\ Len(Closed(id, entries[id].start, at)) = Len(entries)
<1>1. entries \in Seq(Row) /\ entries[id] \in Row BY ElementOfSeq DEF TypeOK
<1>2. entries[id].start \in Nat /\ entries[id].start \in Int BY <1>1 DEF Row
<1> DEFINE row == Ended(entries[id], entries[id].start, at)
<1>3. row \in Row /\ Timed(row) BY <1>1, <1>2, EndedType, EndedTimed
<1> HIDE DEF row
<1>4. TimedTable([entries EXCEPT ![id] = row]) BY <1>1, <1>3, ReplaceTimed
<1>5. /\ [entries EXCEPT ![id] = row] \in Seq(Row)
      /\ Len([entries EXCEPT ![id] = row]) = Len(entries)
  BY <1>1, <1>3, ReplaceRow
<1> QED BY <1>4, <1>5 DEF Closed, row

(* A clock-in keeps them right. *)
LEMMA StartTimed ==
  ASSUME TypeOK, TimedTable(entries), NEW t \in Starting, NEW off \in BOOLEAN
  PROVE  TimedTable(ClockedIn(t, off))
<1> DEFINE row == NewRow(t.emp, Len(entries) + 1, "work", t.job, t.at, Null, off)
<1>1. entries \in Seq(Row) /\ Len(entries) \in Nat
  BY LenProperties DEF TypeOK
<1>2. row \in Row
  BY <1>1, SpanIsNat DEF Starting, NewRow, Row, EntryTypes
<1>3. Timed(row) BY NewRowTimed
<1> HIDE DEF row
<1>4. TimedTable(Append(entries, row)) BY <1>1, <1>2, <1>3, AppendTimed
<1> QED BY <1>4 DEF ClockedIn, row

(* So do a break in or out and a job switch, *)
LEMMA SuccessorTimed ==
  ASSUME TypeOK, TimedTable(entries), NEW t \in Closing, t.id \in 1..Len(entries),
         entries[t.id] = t.seen,
         NEW type \in EntryTypes, NEW job \in Jobs \cup {Null}, NEW off \in BOOLEAN
  PROVE  TimedTable(Successor(t, type, job, off))
<1> DEFINE tbl == Closed(t.id, t.seen.start, t.at)
           row == NewRow(t.emp, t.seen.shift, type, job, t.at, Null, off)
<1>1. /\ t.emp \in Employees /\ t.at \in Nat
      /\ t.seen.start \in Nat /\ t.seen.shift \in Nat
  BY DEF Closing, Row
<1>2. TimedTable(tbl) /\ tbl \in Seq(Row) BY <1>1, ClosedTimed
<1>3. row \in Row BY <1>1, SpanIsNat DEF NewRow, Row
<1>4. Timed(row) BY NewRowTimed
<1> HIDE DEF tbl, row
<1>5. TimedTable(Append(tbl, row)) BY <1>2, <1>3, <1>4, AppendTimed
<1> QED BY <1>5 DEF Successor, tbl, row

(* a close by the sweep, *)
LEMMA AutoTimed ==
  ASSUME TypeOK, TimedTable(entries), NEW t \in Closing, t.id \in 1..Len(entries),
         entries[t.id] = t.seen, t.at = t.seen.start + AutoAfter
  PROVE  TimedTable(AutoClosed(t))
<1>1. entries \in Seq(Row) /\ entries[t.id] \in Row /\ t.at \in Nat
  BY ElementOfSeq DEF TypeOK, Closing
<1> DEFINE row == AutoEnded(entries[t.id], t.at)
<1>2. row \in Row /\ Timed(row)
  <2>1. t.at \in Int BY <1>1
  <2> QED BY <1>1, <2>1, EndedType, EndedTimed
<1> HIDE DEF row
<1>3. TimedTable([entries EXCEPT ![t.id] = row]) BY <1>1, <1>2, ReplaceTimed
<1> QED BY <1>3 DEF AutoClosed, row

(* and a lunch split. *)
LEMMA LunchTimed ==
  ASSUME TypeOK, TimedTable(entries), NEW t \in Splitting, t.id \in 1..Len(entries),
         LunchStart(t) \in Nat, entries[t.id] = t.first
  PROVE  TimedTable(LunchSplit(t))
<1> DEFINE out   == LunchStart(t)
           back  == out + Lunch
           tbl   == Closed(t.id, t.first.start, out)
           lunch == NewRow(t.emp, t.seen.shift, "break", Null, out, back, FALSE)
           rest  == NewRow(t.emp, t.seen.shift, "work", t.seen.job, back, t.at, FALSE)
<1>1. /\ t.emp \in Employees /\ t.at \in Nat
      /\ t.seen.shift \in Nat /\ t.seen.job \in Jobs \cup {Null}
  BY DEF Splitting, Row
<1>2. out \in Nat /\ back \in Nat BY PunchClockAssumption
<1>3. TimedTable(tbl) /\ tbl \in Seq(Row) /\ Len(tbl) = Len(entries)
  BY <1>2, ClosedTimed
<1> HIDE DEF out, back
<1>4. lunch \in Row
  BY <1>1, <1>2, SpanIsNat DEF NewRow, Row, EntryTypes
<1>5. rest \in Row
  <2>1. SecondsBetween(back, t.at) \in Nat BY <1>1, <1>2 DEF SecondsBetween
  <2>2. t.at # Null BY <1>1, NullAssumption
  <2> QED BY <1>1, <1>2, <2>1, <2>2 DEF NewRow, Row, EntryTypes
<1>6. Timed(lunch) /\ Timed(rest) BY NewRowTimed
<1> HIDE DEF tbl, lunch, rest
<1>7. /\ <<lunch, rest>> \in Seq(Row)
      /\ Len(<<lunch, rest>>) = 2
      /\ <<lunch, rest>>[1] = lunch
      /\ <<lunch, rest>>[2] = rest
  BY <1>4, <1>5
<1>8. Len(tbl) \in Nat BY <1>3, LenProperties
<1> DEFINE new == tbl \o <<lunch, rest>>
<1>9. /\ Len(new) = Len(tbl) + 2
      /\ \A i \in 1..Len(tbl) : new[i] = tbl[i]
      /\ new[Len(tbl) + 1] = lunch
      /\ new[Len(tbl) + 2] = rest
  BY <1>3, <1>7, <1>8, ConcatProperties
<1> HIDE DEF new
<1>10. \A i \in 1..Len(new) : i \in 1..Len(tbl) \/ i = Len(tbl) + 1 \/ i = Len(tbl) + 2
  BY <1>8, <1>9
<1>11. TimedTable(new) BY <1>3, <1>6, <1>9, <1>10 DEF TimedTable
<1> QED BY <1>11 DEF LunchSplit, new, tbl, lunch, rest, out, back

(* Whatever the operation, its commit keeps all durations right. *)
LEMMA CommitTimed ==
  ASSUME SafeInv, TimedTable(entries), NEW s \in Transactions, Commit(s)
  PROVE  TimedTable(entries')
<1> DEFINE t == txn[s]
<1>1. TypeInv /\ TypeOK /\ SafeAt(s) BY DEF SafeInv, OpenInv, TypeInv
<1>2. t \in Starting \cup Closing \cup Splitting
  BY <1>1 DEF Commit, TypeOK, Ready, Idle, Waiting
<1>3. PICK off \in BOOLEAN : off = (s \in OfflineSessions)
  <2>1. CASE s \in OfflineSessions
    <3>1. TRUE = (s \in OfflineSessions) BY <2>1
    <3> QED BY <3>1
  <2>2. CASE s \notin OfflineSessions
    <3>1. FALSE = (s \in OfflineSessions) BY <2>2
    <3> QED BY <3>1
  <2> QED BY <2>1, <2>2
<1>4. PICK tbl \in Outcomes(s, t) : entries' = tbl BY DEF Commit
<1>5. InTransaction(s) BY DEF Commit, Ready, InTransaction
<1>6. CASE t \in Starting
  <2>1. tbl = ClockedIn(t, off)
    BY <1>3, <1>6, OutcomesByOp DEF Starting
  <2> QED BY <1>1, <1>3, <1>4, <1>6, <2>1, StartTimed
<1>7. CASE t \in Closing
  <2>1. t.id \in 1..Len(entries) /\ entries[t.id] = t.seen
    BY <1>1, <1>5, <1>7 DEF TypeInv, PointsAtRow, Closing, Ops, SafeAt
  <2>2. t.op \in {"clockOut", "breakIn", "breakOut", "switchJob", "autoClose"}
    BY <1>7 DEF Commit, Ready, Closing, Ops
  <2>3. CASE t.op = "clockOut"
    <3>1. tbl = Closed(t.id, t.seen.start, t.at)
      BY <1>3, <2>3, OutcomesByOp DEF ClockedOut
    <3>2. t.at \in Nat BY <1>7 DEF Closing
    <3> QED BY <1>1, <1>4, <2>1, <3>1, <3>2, ClosedTimed
  <2>4. CASE t.op = "breakIn"
    <3>1. tbl = Successor(t, "break", Null, off)
      BY <1>3, <2>4, OutcomesByOp
    <3> QED BY <1>1, <1>3, <1>4, <1>7, <2>1, <3>1, SuccessorTimed DEF EntryTypes
  <2>5. CASE t.op = "breakOut"
    <3>1. PICK j \in ResumeJobs(t) : tbl = Successor(t, "work", j, off)
      BY <1>3, <2>5, OutcomesByOp
    <3>2. j \in Jobs \cup {Null}
      BY <1>1, <1>7, <2>1, ResumeJobsType
    <3> QED BY <1>1, <1>3, <1>4, <1>7, <2>1, <3>1, <3>2, SuccessorTimed DEF EntryTypes
  <2>6. CASE t.op = "switchJob"
    <3>1. tbl = Successor(t, "work", t.job, off)
      BY <1>3, <2>6, OutcomesByOp
    <3>2. t.job \in Jobs \cup {Null}
      BY <1>7 DEF Closing
    <3> QED BY <1>1, <1>3, <1>4, <1>7, <2>1, <3>1, <3>2, SuccessorTimed DEF EntryTypes
  <2>7. CASE t.op = "autoClose"
    <3>1. tbl = AutoClosed(t)
      BY <1>3, <2>7, OutcomesByOp
    <3>2. t.at = t.seen.start + AutoAfter BY <1>1, <1>5, <2>7 DEF SafeAt
    <3> QED BY <1>1, <1>4, <1>7, <2>1, <3>1, <3>2, AutoTimed
  <2> QED BY <2>2, <2>3, <2>4, <2>5, <2>6, <2>7
<1>8. CASE t \in Splitting
  <2>1. tbl = LunchSplit(t)
    BY <1>3, <1>8, OutcomesByOp DEF Splitting
  <2>2. t.id \in 1..Len(entries) /\ entries[t.id] = t.first
    BY <1>1, <1>5, <1>8 DEF TypeInv, PointsAtRow, Splitting, SafeAt
  <2>3. t.pc = "splitting" /\ t.first.start \in Nat
    BY <1>8 DEF Splitting, Row
  <2>4. LunchStart(t) \in Nat
    BY <1>1, <1>8, <2>3, LunchStartType DEF TypeInv, LunchFits
  <2> QED BY <1>1, <1>4, <1>8, <2>1, <2>2, <2>4, LunchTimed
<1> QED BY <1>2, <1>6, <1>7, <1>8

(* Where nobody writes without the lock, the seconds that reports add up
   are the span of the row they stand on. *)
THEOREM DurationsMatch ==
  ASSUME Editors = {}
  PROVE  Spec => []DurationMatches
<1> DEFINE Inv == SafeInv /\ TimedTable(entries)
<1>1. Init => Inv
  <2>1. Init => Len(entries) = 0 BY DEF Init
  <2>2. Init => TimedTable(entries) BY <2>1 DEF TimedTable
  <2> QED BY <2>2, SafeInit
<1>2. Inv /\ [Next]_vars => Inv'
  <2> SUFFICES ASSUME Inv, [Next]_vars PROVE Inv' OBVIOUS
  <2>1. SafeInv' BY SafeStep
  <2> SUFFICES TimedTable(entries') BY <2>1
  <2>2. ASSUME UNCHANGED entries PROVE TimedTable(entries') BY <2>2
  <2>3. CASE Punching
    <3>1. \/ UNCHANGED entries
          \/ \E s \in Transactions : Commit(s)
      BY <2>3 DEF Punching, Request, LockAndRead, Refuse, ReadAgain, Rollback, Disconnect
    <3> QED BY <2>2, <3>1, CommitTimed
  <2>4. CASE Sweeping BY <2>2, <2>4 DEF Sweeping, SweepScan, AutoRead
  <2>5. ~Reviewing BY DEF Reviewing
  <2>6. CASE (\E e \in Employees : Terminate(e)) \/ Tick \/ UNCHANGED vars
    BY <2>2, <2>6 DEF Terminate, Tick, vars
  <2> QED BY <2>3, <2>4, <2>5, <2>6 DEF Next
<1>3. Inv => DurationMatches
  <2> SUFFICES ASSUME Inv PROVE DurationMatches OBVIOUS
  <2>1. DOMAIN entries = 1..Len(entries)
    BY LenProperties DEF SafeInv, OpenInv, TypeInv, TypeOK
  <2> QED BY <2>1 DEF TimedTable, Timed, DurationMatches
<1> QED BY <1>1, <1>2, <1>3, PTL DEF Spec

=============================================================================
