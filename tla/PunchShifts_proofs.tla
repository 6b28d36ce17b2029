------------------------ MODULE PunchShifts_proofs ------------------------
(***************************************************************************)
(* What punches alone, without editors, make of a shift: for any number of *)
(* employees and sessions, the sweep and offline punches among them.       *)
(*                                                                         *)
(* The rows of a shift follow each other without a gap, and no hour counts *)
(* twice.  The invariant behind both (TimeInv): the times of the table and *)
(* those that a punch has read are past, a shift is named by an earlier    *)
(* row of the same employee, and a job switch that has the lock, which is  *)
(* never a replayed one, finds no row that began at its own instant.       *)
(*                                                                         *)
(* What is seen of the service from outside is one ShiftClock for each     *)
(* employee.  The invariant behind it (ClockInv): besides, an open row is  *)
(* the last of its shift, and the shift has one job to go back to.         *)
(***************************************************************************)
EXTENDS PunchClock_proofs

-----------------------------------------------------------------------------
(* What a commit writes, column by column *)

(* The columns of a row that no punch changes. *)
Lasting(row, new) ==
  /\ new.emp = row.emp /\ new.shift = row.shift /\ new.type = row.type
  /\ new.job = row.job /\ new.start = row.start /\ new.offline = row.offline
  /\ new.deleted = row.deleted

(* k rows are added; of the others only the one that t closes changes. *)
Grows(t, k) ==
  /\ entries' \in Seq(Row) /\ Len(entries') = Len(entries) + k
  /\ \A i \in 1..Len(entries) :
       /\ Lasting(entries[i], entries'[i])
       /\ i # t.id => entries'[i] = entries[i]

(* A row that t adds, and what each kind of punch writes. *)
Begun(row, t, shift, type, job, start, end) ==
  /\ row.emp = t.emp /\ row.shift = shift /\ row.type = type /\ row.job = job
  /\ row.start = start /\ row.end = end /\ ~row.deleted

StartsShift(t, off) ==
  LET new == entries'[Len(entries) + 1]
  IN  /\ Grows(t, 1) /\ \A i \in 1..Len(entries) : entries'[i] = entries[i]
      /\ Begun(new, t, Len(entries) + 1, "work", t.job, t.at, Null)
      /\ new.offline = off

EndsShift(t) == Grows(t, 0) /\ entries'[t.id].end = t.at

NextStretch(t, type, job) ==
  /\ Grows(t, 1) /\ entries'[t.id].end = t.at
  /\ Begun(entries'[Len(entries) + 1], t, t.seen.shift, type, job, t.at, Null)

SplitsLunch(t) ==
  LET out == LunchStart(t)
      back == out + Lunch
  IN  /\ Grows(t, 2) /\ entries'[t.id].end = out
      /\ Begun(entries'[Len(entries) + 1], t, t.seen.shift, "break", Null, out, back)
      /\ Begun(entries'[Len(entries) + 2], t, t.seen.shift, "work", t.seen.job, back, t.at)

(* Both ways of ending a row keep its columns. *)
LEMMA EndedLasts ==
  ASSUME NEW row \in Row, NEW from, NEW at
  PROVE  /\ Lasting(row, Ended(row, from, at)) /\ Ended(row, from, at).end = at
         /\ Lasting(row, AutoEnded(row, at)) /\ AutoEnded(row, at).end = at
BY DEF Row, Lasting, Ended, AutoEnded

(* A new row is the one that was asked for. *)
LEMMA BegunRow ==
  ASSUME NEW t, NEW shift, NEW type, NEW job, NEW start, NEW end, NEW off
  PROVE  /\ Begun(NewRow(t.emp, shift, type, job, start, end, off), t, shift, type, job, start, end)
         /\ NewRow(t.emp, shift, type, job, start, end, off).offline = off
BY DEF Begun, NewRow

(* closeOpen keeps the columns. *)
LEMMA ClosedLasts ==
  ASSUME TypeOK, NEW id \in 1..Len(entries), NEW from \in Int, NEW at \in Nat
  PROVE  LET tbl == Closed(id, from, at)
         IN  /\ tbl \in Seq(Row) /\ Len(tbl) = Len(entries) /\ tbl[id].end = at
             /\ \A i \in 1..Len(entries) :
                  Lasting(entries[i], tbl[i]) /\ (i # id => tbl[i] = entries[i])
<1> DEFINE row == Ended(entries[id], from, at)
<1>1. entries \in Seq(Row) /\ \A i \in 1..Len(entries) : entries[i] \in Row
  BY ElementOfSeq DEF TypeOK
<1>2. row \in Row /\ Lasting(entries[id], row) /\ row.end = at
  BY <1>1, EndedType, EndedLasts
<1> HIDE DEF row
<1>3. LET tbl == [entries EXCEPT ![id] = row]
      IN  /\ tbl \in Seq(Row) /\ Len(tbl) = Len(entries) /\ tbl[id] = row
          /\ \A i \in 1..Len(entries) : i # id => tbl[i] = entries[i]
  BY <1>1, <1>2, ReplaceRow
<1>4. \A i \in 1..Len(entries) : Lasting(entries[i], entries[i])
  BY DEF Lasting
<1> QED BY <1>2, <1>3, <1>4 DEF Closed, row

(* A clock-in starts a shift, and changes no row. *)
LEMMA StartShape ==
  ASSUME TypeOK, NEW t \in Starting, NEW off \in BOOLEAN, entries' = ClockedIn(t, off)
  PROVE  StartsShift(t, off)
<1> DEFINE row == NewRow(t.emp, Len(entries) + 1, "work", t.job, t.at, Null, off)
<1>1. entries \in Seq(Row) /\ Len(entries) \in Nat
  BY LenProperties DEF TypeOK
<1>2. row \in Row
  BY <1>1, SpanIsNat DEF Starting, NewRow, Row, EntryTypes
<1>3. Begun(row, t, Len(entries) + 1, "work", t.job, t.at, Null) /\ row.offline = off
  BY BegunRow
<1>4. entries' = Append(entries, row) BY DEF ClockedIn
<1> HIDE DEF row
<1>5. /\ entries' \in Seq(Row) /\ Len(entries') = Len(entries) + 1
      /\ entries'[Len(entries) + 1] = row
      /\ \A i \in 1..Len(entries) : entries'[i] = entries[i]
  BY <1>1, <1>2, <1>4, AddRow
<1>6. Grows(t, 1) BY <1>5 DEF Grows, Lasting
<1> QED BY <1>3, <1>5, <1>6 DEF StartsShift

(* A break, its end and a switch of jobs end one row where the next starts. *)
LEMMA StretchShape ==
  ASSUME TypeOK, NEW t \in Closing, t.id \in 1..Len(entries),
         NEW type \in EntryTypes, NEW job \in Jobs \cup {Null}, NEW off \in BOOLEAN,
         entries' = Successor(t, type, job, off)
  PROVE  NextStretch(t, type, job)
<1> DEFINE tbl == Closed(t.id, t.seen.start, t.at)
           row == NewRow(t.emp, t.seen.shift, type, job, t.at, Null, off)
<1>1. /\ t.emp \in Employees /\ t.at \in Nat
      /\ t.seen.start \in Int /\ t.seen.shift \in Nat
  BY DEF Closing, Row
<1>2. /\ tbl \in Seq(Row) /\ Len(tbl) = Len(entries) /\ tbl[t.id].end = t.at
      /\ \A i \in 1..Len(entries) :
           Lasting(entries[i], tbl[i]) /\ (i # t.id => tbl[i] = entries[i])
  BY <1>1, ClosedLasts
<1>3. row \in Row BY <1>1, SpanIsNat DEF NewRow, Row
<1>4. Begun(row, t, t.seen.shift, type, job, t.at, Null) BY BegunRow
<1>5. entries' = Append(tbl, row) BY DEF Successor
<1>6. Len(entries) \in Nat BY LenProperties DEF TypeOK
<1> HIDE DEF tbl, row
<1>7. /\ entries' \in Seq(Row) /\ Len(entries') = Len(entries) + 1
      /\ entries'[Len(entries) + 1] = row
      /\ \A i \in 1..Len(entries) : entries'[i] = tbl[i]
  BY <1>2, <1>3, <1>5, AddRow
<1> QED BY <1>2, <1>4, <1>7 DEF NextStretch, Grows

(* A clock-out and the sweep end the row that was open. *)
LEMMA EndShape ==
  ASSUME TypeOK, NEW t \in Closing, t.id \in 1..Len(entries),
         entries' \in {ClockedOut(t), AutoClosed(t)}
  PROVE  EndsShift(t)
<1>0. t.at \in Nat /\ t.at \in Int /\ t.seen.start \in Int
  BY DEF Closing, Row
<1>1. /\ entries \in Seq(Row) /\ Len(entries) \in Nat
      /\ \A i \in 1..Len(entries) : entries[i] \in Row
  BY ElementOfSeq, LenProperties DEF TypeOK
<1>2. CASE entries' = ClockedOut(t)
  <2> DEFINE tbl == Closed(t.id, t.seen.start, t.at)
  <2>1. /\ tbl \in Seq(Row) /\ Len(tbl) = Len(entries) /\ tbl[t.id].end = t.at
        /\ \A i \in 1..Len(entries) :
             Lasting(entries[i], tbl[i]) /\ (i # t.id => tbl[i] = entries[i])
    BY <1>0, ClosedLasts
  <2>2. entries' = tbl BY <1>2 DEF ClockedOut
  <2> HIDE DEF tbl
  <2> QED BY <1>1, <2>1, <2>2 DEF EndsShift, Grows
<1>3. CASE entries' = AutoClosed(t)
  <2> DEFINE row == AutoEnded(entries[t.id], t.at)
  <2>1. row \in Row /\ Lasting(entries[t.id], row) /\ row.end = t.at
    BY <1>0, <1>1, EndedType, EndedLasts
  <2> HIDE DEF row
  <2>2. LET tbl == [entries EXCEPT ![t.id] = row]
        IN  /\ tbl \in Seq(Row) /\ Len(tbl) = Len(entries) /\ tbl[t.id] = row
            /\ \A i \in 1..Len(entries) : i # t.id => tbl[i] = entries[i]
    BY <1>1, <2>1, ReplaceRow
  <2>3. \A i \in 1..Len(entries) : Lasting(entries[i], entries[i]) BY DEF Lasting
  <2>4. entries' = [entries EXCEPT ![t.id] = row] BY <1>3 DEF AutoClosed, row
  <2> QED BY <1>1, <2>1, <2>2, <2>3, <2>4 DEF EndsShift, Grows
<1> QED BY <1>2, <1>3

(* A lunch that is split off leaves three rows in a row. *)
LEMMA LunchShape ==
  ASSUME TypeOK, NEW t \in Splitting, t.id \in 1..Len(entries), LunchStart(t) \in Nat,
         entries' = LunchSplit(t)
  PROVE  SplitsLunch(t)
<1> DEFINE out   == LunchStart(t)
           back  == out + Lunch
           tbl   == Closed(t.id, t.first.start, out)
           lunch == NewRow(t.emp, t.seen.shift, "break", Null, out, back, FALSE)
           rest  == NewRow(t.emp, t.seen.shift, "work", t.seen.job, back, t.at, FALSE)
<1>1. /\ t.emp \in Employees /\ t.at \in Nat /\ t.first.start \in Int
      /\ t.seen.shift \in Nat /\ t.seen.job \in Jobs \cup {Null}
  BY DEF Splitting, Row
<1>2. out \in Nat /\ back \in Nat BY PunchClockAssumption
<1>3. /\ tbl \in Seq(Row) /\ Len(tbl) = Len(entries) /\ tbl[t.id].end = out
      /\ \A i \in 1..Len(entries) :
           Lasting(entries[i], tbl[i]) /\ (i # t.id => tbl[i] = entries[i])
  BY <1>1, <1>2, ClosedLasts
<1> HIDE DEF out, back
<1>4. lunch \in Row
  BY <1>1, <1>2, SpanIsNat DEF NewRow, Row, EntryTypes
<1>5. rest \in Row
  <2>1. SecondsBetween(back, t.at) \in Nat BY <1>1, <1>2 DEF SecondsBetween
  <2>2. t.at # Null BY <1>1, NullAssumption
  <2> QED BY <1>1, <1>2, <2>1, <2>2 DEF NewRow, Row, EntryTypes
<1>6. /\ Begun(lunch, t, t.seen.shift, "break", Null, out, back)
      /\ Begun(rest, t, t.seen.shift, "work", t.seen.job, back, t.at)
  BY BegunRow
<1>7. entries' = tbl \o <<lunch, rest>> BY DEF LunchSplit, out, back
<1> HIDE DEF tbl, lunch, rest
<1>8. /\ <<lunch, rest>> \in Seq(Row)
      /\ Len(<<lunch, rest>>) = 2
      /\ <<lunch, rest>>[1] = lunch
      /\ <<lunch, rest>>[2] = rest
  BY <1>4, <1>5
<1>9. Len(entries) \in Nat BY LenProperties DEF TypeOK
<1>10. /\ entries' \in Seq(Row) /\ Len(entries') = Len(entries) + 2
       /\ \A i \in 1..Len(entries) : entries'[i] = tbl[i]
       /\ entries'[Len(entries) + 1] = lunch
       /\ entries'[Len(entries) + 2] = rest
  BY <1>3, <1>7, <1>8, <1>9, ConcatProperties
<1>11. Grows(t, 2) BY <1>3, <1>10 DEF Grows
<1> QED BY <1>3, <1>6, <1>9, <1>10, <1>11 DEF SplitsLunch, out, back

(* The four things a commit may do. *)
CommitShape(s) ==
  LET t == txn[s]
  IN  /\ t.op \in Ops \cup {"autoClose"} /\ Len(entries) \in Nat
      /\ t.op = "clockIn" => t.id = 0 /\ t.job \in Jobs \cup {Null} /\ StartsShift(t, s \in OfflineSessions)
      /\ t.op # "clockIn" =>
           /\ t.id \in 1..Len(entries) /\ entries[t.id] = t.seen
           /\ OpenEntries(entries, t.emp) = {t.id} /\ t.seen \in Row
      /\ t.op \in {"clockOut", "autoClose"} => EndsShift(t)
      /\ t.op = "breakIn" => NextStretch(t, "break", Null)
      /\ t.op = "breakOut" => \E j \in ResumeJobs(t) : NextStretch(t, "work", j)
      /\ t.op = "switchJob" => NextStretch(t, "work", t.job)
      /\ t.op = "lunchOut" => SplitsLunch(t) /\ LunchStart(t) \in Nat /\ t.seen.start <= LunchStart(t)

(* Every commit is one of these. *)
LEMMA CommitShapes ==
  ASSUME SafeInv, NEW s \in Transactions, Commit(s)
  PROVE  CommitShape(s) /\ InTransaction(s) /\ txn[s].emp \in Employees /\ txn[s].at \in Nat
<1> DEFINE t == txn[s]
<1>1. TypeInv /\ TypeOK /\ SafeAt(s) BY DEF SafeInv, OpenInv, TypeInv
<1>2. t \in Starting \cup Closing \cup Splitting
  BY <1>1 DEF Commit, TypeOK, Ready, Idle, Waiting
<1>0. Len(entries) \in Nat BY <1>1, LenProperties DEF TypeOK
<1>3. PICK off \in BOOLEAN : off = (s \in OfflineSessions)
  <2>1. CASE s \in OfflineSessions
    <3>1. TRUE = (s \in OfflineSessions) BY <2>1
    <3> QED BY <3>1
  <2>2. CASE s \notin OfflineSessions
    <3>1. FALSE = (s \in OfflineSessions) BY <2>2
    <3> QED BY <3>1
  <2> QED BY <2>1, <2>2
<1>4. PICK tbl \in Outcomes(s, t) : entries' = tbl BY DEF Commit
<1>5. InTransaction(s) BY DEF Commit, Ready, InTransaction
<1>9. t.emp \in Employees /\ t.at \in Nat BY <1>2 DEF Starting, Closing, Splitting
<1>6. CASE t \in Starting
  <2>1. tbl = ClockedIn(t, off)
    BY <1>3, <1>6, OutcomesByOp DEF Starting
  <2>2. StartsShift(t, off) BY <1>1, <1>3, <1>4, <1>6, <2>1, StartShape
  <2>3. t.op = "clockIn" /\ t.id = 0 /\ t.job \in Jobs \cup {Null} BY <1>6 DEF Starting
  <2> QED BY <1>0, <1>3, <1>5, <1>9, <2>2, <2>3 DEF CommitShape, Ops
<1>7. CASE t \in Closing
  <2>1. t.id \in 1..Len(entries) /\ entries[t.id] = t.seen /\ OpenEntries(entries, t.emp) = {t.id}
    BY <1>1, <1>5, <1>7 DEF TypeInv, PointsAtRow, Closing, Ops, SafeAt
  <2>2. t.op \in {"clockOut", "breakIn", "breakOut", "switchJob", "autoClose"} /\ t.seen \in Row
    BY <1>7 DEF Commit, Ready, Closing, Ops
  <2>3. t.op = "clockOut" => EndsShift(t)
    <3>1. t.op = "clockOut" => tbl = ClockedOut(t)
      BY <1>3, OutcomesByOp
    <3> QED BY <1>1, <1>4, <1>7, <2>1, <3>1, EndShape
  <2>4. t.op = "breakIn" => NextStretch(t, "break", Null)
    <3>1. t.op = "breakIn" => tbl = Successor(t, "break", Null, off)
      BY <1>3, OutcomesByOp
    <3> QED BY <1>1, <1>3, <1>4, <1>7, <2>1, <3>1, StretchShape DEF EntryTypes
  <2>5. ASSUME t.op = "breakOut" PROVE \E j \in ResumeJobs(t) : NextStretch(t, "work", j)
    <3>1. PICK j \in ResumeJobs(t) : tbl = Successor(t, "work", j, off)
      BY <1>3, <2>5, OutcomesByOp
    <3>2. j \in Jobs \cup {Null}
      BY <1>1, <1>7, <2>1, ResumeJobsType
    <3> QED BY <1>1, <1>3, <1>4, <1>7, <2>1, <3>1, <3>2, StretchShape DEF EntryTypes
  <2>6. t.op = "switchJob" => NextStretch(t, "work", t.job)
    <3>1. t.op = "switchJob" => tbl = Successor(t, "work", t.job, off)
      BY <1>3, OutcomesByOp
    <3>2. t.job \in Jobs \cup {Null}
      BY <1>7 DEF Closing
    <3> QED BY <1>1, <1>3, <1>4, <1>7, <2>1, <3>1, <3>2, StretchShape DEF EntryTypes
  <2>7. t.op = "autoClose" => EndsShift(t)
    <3>1. t.op = "autoClose" => tbl = AutoClosed(t)
      BY <1>3, OutcomesByOp
    <3> QED BY <1>1, <1>4, <1>7, <2>1, <3>1, EndShape
  <2> QED BY <1>0, <1>5, <1>9, <2>1, <2>2, <2>3, <2>4, <2>5, <2>6, <2>7 DEF CommitShape, Ops
<1>8. CASE t \in Splitting
  <2>1. tbl = LunchSplit(t) /\ t.op = "lunchOut" /\ t.seen \in Row
    BY <1>3, <1>8, OutcomesByOp DEF Splitting
  <2>2. /\ t.id \in 1..Len(entries) /\ entries[t.id] = t.seen /\ t.first = t.seen
        /\ OpenEntries(entries, t.emp) = {t.id}
    BY <1>1, <1>5, <1>8 DEF TypeInv, PointsAtRow, Splitting, SafeAt
  <2>3. t.pc = "splitting" /\ t.first.start \in Nat
    BY <1>8 DEF Splitting, Row
  <2>4. LunchStart(t) \in Nat /\ t.seen.start <= LunchStart(t)
    BY <1>1, <1>8, <2>2, <2>3, LunchStartType DEF TypeInv, LunchFits
  <2>5. SplitsLunch(t) BY <1>1, <1>4, <1>8, <2>1, <2>2, <2>4, LunchShape
  <2> QED BY <1>0, <1>5, <1>9, <2>1, <2>2, <2>4, <2>5 DEF CommitShape, Ops
<1> QED BY <1>2, <1>6, <1>7, <1>8

(* What every commit has in common. *)
Written(t) ==
  /\ entries \in Seq(Row) /\ DOMAIN entries = 1..Len(entries) /\ Len(entries) \in Nat
  /\ entries' \in Seq(Row) /\ DOMAIN entries' = 1..Len(entries')
  /\ Len(entries') \in Len(entries)..(Len(entries) + 2)
  /\ \A i \in 1..Len(entries) :
       /\ Lasting(entries[i], entries'[i])
       /\ i # t.id \/ entries[i].end # Null => entries'[i] = entries[i]
  /\ \A i \in (Len(entries) + 1)..Len(entries') : entries'[i].emp = t.emp
  /\ \A i \in 1..Len(entries) : i = t.id => entries[i].emp = t.emp

(* New rows are the employee's own, and old ones change only by closing. *)
LEMMA GrowsWritten ==
  ASSUME TypeOK, NEW t, NEW k \in 0..2, Grows(t, k),
         \A i \in 1..Len(entries) : i = t.id => entries[i].emp = t.emp /\ entries[i].end = Null,
         \A i \in (Len(entries) + 1)..Len(entries') : entries'[i].emp = t.emp
  PROVE  Written(t)
<1>1. /\ entries \in Seq(Row) /\ DOMAIN entries = 1..Len(entries) /\ Len(entries) \in Nat
  BY LenProperties DEF TypeOK
<1>2. /\ entries' \in Seq(Row) /\ DOMAIN entries' = 1..Len(entries') /\ Len(entries') = Len(entries) + k
  BY LenProperties DEF Grows
<1>3. Len(entries') \in Len(entries)..(Len(entries) + 2)
  BY <1>1, <1>2
<1> QED BY <1>1, <1>2, <1>3 DEF Grows, Written

(* So it is for every commit. *)
LEMMA CommitWritten ==
  ASSUME SafeInv, NEW s \in Transactions, Commit(s)
  PROVE  Written(txn[s])
<1> DEFINE t == txn[s]
<1>1. CommitShape(s) /\ TypeOK BY CommitShapes DEF SafeInv, OpenInv, TypeInv
<1>2. \A i \in 1..Len(entries) : i = t.id => entries[i].emp = t.emp /\ entries[i].end = Null
  <2>1. CASE t.op = "clockIn" BY <1>1, <2>1 DEF CommitShape
  <2>2. CASE t.op # "clockIn"
    <3>1. t.id \in OpenEntries(entries, t.emp) BY <1>1, <2>2 DEF CommitShape
    <3> QED BY <3>1 DEF OpenEntries, IsOpen
  <2> QED BY <2>1, <2>2
<1>3. Len(entries) \in Nat BY <1>1 DEF CommitShape
<1>4. CASE t.op = "clockIn"
  <2>1. Grows(t, 1) /\ entries'[Len(entries) + 1].emp = t.emp
    BY <1>1, <1>4 DEF CommitShape, StartsShift, Begun
  <2>2. \A i \in (Len(entries) + 1)..Len(entries') : i = Len(entries) + 1
    BY <1>3, <2>1 DEF Grows
  <2> QED BY <1>1, <1>2, <2>1, <2>2, GrowsWritten
<1>5. CASE t.op \in {"clockOut", "autoClose"}
  <2>1. Grows(t, 0) BY <1>1, <1>5 DEF CommitShape, EndsShift
  <2>2. \A i \in (Len(entries) + 1)..Len(entries') : FALSE
    BY <1>3, <2>1 DEF Grows
  <2> QED BY <1>1, <1>2, <2>1, <2>2, GrowsWritten
<1>6. CASE t.op \in {"breakIn", "breakOut", "switchJob"}
  <2>1. Grows(t, 1) /\ entries'[Len(entries) + 1].emp = t.emp
    BY <1>1, <1>6 DEF CommitShape, NextStretch, Begun
  <2>2. \A i \in (Len(entries) + 1)..Len(entries') : i = Len(entries) + 1
    BY <1>3, <2>1 DEF Grows
  <2> QED BY <1>1, <1>2, <2>1, <2>2, GrowsWritten
<1>7. CASE t.op = "lunchOut"
  <2>1. /\ Grows(t, 2) /\ entries'[Len(entries) + 1].emp = t.emp
        /\ entries'[Len(entries) + 2].emp = t.emp
    BY <1>1, <1>7 DEF CommitShape, SplitsLunch, Begun
  <2>2. \A i \in (Len(entries) + 1)..Len(entries') : i \in {Len(entries) + 1, Len(entries) + 2}
    BY <1>3, <2>1 DEF Grows
  <2> QED BY <1>1, <1>2, <2>1, <2>2, GrowsWritten
<1> QED BY <1>1, <1>4, <1>5, <1>6, <1>7 DEF CommitShape, Ops

(* The rows of everybody else stay as they are. *)
RowsStay(e) ==
  /\ \A i \in DOMAIN entries' : entries'[i].emp = e => i \in DOMAIN entries
  /\ \A i \in DOMAIN entries : entries[i].emp = e => i \in DOMAIN entries' /\ entries'[i] = entries[i]
  /\ \A i \in DOMAIN entries : entries'[i].emp = entries[i].emp

(* A commit is one employee's. *)
LEMMA OthersStay ==
  ASSUME NEW t, Written(t), NEW e, e # t.emp
  PROVE  RowsStay(e)
<1>1. \A i \in DOMAIN entries' : i \in DOMAIN entries \/ i \in (Len(entries) + 1)..Len(entries')
  BY DEF Written
<1>2. DOMAIN entries \subseteq DOMAIN entries'
  BY DEF Written
<1> QED BY <1>1, <1>2 DEF Written, RowsStay, Lasting

-----------------------------------------------------------------------------
(* Rows and punches in time, where nobody edits *)

(* No row is deleted, its shift began with an earlier row of the same
   employee, and its times are past. *)
RowSound(i) ==
  /\ ~entries[i].deleted
  /\ entries[i].shift \in 1..i /\ entries[entries[i].shift].emp = entries[i].emp
  /\ entries[i].start < now /\ (entries[i].end # Null => entries[i].end < now)

(* What a punch has read and the instant it claims. *)
Fresh(s) ==
  /\ txn[s].pc = "waiting" /\ txn[s].op = "switchJob" => txn[s].job \in Jobs
  /\ InTransaction(s) =>
       /\ txn[s].at < now
       /\ txn[s].op # "clockIn" => txn[s].seen.start <= txn[s].at
       /\ txn[s].op \in {"breakIn", "switchJob", "lunchOut"} => txn[s].seen.type = "work"
       /\ txn[s].op = "breakOut" => txn[s].seen.type = "break"
       /\ txn[s].op = "switchJob" => txn[s].job \in Jobs
       /\ txn[s].op = "lunchOut" => txn[s].seen.start + LunchPrompt <= txn[s].at
       /\ txn[s].op = "switchJob" =>
            \A i \in DOMAIN entries : entries[i].emp = txn[s].emp => entries[i].start # txn[s].at
       /\ txn[s].op = "clockIn" /\ s \notin OfflineSessions =>
            \A i \in DOMAIN entries :
              entries[i].emp = txn[s].emp => entries[i].end # Null /\ entries[i].end <= txn[s].at

DueInPast == \A i \in due : entries[i].start + AutoAfter < now

TimeInv ==
  /\ SafeInv
  /\ \A i \in DOMAIN entries : RowSound(i)
  /\ \A s \in Transactions : Fresh(s)
  /\ DueInPast

LEMMA TimeInit == Init => TimeInv
<1> SUFFICES ASSUME Init PROVE TimeInv OBVIOUS
<1>1. SafeInv BY SafeInit
<1>2. DOMAIN entries = {} /\ due = {} BY DEF Init
<1>3. \A s \in Transactions : txn[s].pc = "idle" BY DEF Init, Idle
<1>4. \A s \in Transactions : Fresh(s) BY <1>3 DEF Fresh, InTransaction
<1> QED BY <1>1, <1>2, <1>4 DEF TimeInv, DueInPast

(* A session outside its transaction has claimed nothing. *)
LEMMA OutsideIsFresh ==
  ASSUME NEW u, txn'[u] \in {Idle} \cup Waiting,
         txn'[u].pc = "waiting" /\ txn'[u].op = "switchJob" => txn'[u].job \in Jobs
  PROVE  Fresh(u)'
BY IdleIsNoTransaction DEF Fresh, InTransaction

(* A step that leaves the rows of a session's employee alone. *)
LEMMA FreshStays ==
  ASSUME TypeOK, NEW u \in Transactions, Fresh(u), txn'[u] = txn[u], now' \in Nat, now <= now',
         InTransaction(u) => RowsStay(txn[u].emp)
  PROVE  Fresh(u)'
<1>1. InTransaction(u) => txn[u].at \in Nat
  BY IdleIsNoTransaction DEF TypeOK, InTransaction, Starting, Closing, Splitting, Waiting
<1>2. now \in Nat BY DEF TypeOK
<1>3. InTransaction(u) => txn[u].at < now'
  BY <1>1, <1>2 DEF Fresh
<1> QED BY <1>3 DEF Fresh, InTransaction, RowsStay

(* A step that leaves the table alone and moves at most one session. *)
LEMMA TableStays ==
  ASSUME TimeInv, SafeInv', UNCHANGED entries, now' \in Nat, now <= now', DueInPast',
         NEW s, \A u \in Transactions \ {s} : txn'[u] = txn[u],
         s \in Transactions => Fresh(s)'
  PROVE  TimeInv'
<1>1. TypeOK BY DEF TimeInv, SafeInv, OpenInv, TypeInv
<1>2. now \in Nat /\ entries \in Seq(Row) /\ \A i \in DOMAIN entries : entries[i] \in Row
  BY <1>1 DEF TypeOK
<1>3. ASSUME NEW i \in DOMAIN entries PROVE RowSound(i)'
  <2>1. RowSound(i) /\ entries[i].start \in Nat /\ entries[i].end \in Nat \cup {Null}
    BY <1>2 DEF TimeInv, Row
  <2> QED BY <1>2, <2>1 DEF RowSound
<1>4. ASSUME NEW u \in Transactions, u # s PROVE Fresh(u)'
  <2>1. Fresh(u) /\ txn'[u] = txn[u] BY <1>4 DEF TimeInv
  <2>2. \A e : RowsStay(e) BY DEF RowsStay
  <2> QED BY <1>1, <2>1, <2>2, FreshStays
<1> QED BY <1>3, <1>4 DEF TimeInv

(* What a punch claims when it reads under the lock. *)
LEMMA LockAndReadIsFresh ==
  ASSUME TimeInv, NEW s \in Sessions, LockAndRead(s)
  PROVE  Fresh(s)'
<1>1. TypeOK /\ s \in Transactions /\ Fresh(s) /\ now \in Nat
  BY DEF TimeInv, SafeInv, OpenInv, TypeInv, TypeOK, Transactions
<1>2. txn[s] \in Waiting
  BY <1>1, IdleIsNoTransaction DEF LockAndRead, TypeOK
<1> DEFINE op == txn[s].op
           e == txn[s].emp
<1>3. op \in Ops /\ op # "autoClose" /\ txn[s].pc = "waiting" BY <1>2 DEF Waiting, Ops
<1>4. PICK at \in Claims(s, op), id \in FindOpen(e) :
        /\ Accepted(op, RowOrNull(id), at)
        /\ txn' = [txn EXCEPT ![s] =
                     [pc |-> "holding", op |-> @.op, emp |-> @.emp, job |-> @.job,
                      at |-> at, id |-> id, seen |-> RowOrNull(id)]]
  BY DEF LockAndRead
<1>5. /\ txn'[s].op = op /\ txn'[s].emp = e /\ txn'[s].job = txn[s].job
      /\ txn'[s].at = at /\ txn'[s].seen = RowOrNull(id) /\ txn'[s].pc = "holding"
  BY <1>1, <1>4 DEF TypeOK
<1>6. UNCHANGED entries /\ now' = now + 1 BY DEF LockAndRead
<1>7. at \in 0..now /\ at < now' BY <1>1, <1>6 DEF Claims
<1>8. \A i \in DOMAIN entries : RowSound(i) /\ entries[i] \in Row
  BY <1>1 DEF TimeInv, TypeOK
<1>9. ASSUME op # "clockIn"
      PROVE  /\ RowOrNull(id) \in Row /\ Closable(op, RowOrNull(id), at)
  <2>1. id \in OpenEntries(entries, e) /\ RowOrNull(id) = entries[id] /\ Closable(op, entries[id], at)
    BY <1>1, <1>4, <1>9, AcceptedRead
  <2> QED BY <1>8, <2>1 DEF OpenEntries
<1>10. ASSUME op = "lunchOut" PROVE RowOrNull(id).start + LunchPrompt <= at
  <2>1. RowOrNull(id).start \in Nat /\ LunchPrompt \in Nat /\ at \in Nat
    BY <1>7, <1>9, <1>10, PunchClockAssumption DEF Row
  <2>2. at >= RowOrNull(id).start /\ SecondsBetween(RowOrNull(id).start, at) >= LunchPrompt
    BY <1>9, <1>10 DEF Closable
  <2> QED BY <2>1, <2>2 DEF SecondsBetween
<1>11. ASSUME op # "clockIn" PROVE RowOrNull(id).start <= at
  <2>1. RowOrNull(id).start \in Nat BY <1>9, <1>11 DEF Row
  <2>2. at >= RowOrNull(id).start BY <1>9, <1>11 DEF Closable
  <2> QED BY <1>7, <2>1, <2>2
<1>12. op = "switchJob" =>
         \A i \in DOMAIN entries : entries[i].emp = e => entries[i].start # at
  <2>1. \A i \in DOMAIN entries : entries[i].start # now
    BY <1>1, <1>8 DEF RowSound, Row
  <2>2. op = "switchJob" => at = now BY <1>4 DEF Claims
  <2> QED BY <2>1, <2>2
<1>13. ASSUME op = "clockIn", s \notin OfflineSessions, NEW i \in DOMAIN entries, entries[i].emp = e
       PROVE  entries[i].end # Null /\ entries[i].end <= at
  <2>1. OpenEntries(entries, e) = {} BY <1>1, <1>4, <1>13, AcceptedRead
  <2>2. ~IsOpen(entries[i]) /\ ~entries[i].deleted
    BY <1>8, <1>13, <2>1 DEF OpenEntries, RowSound
  <2>3. entries[i].end # Null /\ entries[i].end \in Nat /\ entries[i].end < now
    BY <1>8, <2>2 DEF IsOpen, RowSound, Row
  <2>4. at = now BY <1>13 DEF Claims
  <2> QED BY <1>1, <2>3, <2>4
<1>14. op \in {"breakIn", "switchJob", "lunchOut"} => RowOrNull(id).type = "work"
  BY <1>9 DEF Closable
<1>15. op = "breakOut" => RowOrNull(id).type = "break"
  BY <1>9 DEF Closable
<1>16. op = "switchJob" => txn[s].job \in Jobs
  BY <1>1, <1>3 DEF Fresh
<1> HIDE DEF op, e
<1> QED
  BY <1>3, <1>5, <1>6, <1>7, <1>10, <1>11, <1>12, <1>13, <1>14, <1>15, <1>16
  DEF Fresh, InTransaction

(* A lunch that is split off lies within the stretch. *)
LEMMA LunchInside ==
  ASSUME TimeInv, NEW s \in Transactions, Commit(s), txn[s].op = "lunchOut"
  PROVE  LET out == LunchStart(txn[s])
         IN  /\ out \in Nat /\ out + Lunch \in Nat
             /\ txn[s].seen.start <= out /\ out + Lunch <= txn[s].at
<1> DEFINE a == txn[s].seen.start
           b == txn[s].at
<1>1. CommitShape(s) /\ InTransaction(s) /\ b \in Nat /\ Fresh(s)
  BY CommitShapes DEF TimeInv
<1>2. a \in Nat BY <1>1 DEF CommitShape, Row
<1>3. Lunch \in Nat /\ LunchPrompt \in Nat /\ Lunch <= LunchPrompt BY PunchClockAssumption
<1>4. a + LunchPrompt <= b BY <1>1 DEF Fresh
<1> HIDE DEF a, b
<1>5. SecondsBetween(a, b) = b - a BY <1>1, <1>2, <1>3, <1>4 DEF SecondsBetween
<1>6. PICK d \in Nat : d = b - a - Lunch BY <1>1, <1>2, <1>3, <1>4
<1>7. LunchStart(txn[s]) = a + (d \div 2) BY <1>5, <1>6 DEF LunchStart, a, b
<1>8. d \div 2 \in Nat /\ d \div 2 <= d BY <1>6
<1>9. a + d + Lunch = b BY <1>1, <1>2, <1>3, <1>6
<1> QED BY <1>1, <1>2, <1>3, <1>7, <1>8, <1>9 DEF a, b

(* Where a commit ends the row it closes. *)
LEMMA CommitEnds ==
  ASSUME TimeInv, NEW s \in Transactions, Commit(s), txn[s].op # "clockIn"
  PROVE  LET row == entries'[txn[s].id]
         IN  row.end \in Nat /\ row.end <= txn[s].at /\ txn[s].seen.start <= row.end
<1> DEFINE t == txn[s]
<1>1. CommitShape(s) /\ InTransaction(s) /\ t.at \in Nat /\ Fresh(s)
  BY CommitShapes DEF TimeInv
<1>2. t.seen.start \in Nat /\ t.seen.start <= t.at BY <1>1 DEF CommitShape, Row, Fresh
<1>3. CASE t.op # "lunchOut"
  <2>1. entries'[t.id].end = t.at
    BY <1>1, <1>3 DEF CommitShape, EndsShift, NextStretch, Ops
  <2> QED BY <1>1, <1>2, <2>1
<1>4. CASE t.op = "lunchOut"
  <2>1. entries'[t.id].end = LunchStart(t) BY <1>1, <1>4 DEF CommitShape, SplitsLunch
  <2>2. /\ LunchStart(t) \in Nat /\ LunchStart(t) + Lunch <= t.at /\ t.seen.start <= LunchStart(t)
    BY <1>4, LunchInside
  <2> QED BY <1>1, <2>1, <2>2, PunchClockAssumption
<1> QED BY <1>3, <1>4

(* The rows a commit adds. *)
LEMMA CommitAdds ==
  ASSUME TimeInv, NEW s \in Transactions, Commit(s),
         NEW i \in DOMAIN entries', i \notin DOMAIN entries
  PROVE  LET t == txn[s]
             new == entries'[i]
         IN  /\ new \in Row /\ ~new.deleted /\ new.emp = t.emp
             /\ new.shift = IF t.op = "clockIn" THEN i ELSE t.seen.shift
             /\ new.start <= t.at /\ (new.end # Null => new.end <= t.at)
             /\ t.op # "clockIn" => entries'[t.id].end <= new.start
<1> DEFINE t == txn[s]
           new == entries'[i]
<1>1. CommitShape(s) /\ InTransaction(s) /\ t.at \in Nat /\ Fresh(s)
  BY CommitShapes DEF TimeInv
<1>2. Written(t) BY CommitWritten DEF TimeInv
<1>3. i \in (Len(entries) + 1)..Len(entries') /\ new \in Row BY <1>2 DEF Written
<1>4. CASE t.op = "clockIn"
  <2>1. i = Len(entries) + 1
    BY <1>1, <1>3, <1>4 DEF CommitShape, StartsShift, Grows
  <2>2. Begun(new, t, i, "work", t.job, t.at, Null)
    BY <1>1, <1>4, <2>1 DEF CommitShape, StartsShift
  <2> QED BY <1>1, <1>3, <1>4, <2>2 DEF Begun
<1>5. CASE t.op \in {"clockOut", "autoClose"}
  <2>1. Len(entries') = Len(entries) /\ Len(entries) \in Nat
    BY <1>1, <1>5 DEF CommitShape, EndsShift, Grows
  <2> QED BY <1>3, <2>1
<1>6. CASE t.op \in {"breakIn", "breakOut", "switchJob"}
  <2>1. PICK type, job : NextStretch(t, type, job)
    BY <1>1, <1>6 DEF CommitShape
  <2>2. i = Len(entries) + 1
    BY <1>1, <1>3, <2>1 DEF CommitShape, NextStretch, Grows
  <2>3. Begun(new, t, t.seen.shift, type, job, t.at, Null) /\ entries'[t.id].end = t.at
    BY <2>1, <2>2 DEF NextStretch
  <2> QED BY <1>1, <1>3, <1>6, <2>3 DEF Begun
<1>7. CASE t.op = "lunchOut"
  <2> DEFINE out == LunchStart(t)
             back == out + Lunch
  <2>1. SplitsLunch(t) BY <1>1, <1>7 DEF CommitShape
  <2>2. i \in {Len(entries) + 1, Len(entries) + 2}
    BY <1>1, <1>3, <2>1 DEF CommitShape, SplitsLunch, Grows
  <2>3. \/ Begun(new, t, t.seen.shift, "break", Null, out, back)
        \/ Begun(new, t, t.seen.shift, "work", t.seen.job, back, t.at)
    BY <2>1, <2>2 DEF SplitsLunch
  <2>4. entries'[t.id].end = out BY <2>1 DEF SplitsLunch
  <2>5. out \in Nat /\ back \in Nat /\ back <= t.at BY <1>7, LunchInside
  <2>6. out <= back /\ out <= t.at BY <1>1, <2>5, PunchClockAssumption
  <2> HIDE DEF out, back
  <2> QED BY <1>1, <1>3, <1>7, <2>3, <2>4, <2>5, <2>6 DEF Begun
<1> QED BY <1>1, <1>4, <1>5, <1>6, <1>7 DEF CommitShape, Ops

(* A commit keeps all rows sound. *)
LEMMA CommitKeepsRows ==
  ASSUME TimeInv, NEW s \in Transactions, Commit(s), NEW i \in DOMAIN entries'
  PROVE  RowSound(i)'
<1> DEFINE t == txn[s]
<1>1. CommitShape(s) /\ InTransaction(s) /\ t.at \in Nat /\ Fresh(s) /\ t.at < now
  BY CommitShapes DEF TimeInv, Fresh
<1>2. Written(t) /\ now \in Nat /\ now' = now
  BY CommitWritten DEF TimeInv, SafeInv, OpenInv, TypeInv, TypeOK, Commit
<1>3. \A k \in DOMAIN entries : RowSound(k) /\ Lasting(entries[k], entries'[k]) /\ k \in Nat
  BY <1>2 DEF TimeInv, Written
<1>4. DOMAIN entries \subseteq DOMAIN entries' /\ \A k \in DOMAIN entries : 1..k \subseteq DOMAIN entries
  BY <1>2 DEF Written
<1>5. CASE i \in DOMAIN entries
  <2>1. RowSound(i) /\ Lasting(entries[i], entries'[i]) BY <1>3, <1>5
  <2>2. entries[i].shift \in DOMAIN entries BY <1>4, <1>5, <2>1 DEF RowSound
  <2>3. entries'[entries'[i].shift].emp = entries'[i].emp
    BY <1>3, <2>1, <2>2 DEF RowSound, Lasting
  <2>4. entries'[i].end # Null => entries'[i].end < now
    <3>1. CASE t.op = "clockIn" \/ i # t.id
      <4>1. entries'[i] = entries[i] \/ (t.op = "clockIn" /\ entries'[i] = entries[i])
        BY <1>1, <1>2, <1>5, <3>1 DEF Written, CommitShape, StartsShift
      <4> QED BY <2>1, <4>1 DEF RowSound
    <3>2. CASE t.op # "clockIn" /\ i = t.id
      <4>1. entries'[i].end \in Nat /\ entries'[i].end <= t.at BY <3>2, CommitEnds
      <4> QED BY <1>1, <1>2, <4>1
    <3> QED BY <3>1, <3>2
  <2> QED BY <1>2, <2>1, <2>3, <2>4 DEF RowSound, Lasting
<1>6. CASE i \notin DOMAIN entries
  <2> DEFINE new == entries'[i]
  <2>1. /\ new \in Row /\ ~new.deleted /\ new.emp = t.emp
        /\ new.shift = IF t.op = "clockIn" THEN i ELSE t.seen.shift
        /\ new.start <= t.at /\ (new.end # Null => new.end <= t.at)
    BY <1>6, CommitAdds
  <2>2. i \in Nat /\ i >= 1 /\ \A k \in DOMAIN entries : k < i
    BY <1>2, <1>6 DEF Written
  <2>3. new.start < now /\ (new.end # Null => new.end < now)
    <3>1. new.start \in Nat /\ (new.end # Null => new.end \in Nat) BY <2>1 DEF Row
    <3> QED BY <1>1, <1>2, <2>1, <3>1
  <2>4. new.shift \in 1..i /\ entries'[new.shift].emp = new.emp
    <3>1. CASE t.op = "clockIn" BY <2>1, <2>2, <3>1
    <3>2. CASE t.op # "clockIn"
      <4>1. t.id \in DOMAIN entries /\ entries[t.id] = t.seen /\ entries[t.id].emp = t.emp
        BY <1>1, <1>2, <3>2 DEF CommitShape, Written
      <4>2. RowSound(t.id) BY <1>3, <4>1
      <4>3. t.seen.shift \in 1..t.id /\ entries[t.seen.shift].emp = t.emp
        BY <4>1, <4>2 DEF RowSound
      <4>4. t.seen.shift \in DOMAIN entries BY <1>4, <4>1, <4>3
      <4>5. t.seen.shift \in 1..i BY <2>2, <4>3, <4>4
      <4>6. entries'[t.seen.shift].emp = t.emp BY <1>3, <4>3, <4>4 DEF Lasting
      <4> QED BY <2>1, <3>2, <4>5, <4>6
    <3> QED BY <3>1, <3>2
  <2> QED BY <1>2, <2>1, <2>3, <2>4 DEF RowSound
<1> QED BY <1>5, <1>6

(* Nor does it concern what anybody else has read. *)
LEMMA CommitKeepsTime ==
  ASSUME Editors = {}, TimeInv, NEW s \in Transactions, Commit(s), SafeInv'
  PROVE  TimeInv'
<1> DEFINE t == txn[s]
<1>1. /\ TypeOK /\ now \in Nat /\ now' = now
      /\ InTransaction(s) /\ Written(t)
  BY CommitShapes, CommitWritten DEF TimeInv, SafeInv, OpenInv, TypeInv, TypeOK, Commit
<1>2. txn' = [txn EXCEPT ![s] = Idle] /\ due' \subseteq due BY DEF Commit, Release
<1>3. Fresh(s)'
  <2>1. txn'[s] = Idle BY <1>1, <1>2 DEF TypeOK
  <2> QED BY <2>1, OutsideIsFresh, IdleIsNoTransaction
<1>4. ASSUME NEW u \in Transactions, u # s PROVE Fresh(u)'
  <2>1. txn'[u] = txn[u] /\ Fresh(u) /\ SafeAt(u) /\ SafeAt(s)
    BY <1>1, <1>2, <1>4 DEF TypeOK, TimeInv, SafeInv
  <2>2. ASSUME InTransaction(u) PROVE RowsStay(txn[u].emp)
    <3>1. lock[t.emp] = s BY <1>1, <2>1 DEF SafeAt
    <3>2. txn[u].emp # t.emp BY <1>4, <2>1, <2>2, <3>1, OneHolder, TransactionsAreNotNull
    <3> QED BY <1>1, <3>2, OthersStay
  <2> QED BY <1>1, <2>1, <2>2, FreshStays
<1>5. DueInPast'
  <2>1. due \subseteq 1..Len(entries) BY <1>1 DEF TypeOK
  <2>2. \A i \in due : entries'[i].start = entries[i].start
    BY <1>1, <2>1 DEF Written, Lasting
  <2> QED BY <1>1, <1>2, <2>2 DEF DueInPast, TimeInv
<1>6. \A i \in DOMAIN entries' : RowSound(i)' BY CommitKeepsRows
<1> QED BY <1>3, <1>4, <1>5, <1>6 DEF TimeInv

(* The sessions' steps that write no row. *)
LEMMA SessionKeepsTime ==
  ASSUME TimeInv, SafeInv', NEW s \in Sessions,
         \/ \E op \in Ops, e \in Employees, j \in Jobs \cup {Null} : Request(s, op, e, j)
         \/ LockAndRead(s) \/ Refuse(s) \/ ReadAgain(s)
  PROVE  TimeInv'
<1>1. TypeOK /\ s \in Transactions /\ now \in Nat /\ Fresh(s)
  BY DEF TimeInv, SafeInv, OpenInv, TypeInv, TypeOK, Transactions
<1>2. UNCHANGED <<entries, due>> /\ now' \in Nat /\ now <= now'
  BY <1>1 DEF Request, LockAndRead, Refuse, ReadAgain
<1>3. \A u \in Transactions \ {s} : txn'[u] = txn[u]
  BY <1>1 DEF Request, LockAndRead, Refuse, ReadAgain, TypeOK
<1>4. DueInPast'
  <2>1. \A i \in due : i \in DOMAIN entries /\ entries[i] \in Row
    BY <1>1, LenProperties, ElementOfSeq DEF TypeOK
  <2>2. \A i \in due : entries[i].start + AutoAfter \in Nat
    BY <2>1, PunchClockAssumption DEF Row
  <2> QED BY <1>1, <1>2, <2>2 DEF DueInPast, TimeInv
<1>5. Fresh(s)'
  <2>1. ASSUME NEW op \in Ops, NEW e \in Employees, NEW j \in Jobs \cup {Null}, Request(s, op, e, j)
        PROVE  Fresh(s)'
    <3>1. txn'[s] = [pc |-> "waiting", op |-> op, emp |-> e, job |-> j] /\ (j = Null => op # "switchJob")
      BY <1>1, <2>1 DEF Request, TypeOK
    <3>2. txn'[s] \in Waiting BY <3>1 DEF Waiting
    <3>3. txn'[s].op = "switchJob" => txn'[s].job \in Jobs BY <3>1
    <3> QED BY <3>2, <3>3, OutsideIsFresh
  <2>2. ASSUME Refuse(s) PROVE Fresh(s)'
    <3>1. txn'[s] = Idle BY <1>1, <2>2 DEF Refuse, TypeOK
    <3> QED BY <3>1, OutsideIsFresh, IdleIsNoTransaction
  <2>3. ASSUME ReadAgain(s) PROVE Fresh(s)'
    <3>1. /\ txn'[s].op = "lunchOut" /\ txn'[s].emp = txn[s].emp /\ txn'[s].at = txn[s].at
          /\ txn'[s].seen = txn[s].seen /\ txn'[s].pc = "splitting" /\ txn'[s].job = txn[s].job
      BY <1>1, <2>3 DEF ReadAgain, TypeOK
    <3>2. txn[s].op = "lunchOut" /\ InTransaction(s) /\ now' = now /\ UNCHANGED entries
      BY <2>3 DEF ReadAgain, InTransaction
    <3> QED BY <1>1, <3>1, <3>2 DEF Fresh, InTransaction
  <2> QED BY <2>1, <2>2, <2>3, LockAndReadIsFresh
<1> QED BY <1>2, <1>3, <1>4, <1>5, TableStays

(* A rollback and a lost connection. *)
LEMMA AbortKeepsTime ==
  ASSUME TimeInv, SafeInv', NEW s \in Transactions, Rollback(s) \/ Disconnect(s)
  PROVE  TimeInv'
<1>1. TypeOK /\ now \in Nat
  BY DEF TimeInv, SafeInv, OpenInv, TypeInv, TypeOK
<1>2. txn' = [txn EXCEPT ![s] = Idle] /\ UNCHANGED <<now, entries>> /\ due' \subseteq due
  BY DEF Rollback, Disconnect, Release
<1>3. \A u \in Transactions \ {s} : txn'[u] = txn[u] BY <1>1, <1>2 DEF TypeOK
<1>4. DueInPast' BY <1>2 DEF DueInPast, TimeInv
<1>5. txn'[s] = Idle BY <1>1, <1>2 DEF TypeOK
<1>6. Fresh(s)' BY <1>5, OutsideIsFresh, IdleIsNoTransaction
<1> QED BY <1>1, <1>2, <1>3, <1>4, <1>6, TableStays

(* The sweep lists shifts that are over, and ends each of them at an instant
   that has passed. *)
LEMMA SweepKeepsTime ==
  ASSUME TimeInv, SafeInv', Sweeping
  PROVE  TimeInv'
<1>1. /\ TypeOK /\ now \in Nat /\ Cron \in Transactions
      /\ \A i \in due : i \in DOMAIN entries /\ entries[i] \in Row
  BY LenProperties, ElementOfSeq DEF TimeInv, SafeInv, OpenInv, TypeInv, TypeOK, Transactions
<1>2. UNCHANGED <<now, entries>> BY DEF Sweeping, SweepScan, AutoRead
<1>3. \A u \in Transactions \ {Cron} : txn'[u] = txn[u]
  BY <1>1 DEF Sweeping, SweepScan, AutoRead, TypeOK
<1>4. DueInPast'
  <2>1. CASE SweepScan BY <1>2, <2>1 DEF SweepScan, DueInPast
  <2>2. CASE due' \subseteq due BY <1>2, <2>2 DEF DueInPast, TimeInv
  <2>3. SweepScan \/ due' \subseteq due BY DEF Sweeping, AutoRead
  <2> QED BY <2>1, <2>2, <2>3
<1>5. Fresh(Cron)'
  <2>1. CASE txn' = txn
    <3>1. Fresh(Cron) /\ \A e : RowsStay(e) BY <1>1, <1>2 DEF TimeInv, RowsStay
    <3> QED BY <1>1, <1>2, <2>1, <3>1, FreshStays
  <2>2. ASSUME NEW id \in due, AutoRead(id), StillOpen(id) PROVE Fresh(Cron)'
    <3>1. /\ txn'[Cron].pc = "holding" /\ txn'[Cron].op = "autoClose"
          /\ txn'[Cron].at = entries[id].start + AutoAfter /\ txn'[Cron].seen = entries[id]
      BY <1>1, <2>2 DEF AutoRead, TypeOK
    <3>2. entries[id].start + AutoAfter < now BY DEF TimeInv, DueInPast
    <3>3. entries[id].start <= entries[id].start + AutoAfter
      BY <1>1, PunchClockAssumption DEF Row
    <3> QED BY <1>2, <3>1, <3>2, <3>3 DEF Fresh, InTransaction
  <2>3. \/ txn' = txn
        \/ \E id \in due : AutoRead(id) /\ StillOpen(id)
    BY DEF Sweeping, SweepScan, AutoRead
  <2> QED BY <2>1, <2>2, <2>3
<1> QED BY <1>1, <1>2, <1>3, <1>4, <1>5, TableStays

(* Every step keeps rows and punches sound in time. *)
LEMMA TimeStep ==
  ASSUME Editors = {}
  PROVE  TimeInv /\ [Next]_vars => TimeInv'
<1> SUFFICES ASSUME TimeInv, [Next]_vars PROVE TimeInv' OBVIOUS
<1>1. SafeInv' BY SafeStep DEF TimeInv
<1>2. /\ TypeOK /\ now \in Nat
      /\ \A i \in due : i \in DOMAIN entries /\ entries[i] \in Row
  BY LenProperties, ElementOfSeq DEF TimeInv, SafeInv, OpenInv, TypeInv, TypeOK
<1>3. CASE Punching
  BY <1>1, <1>3, SessionKeepsTime, CommitKeepsTime, AbortKeepsTime DEF Punching
<1>4. CASE Sweeping BY <1>1, <1>4, SweepKeepsTime
<1>5. ~Reviewing BY DEF Reviewing
<1>6. CASE (\E e \in Employees : Terminate(e)) \/ Tick \/ UNCHANGED vars
  <2>1. UNCHANGED <<entries, txn, due>> /\ now' \in Nat /\ now <= now'
    BY <1>2, <1>6 DEF Terminate, Tick, vars
  <2>2. DueInPast'
    <3>1. \A i \in due : entries[i].start + AutoAfter \in Nat
      BY <1>2, PunchClockAssumption DEF Row
    <3> QED BY <1>2, <2>1, <3>1 DEF DueInPast, TimeInv
  <2>3. Null \notin Transactions BY TransactionsAreNotNull
  <2> QED BY <1>1, <2>1, <2>2, <2>3, TableStays
<1> QED BY <1>3, <1>4, <1>5, <1>6 DEF Next

(* A shift has no gap: the rows a commit adds begin where the row it closed,
   or the lunch it added before them, ended. *)
LEMMA CommitKeepsContiguous ==
  ASSUME TimeInv, ShiftContiguous, NEW s \in Transactions, Commit(s)
  PROVE  ShiftContiguous'
<1> DEFINE t == txn[s]
           Follows(i) == \E k \in 1..(i - 1) : /\ entries'[k].shift = entries'[i].shift
                                                /\ entries'[k].emp = entries'[i].emp
                                                /\ entries'[k].end = entries'[i].start
<1>1. CommitShape(s) /\ Written(t) BY CommitShapes, CommitWritten DEF TimeInv
<1>2. ASSUME NEW i \in DOMAIN entries, entries'[i].shift # i PROVE Follows(i)
  <2>1. entries[i].shift # i /\ i \in 1..Len(entries) /\ entries[i] \in Row
    BY <1>1, <1>2 DEF Written, Lasting
  <2>2. PICK k \in 1..(i - 1) : /\ entries[k].shift = entries[i].shift
                                /\ entries[k].emp = entries[i].emp
                                /\ entries[k].end = entries[i].start
    BY <2>1 DEF ShiftContiguous
  <2>3. k \in 1..Len(entries) BY <1>1, <2>1 DEF Written
  <2>4. entries[i].start # Null BY <2>1, NullAssumption DEF Row
  <2>5. entries'[k] = entries[k] BY <1>1, <2>2, <2>3, <2>4 DEF Written
  <2> QED BY <1>1, <2>1, <2>2, <2>5 DEF Written, Lasting
<1>3. ASSUME NEW i \in DOMAIN entries', i \notin DOMAIN entries, entries'[i].shift # i
      PROVE  Follows(i)
  <2> DEFINE new == entries'[i]
  <2>1. /\ new.emp = t.emp
        /\ new.shift = IF t.op = "clockIn" THEN i ELSE t.seen.shift
    BY <1>3, CommitAdds
  <2>2. t.op # "clockIn" /\ new.shift = t.seen.shift BY <1>3, <2>1
  <2>3. t.id \in 1..Len(entries) /\ entries[t.id] = t.seen BY <1>1, <2>2 DEF CommitShape
  <2>4. entries'[t.id].shift = t.seen.shift /\ entries'[t.id].emp = t.emp
    BY <1>1, <2>3 DEF Written, Lasting
  <2>5. i \in (Len(entries) + 1)..Len(entries') /\ Len(entries) \in Nat /\ Len(entries') \in Nat
    BY <1>1, <1>3 DEF Written
  <2>6. t.id \in 1..(i - 1) BY <2>3, <2>5
  <2>7. CASE t.op \in {"clockOut", "autoClose"}
    <3>1. Len(entries') = Len(entries) BY <1>1, <2>5, <2>7 DEF CommitShape, EndsShift, Grows
    <3> QED BY <2>5, <3>1
  <2>8. CASE t.op \in {"breakIn", "breakOut", "switchJob"}
    <3>1. PICK type, job : NextStretch(t, type, job) BY <1>1, <2>8 DEF CommitShape
    <3>2. i = Len(entries) + 1 BY <2>5, <3>1 DEF NextStretch, Grows
    <3>3. new.start = t.at /\ entries'[t.id].end = t.at
      BY <3>1, <3>2 DEF NextStretch, Begun
    <3> QED BY <2>1, <2>2, <2>4, <2>6, <3>3
  <2>9. CASE t.op = "lunchOut"
    <3> DEFINE out == LunchStart(t)
               back == out + Lunch
               lunch == entries'[Len(entries) + 1]
    <3>1. SplitsLunch(t) BY <1>1, <2>9 DEF CommitShape
    <3>2. i = Len(entries) + 1 \/ i = Len(entries) + 2 BY <2>5, <3>1 DEF SplitsLunch, Grows
    <3>3. CASE i = Len(entries) + 1
      <4>1. new.start = out /\ entries'[t.id].end = out BY <3>1, <3>3 DEF SplitsLunch, Begun
      <4> QED BY <2>1, <2>2, <2>4, <2>6, <4>1
    <3>4. CASE i = Len(entries) + 2
      <4>1. /\ new.start = back /\ lunch.end = back
            /\ lunch.shift = t.seen.shift /\ lunch.emp = t.emp
        BY <3>1, <3>4 DEF SplitsLunch, Begun
      <4>2. Len(entries) + 1 \in 1..(i - 1) BY <2>5, <3>4
      <4> QED BY <2>1, <2>2, <4>1, <4>2
    <3> QED BY <3>2, <3>3, <3>4
  <2> QED BY <1>1, <2>2, <2>7, <2>8, <2>9 DEF CommitShape, Ops
<1> QED BY <1>2, <1>3 DEF ShiftContiguous

(* Where nobody edits, only a commit writes rows. *)
LEMMA OnlyCommitsWrite ==
  ASSUME Editors = {}, [Next]_vars
  PROVE  UNCHANGED entries \/ \E s \in Transactions : Commit(s)
BY DEF Next, Punching, Sweeping, Reviewing, Request, LockAndRead, Refuse, ReadAgain, Rollback,
       Disconnect, SweepScan, AutoRead, Terminate, Tick, vars

(* Where nobody edits, a shift is one unbroken stretch: every row of it but
   the first begins at the instant another row of it ended. *)
THEOREM ShiftsHaveNoGap ==
  ASSUME Editors = {}
  PROVE  Spec => []ShiftContiguous
<1> DEFINE Inv == TimeInv /\ ShiftContiguous
<1>1. Init => Inv
  <2>1. Init => DOMAIN entries = {} BY DEF Init
  <2> QED BY <2>1, TimeInit DEF ShiftContiguous
<1>2. Inv /\ [Next]_vars => Inv'
  <2> SUFFICES ASSUME Inv, [Next]_vars PROVE Inv' OBVIOUS
  <2>1. TimeInv' BY TimeStep
  <2>2. UNCHANGED entries => ShiftContiguous' BY DEF ShiftContiguous
  <2> QED BY <2>1, <2>2, OnlyCommitsWrite, CommitKeepsContiguous
<1> QED BY <1>1, <1>2, PTL DEF Spec

(* Whether the shift of a row was begun by a replayed punch. *)
Replayed(i) == entries[entries[i].shift].offline

(* Of two rows of one employee in shifts begun online, the earlier has ended
   when the later begins. *)
Ordered ==
  \A i, k \in DOMAIN entries :
    i < k /\ entries[i].emp = entries[k].emp /\ ~Replayed(i) /\ ~Replayed(k) =>
      entries[i].end # Null /\ entries[i].end <= entries[k].start

(* A commit puts its rows behind those of the employee. *)
LEMMA CommitKeepsOrder ==
  ASSUME TimeInv, Ordered, NEW s \in Transactions, Commit(s)
  PROVE  Ordered'
<1> DEFINE t == txn[s]
<1>1. CommitShape(s) /\ Written(t) /\ Fresh(s) /\ InTransaction(s)
  BY CommitShapes, CommitWritten DEF TimeInv
<1>2. \A i \in DOMAIN entries :
        /\ RowSound(i) /\ entries[i] \in Row /\ i \in Nat
        /\ i \in DOMAIN entries' /\ entries'[i] \in Row
        /\ Lasting(entries[i], entries'[i]) /\ entries[i].shift \in DOMAIN entries
  <2>1. \A i \in DOMAIN entries : RowSound(i) /\ i \in 1..Len(entries)
    BY <1>1 DEF TimeInv, Written
  <2> QED BY <1>1, <2>1 DEF Written, RowSound
<1>3. \A i \in DOMAIN entries : Replayed(i)' = Replayed(i)
  BY <1>2 DEF Replayed, Lasting
<1>4. \A i \in DOMAIN entries' : entries'[i] \in Row /\ i \in Nat
  BY <1>1 DEF Written
<1> SUFFICES ASSUME NEW i \in DOMAIN entries', NEW k \in DOMAIN entries', i < k,
                    entries'[i].emp = entries'[k].emp, ~Replayed(i)', ~Replayed(k)'
             PROVE  entries'[i].end # Null /\ entries'[i].end <= entries'[k].start
  BY DEF Ordered
<1>5. k \in DOMAIN entries => i \in DOMAIN entries BY <1>1 DEF Written
<1>6. CASE k \in DOMAIN entries
  <2>1. entries[i].end # Null /\ entries[i].end <= entries[k].start
    BY <1>2, <1>3, <1>5, <1>6 DEF Ordered, Lasting
  <2>2. entries'[i] = entries[i] BY <1>1, <1>5, <1>6, <2>1 DEF Written
  <2> QED BY <1>2, <1>6, <2>1, <2>2 DEF Lasting
<1>7. CASE k \notin DOMAIN entries /\ t.op = "clockIn"
  <2>1. StartsShift(t, s \in OfflineSessions) BY <1>1, <1>7 DEF CommitShape
  <2>2. k = Len(entries) + 1 /\ i \in DOMAIN entries
    BY <1>1, <1>7, <2>1 DEF Written, StartsShift, Grows
  <2>3. /\ entries'[k].shift = k /\ entries'[k].emp = t.emp /\ entries'[k].start = t.at
        /\ entries'[k].offline = (s \in OfflineSessions)
        /\ entries'[i] = entries[i]
    BY <1>1, <2>1, <2>2 DEF StartsShift, Begun, Written
  <2>4. s \notin OfflineSessions BY <2>3 DEF Replayed
  <2>5. entries[i].end # Null /\ entries[i].end <= t.at
    BY <1>1, <1>7, <2>2, <2>3, <2>4 DEF Fresh
  <2> QED BY <2>3, <2>5
<1>8. CASE k \notin DOMAIN entries /\ t.op # "clockIn"
  <2> DEFINE id == t.id
             closed == entries'[id]
             new == entries'[k]
  <2>1. /\ new.emp = t.emp /\ new.shift = t.seen.shift /\ closed.end <= new.start
    BY <1>8, CommitAdds
  <2>2. closed.end \in Nat /\ t.seen.start <= closed.end BY <1>8, CommitEnds
  <2>3. /\ id \in DOMAIN entries /\ entries[id] = t.seen /\ entries[id].emp = t.emp
        /\ entries[id].end = Null
    <3>1. id \in OpenEntries(entries, t.emp) /\ entries[id] = t.seen
      BY <1>1, <1>8 DEF CommitShape
    <3> QED BY <3>1 DEF OpenEntries, IsOpen
  <2>4. ~Replayed(id)
    <3>1. Replayed(k)' = Replayed(id)
      BY <1>2, <2>1, <2>3 DEF Replayed, Lasting
    <3> QED BY <3>1
  <2>5. new.start \in Nat BY <1>4 DEF Row
  <2>6. CASE i \in DOMAIN entries
    <3>1. entries[i].emp = t.emp /\ ~Replayed(i) BY <1>2, <1>3, <2>1, <2>6 DEF Lasting
    <3>2. ~(id < i)
      BY <2>3, <2>4, <2>6, <3>1 DEF Ordered
    <3>3. CASE i = id BY <2>1, <2>2, <3>3, NullAssumption
    <3>4. CASE i < id
      <4>1. entries[i].end # Null /\ entries[i].end <= t.seen.start
        BY <2>3, <2>4, <2>6, <3>1, <3>4 DEF Ordered
      <4>2. entries'[i] = entries[i] BY <1>1, <2>6, <4>1 DEF Written
      <4>3. entries[i].end \in Nat /\ t.seen.start \in Nat
        BY <1>2, <2>3, <2>6, <4>1 DEF Row
      <4> QED BY <2>1, <2>2, <2>5, <4>1, <4>2, <4>3
    <3> QED BY <1>2, <2>3, <2>6, <3>2, <3>3, <3>4
  <2>7. CASE i \notin DOMAIN entries
    <3>1. i \in (Len(entries) + 1)..Len(entries') /\ k \in (Len(entries) + 1)..Len(entries')
      BY <1>1, <1>8, <2>7 DEF Written
    <3>0. Len(entries) \in Nat /\ Len(entries') \in Len(entries)..(Len(entries) + 2)
      BY <1>1 DEF Written
    <3>2. Len(entries') = Len(entries) + 2 /\ i = Len(entries) + 1 /\ k = Len(entries) + 2
      BY <3>0, <3>1
    <3>3. t.op = "lunchOut"
      BY <1>1, <1>8, <3>2 DEF CommitShape, EndsShift, NextStretch, Grows, Ops
    <3>4. entries'[i].end = LunchStart(t) + Lunch /\ new.start = LunchStart(t) + Lunch
      BY <1>1, <3>2, <3>3 DEF CommitShape, SplitsLunch, Begun
    <3> QED BY <2>5, <3>4, NullAssumption
  <2> QED BY <2>6, <2>7
<1> QED BY <1>6, <1>7, <1>8

(* Rows that are in order do not overlap. *)
LEMMA OrderedMeansOnce ==
  ASSUME TimeInv, Ordered, EndedAfterStarted(entries)
  PROVE  NoDoubleCounting
<1> SUFFICES ASSUME NEW i \in DOMAIN entries, NEW k \in DOMAIN entries, i # k,
                    entries[i].emp = entries[k].emp, Overlap(entries[i], entries[k]),
                    ~Replayed(i), ~Replayed(k)
             PROVE  FALSE
  BY DEF NoDoubleCounting, Replayed
<1>1. entries[i] \in Row /\ entries[k] \in Row /\ i \in Nat /\ k \in Nat
  BY LenProperties, ElementOfSeq DEF TimeInv, SafeInv, OpenInv, TypeInv, TypeOK
<1>2. /\ entries[k].start # entries[k].end /\ entries[i].start <= entries[k].start
      /\ entries[i].end = Null \/ entries[k].start < entries[i].end
  BY DEF Overlap, Covers
<1>3. entries[i].start \in Nat /\ entries[k].start \in Nat BY <1>1 DEF Row
<1>4. entries[i].end \in Nat \cup {Null} /\ entries[k].end \in Nat \cup {Null} BY <1>1 DEF Row
<1>5. CASE i < k
  <2>1. entries[i].end # Null /\ entries[i].end <= entries[k].start BY <1>5 DEF Ordered
  <2> QED BY <1>2, <1>3, <1>4, <2>1
<1>6. CASE k < i
  <2>1. entries[k].end # Null /\ entries[k].end <= entries[i].start BY <1>6 DEF Ordered
  <2>2. entries[k].end >= entries[k].start BY <2>1 DEF EndedAfterStarted
  <2> QED BY <1>2, <1>3, <1>4, <2>1, <2>2
<1> QED BY <1>1, <1>5, <1>6

(* Where nobody edits, no two rows of an employee count the same time, but
   for those of a shift that a replayed punch began: its instant is the
   phone's, and no check compares it with the rows there are. *)
THEOREM TimeCountsOnce ==
  ASSUME Editors = {}
  PROVE  Spec => []NoDoubleCounting
<1> DEFINE Inv == TimeInv /\ Ordered /\ EndedAfterStarted(entries)
<1>1. Init => Inv
  <2>1. Init => DOMAIN entries = {} BY DEF Init
  <2> QED BY <2>1, TimeInit DEF Ordered, EndedAfterStarted
<1>2. Inv /\ [Next]_vars => Inv'
  <2> SUFFICES ASSUME Inv, [Next]_vars PROVE Inv' OBVIOUS
  <2>1. TimeInv' BY TimeStep
  <2>2. UNCHANGED entries => Ordered' /\ EndedAfterStarted(entries)'
    BY DEF Ordered, Replayed
  <2>3. ASSUME NEW s \in Transactions, Commit(s) PROVE EndedAfterStarted(entries)'
    BY <2>3 DEF Commit, Acceptable, Legal
  <2> QED BY <2>1, <2>2, <2>3, OnlyCommitsWrite, CommitKeepsOrder
<1>3. Inv => NoDoubleCounting BY OrderedMeansOnce
<1> QED BY <1>1, <1>2, <1>3, PTL DEF Spec

-----------------------------------------------------------------------------
(* One clock per employee *)

(* The rows lastWorkJobForShift sorts. *)
Work(tbl, shift) ==
  {i \in DOMAIN tbl : tbl[i].shift = shift /\ tbl[i].type = "work" /\ ~tbl[i].deleted}

(* Its answer depends on the work rows of the shift alone, *)
LEMMA LastWorkSame ==
  ASSUME NEW a, NEW b, NEW shift, Work(a, shift) = Work(b, shift),
         \A i \in Work(a, shift) : a[i].start = b[i].start /\ a[i].job = b[i].job
  PROVE  LastWorkJobs(a, shift) = LastWorkJobs(b, shift)
BY DEF Work, LastWorkJobs

(* and is the job of the row that begins after all the others. *)
LEMMA LastWorkNew ==
  ASSUME NEW tbl, NEW shift, NEW n \in Work(tbl, shift), tbl[n].start \in Nat,
         \A k \in Work(tbl, shift) : k # n => tbl[k].start \in Nat /\ tbl[k].start < tbl[n].start
  PROVE  LastWorkJobs(tbl, shift) = {tbl[n].job}
<1> DEFINE latest == {i \in Work(tbl, shift) :
                        \A k \in Work(tbl, shift) : tbl[k].start <= tbl[i].start}
<1>1. n \in latest OBVIOUS
<1>2. \A i \in latest : i = n OBVIOUS
<1>3. LastWorkJobs(tbl, shift) = {tbl[i].job : i \in latest} BY DEF LastWorkJobs, Work
<1> QED BY <1>1, <1>2, <1>3

(* A row of the same job that begins no earlier than any other changes
   nothing. *)
LEMMA LastWorkAgain ==
  ASSUME NEW a, NEW b, NEW shift, NEW n, NEW j, LastWorkJobs(a, shift) = {j},
         Work(b, shift) = Work(a, shift) \cup {n}, n \notin Work(a, shift),
         b[n].start \in Nat, b[n].job = j,
         \A i \in Work(a, shift) :
           /\ a[i].start = b[i].start /\ a[i].job = b[i].job
           /\ b[i].start \in Nat /\ b[i].start <= b[n].start
  PROVE  LastWorkJobs(b, shift) = {j}
<1> DEFINE latest(tbl) == {i \in Work(tbl, shift) :
                             \A k \in Work(tbl, shift) : tbl[k].start <= tbl[i].start}
<1>1. n \in latest(b) OBVIOUS
<1>2. LastWorkJobs(b, shift) = {b[i].job : i \in latest(b)} BY <1>1 DEF LastWorkJobs, Work
<1>3. ASSUME NEW i \in latest(b), i # n PROVE b[i].job = j
  <2>1. i \in Work(a, shift) /\ \A k \in Work(a, shift) : b[k].start <= b[i].start
    BY <1>3
  <2>2. i \in latest(a) BY <2>1
  <2>3. LastWorkJobs(a, shift) = {a[k].job : k \in latest(a)} BY <2>1 DEF LastWorkJobs, Work
  <2> QED BY <2>1, <2>2, <2>3
<1> HIDE DEF latest
<1> QED BY <1>1, <1>2, <1>3

(* An open row is the last of its shift, and the shift has one job to go
   back to. *)
Resumable(tbl, i) ==
  /\ \A k \in DOMAIN tbl : tbl[k].shift = tbl[i].shift => tbl[k].start <= tbl[i].start
  /\ \E j \in Jobs \cup {Null} : LastWorkJobs(tbl, tbl[i].shift) = {j}

(* The inductive strengthening of the refinement. *)
ClockInv == TimeInv /\ \A i \in DOMAIN entries : IsOpen(entries[i]) => Resumable(entries, i)

(* The clock of an employee, read off a table: ClockOf for any table. *)
ClockAt(tbl, e) ==
  LET open == OpenEntries(tbl, e)
      row  == tbl[CHOOSE i \in open : TRUE]
  IN  IF open = {}
      THEN [state |-> "off", job |-> Null]
      ELSE [state |-> row.type, job |-> CHOOSE j \in LastWorkJobs(tbl, row.shift) : TRUE]

(* Of one thing, it is that which is chosen. *)
LEMMA ChooseOne == \A x : (CHOOSE i \in {x} : TRUE) = x
OBVIOUS

(* The clock of an employee who is off, *)
LEMMA ClockOff ==
  ASSUME NEW tbl, NEW e, OpenEntries(tbl, e) = {}
  PROVE  ClockAt(tbl, e) = [state |-> "off", job |-> Null]
BY DEF ClockAt

(* and of one with an open entry. *)
LEMMA ClockOn ==
  ASSUME NEW tbl, NEW e, NEW i, OpenEntries(tbl, e) = {i},
         NEW j, LastWorkJobs(tbl, tbl[i].shift) = {j}
  PROVE  ClockAt(tbl, e) = [state |-> tbl[i].type, job |-> j]
BY ChooseOne DEF ClockAt

(* After a commit only a row it added may be open. *)
LEMMA CommitOpens ==
  ASSUME NEW t, Written(t), OpenEntries(entries, t.emp) \subseteq {t.id},
         t.id \in DOMAIN entries => entries'[t.id].end # Null
  PROVE  OpenEntries(entries', t.emp) =
           {i \in DOMAIN entries' : i \notin DOMAIN entries /\ IsOpen(entries'[i])}
<1>1. \A i \in DOMAIN entries' : i \notin DOMAIN entries => entries'[i].emp = t.emp
  BY DEF Written
<1>2. ASSUME NEW i \in DOMAIN entries, i \in OpenEntries(entries', t.emp) PROVE FALSE
  <2>1. entries'[i].emp = t.emp /\ IsOpen(entries'[i]) BY <1>2 DEF OpenEntries
  <2>2. i # t.id BY <2>1 DEF IsOpen
  <2>3. entries'[i] = entries[i] BY <2>2 DEF Written
  <2>4. i \in OpenEntries(entries, t.emp) BY <2>1, <2>3 DEF OpenEntries
  <2> QED BY <2>2, <2>4
<1> QED BY <1>1, <1>2 DEF OpenEntries

(* The work rows after a commit. *)
LEMMA CommitWork ==
  ASSUME NEW t, Written(t), NEW shift
  PROVE  /\ Work(entries', shift) =
              Work(entries, shift) \cup
                {i \in DOMAIN entries' :
                   /\ i \notin DOMAIN entries
                   /\ entries'[i].shift = shift /\ entries'[i].type = "work" /\ ~entries'[i].deleted}
         /\ \A i \in Work(entries, shift) :
              entries'[i].start = entries[i].start /\ entries'[i].job = entries[i].job
BY DEF Work, Written, Lasting

(* Somebody else's open row stays as it is. *)
LEMMA OthersResume ==
  ASSUME ClockInv, NEW s \in Transactions, Commit(s),
         NEW e, e # txn[s].emp, NEW i \in OpenEntries(entries, e)
  PROVE  /\ Resumable(entries', i)
         /\ LastWorkJobs(entries', entries'[i].shift) = LastWorkJobs(entries, entries[i].shift)
<1> DEFINE t == txn[s]
           shift == entries[i].shift
<1>1. CommitShape(s) /\ Written(t) /\ RowsStay(e)
  BY CommitShapes, CommitWritten, OthersStay DEF ClockInv, TimeInv
<1>2. i \in DOMAIN entries /\ entries[i].emp = e /\ entries'[i] = entries[i] /\ Resumable(entries, i)
  BY <1>1 DEF RowsStay, ClockInv, OpenEntries
<1>3. \A k \in DOMAIN entries : RowSound(k) /\ k \in 1..Len(entries) /\ Lasting(entries[k], entries'[k])
  BY <1>1 DEF ClockInv, TimeInv, Written
<1>4. \A k \in DOMAIN entries' : k \notin DOMAIN entries => entries'[k].shift # shift
  <2> SUFFICES ASSUME NEW k \in DOMAIN entries', k \notin DOMAIN entries PROVE entries'[k].shift # shift
    OBVIOUS
  <2>1. entries'[k].shift = IF t.op = "clockIn" THEN k ELSE t.seen.shift
    BY CommitAdds DEF ClockInv
  <2>2. shift \in 1..i /\ shift \in DOMAIN entries /\ entries[shift].emp = e
    BY <1>1, <1>2, <1>3 DEF RowSound, Written
  <2>3. CASE t.op = "clockIn" BY <2>1, <2>2, <2>3
  <2>4. CASE t.op # "clockIn"
    <3>1. t.id \in OpenEntries(entries, t.emp) /\ entries[t.id] = t.seen
      BY <1>1, <2>4 DEF CommitShape
    <3>2. entries[t.seen.shift].emp = t.emp
      BY <1>3, <3>1 DEF OpenEntries, RowSound
    <3> QED BY <2>1, <2>2, <2>4, <3>2
  <2> QED BY <2>3, <2>4
<1>5. Work(entries', shift) = Work(entries, shift) BY <1>1, <1>4, CommitWork
<1>6. LastWorkJobs(entries', shift) = LastWorkJobs(entries, shift)
  BY <1>1, <1>5, CommitWork, LastWorkSame
<1>7. \A k \in DOMAIN entries' : entries'[k].shift = shift => entries'[k].start <= entries'[i].start
  BY <1>2, <1>3, <1>4 DEF Resumable, Lasting
<1> QED BY <1>2, <1>6, <1>7 DEF Resumable

(* A clock-in opens the one row of its shift. *)
LEMMA StartMoves ==
  ASSUME ClockInv, NEW s \in Transactions, Commit(s), txn[s].op = "clockIn"
  PROVE  LET t == txn[s]
             n == Len(entries) + 1
         IN  /\ OpenEntries(entries', t.emp) = {n} /\ Resumable(entries', n)
             /\ entries'[n].type = "work" /\ t.job \in Jobs \cup {Null}
             /\ LastWorkJobs(entries', entries'[n].shift) = {t.job}
<1> DEFINE t == txn[s]
           n == Len(entries) + 1
           new == entries'[n]
<1>1. CommitShape(s) /\ Written(t) /\ SafeAt(s) /\ InTransaction(s) /\ t.at \in Nat
  BY CommitShapes, CommitWritten DEF ClockInv, TimeInv, SafeInv
<1>2. StartsShift(t, s \in OfflineSessions) /\ t.job \in Jobs \cup {Null} /\ t.id = 0
  BY <1>1 DEF CommitShape
<1>3. /\ Begun(new, t, n, "work", t.job, t.at, Null)
      /\ n \in DOMAIN entries' /\ n \notin DOMAIN entries
      /\ \A i \in DOMAIN entries' : i \in DOMAIN entries \/ i = n
  BY <1>1, <1>2 DEF StartsShift, Grows, Written
<1>4. OpenEntries(entries', t.emp) = {n}
  <2>1. OpenEntries(entries, t.emp) = {} /\ t.id \notin DOMAIN entries
    BY <1>1, <1>2 DEF SafeAt, Written
  <2>2. IsOpen(new) BY <1>3 DEF Begun, IsOpen
  <2> QED BY <1>1, <1>3, <2>1, <2>2, CommitOpens
<1>5. \A i \in DOMAIN entries : entries[i].shift # n /\ entries'[i].shift # n
  <2>1. \A i \in DOMAIN entries : RowSound(i) /\ i \in 1..Len(entries) /\ Lasting(entries[i], entries'[i])
    BY <1>1 DEF ClockInv, TimeInv, Written
  <2>2. Len(entries) \in Nat BY <1>1 DEF Written
  <2>3. \A i \in DOMAIN entries : entries[i].shift # n BY <2>1, <2>2 DEF RowSound
  <2> QED BY <2>1, <2>3 DEF Lasting
<1>6. LastWorkJobs(entries', n) = {t.job}
  <2>1. Work(entries', n) = {n} BY <1>3, <1>5 DEF Work, Begun
  <2>2. new.start \in Nat /\ new.job = t.job BY <1>1, <1>3 DEF Begun
  <2> HIDE DEF n
  <2> QED BY <2>1, <2>2, LastWorkNew
<1>7. \A k \in DOMAIN entries' : entries'[k].shift = n => entries'[k].start <= new.start
  BY <1>1, <1>3, <1>5 DEF Begun
<1>8. new.shift = n /\ new.type = "work" BY <1>3 DEF Begun
<1> HIDE DEF n
<1>9. Resumable(entries', n) BY <1>2, <1>6, <1>7, <1>8 DEF Resumable
<1> QED BY <1>2, <1>4, <1>6, <1>8, <1>9 DEF n

(* closeOpen leaves the job to resume as it was. *)
LEMMA ResumeSame ==
  ASSUME ClockInv, NEW s \in Transactions, Commit(s), txn[s].op # "clockIn"
  PROVE  ResumeJobs(txn[s]) = LastWorkJobs(entries, txn[s].seen.shift)
<1> DEFINE t == txn[s]
           tbl == Closed(t.id, t.seen.start, t.at)
<1>1. TypeOK /\ CommitShape(s) /\ t.at \in Nat /\ Written(t)
  BY CommitShapes, CommitWritten DEF ClockInv, TimeInv, SafeInv, OpenInv, TypeInv
<1>2. t.id \in 1..Len(entries) /\ t.seen.start \in Int BY <1>1 DEF CommitShape, Row
<1>3. /\ tbl \in Seq(Row) /\ Len(tbl) = Len(entries)
      /\ \A i \in 1..Len(entries) : Lasting(entries[i], tbl[i])
  BY <1>1, <1>2, ClosedLasts
<1>4. DOMAIN tbl = 1..Len(entries) /\ DOMAIN entries = 1..Len(entries)
  BY <1>1, <1>3, LenProperties DEF Written
<1> HIDE DEF tbl
<1>5. Work(tbl, t.seen.shift) = Work(entries, t.seen.shift)
  BY <1>3, <1>4 DEF Work, Lasting
<1>6. \A i \in Work(entries, t.seen.shift) : tbl[i].start = entries[i].start /\ tbl[i].job = entries[i].job
  BY <1>3, <1>4 DEF Work, Lasting
<1>7. LastWorkJobs(tbl, t.seen.shift) = LastWorkJobs(entries, t.seen.shift)
  BY <1>5, <1>6, LastWorkSame
<1> QED BY <1>7 DEF ResumeJobs, tbl

(* The next stretch of a shift: a break keeps the job to go back to, work
   sets it. *)
LEMMA StretchMoves ==
  ASSUME ClockInv, NEW s \in Transactions, Commit(s),
         txn[s].op \in {"breakIn", "breakOut", "switchJob"},
         NEW type \in EntryTypes, NEW job \in Jobs \cup {Null}, NextStretch(txn[s], type, job),
         NEW old \in Jobs \cup {Null}, LastWorkJobs(entries, txn[s].seen.shift) = {old},
         type = "work" => job = old \/ txn[s].op = "switchJob"
  PROVE  LET n == Len(entries) + 1
         IN  /\ OpenEntries(entries', txn[s].emp) = {n} /\ Resumable(entries', n)
             /\ entries'[n].type = type
             /\ LastWorkJobs(entries', entries'[n].shift) = {IF type = "work" THEN job ELSE old}
<1> DEFINE t == txn[s]
           n == Len(entries) + 1
           new == entries'[n]
           shift == t.seen.shift
<1>1. /\ CommitShape(s) /\ Written(t) /\ InTransaction(s) /\ t.at \in Nat /\ Fresh(s)
      /\ Len(entries) \in Nat
  BY CommitShapes, CommitWritten DEF ClockInv, TimeInv, Written
<1>2. /\ t.id \in DOMAIN entries /\ entries[t.id] = t.seen
      /\ OpenEntries(entries, t.emp) = {t.id} /\ t.seen \in Row
  BY <1>1 DEF CommitShape, Written
<1>3. /\ Begun(new, t, shift, type, job, t.at, Null)
      /\ n \in DOMAIN entries' /\ n \notin DOMAIN entries
      /\ \A i \in DOMAIN entries' : i \in DOMAIN entries \/ i = n
      /\ entries'[t.id].end = t.at
  BY <1>1 DEF NextStretch, Grows, Written
<1>4. OpenEntries(entries', t.emp) = {n}
  <2>1. t.at # Null BY <1>1, NullAssumption
  <2>2. IsOpen(new) BY <1>3 DEF Begun, IsOpen
  <2> QED BY <1>1, <1>2, <1>3, <2>1, <2>2, CommitOpens
<1>5. \A i \in DOMAIN entries :
        RowSound(i) /\ entries[i].start \in Nat /\ Lasting(entries[i], entries'[i])
  <2>1. \A i \in DOMAIN entries : entries[i] \in Row BY <1>1 DEF Written
  <2>2. \A i \in DOMAIN entries : entries[i].start \in Nat BY <2>1 DEF Row
  <2> QED BY <1>1, <2>2 DEF ClockInv, TimeInv, Written
<1>6. ASSUME NEW i \in DOMAIN entries, entries[i].shift = shift
      PROVE  /\ entries'[i].start \in Nat /\ entries'[i].start <= t.at
             /\ t.op = "switchJob" => entries'[i].start < t.at
  <2>1. IsOpen(entries[t.id]) /\ entries[t.id].emp = t.emp BY <1>2 DEF OpenEntries
  <2>2. entries[i].start <= t.seen.start BY <1>2, <1>6, <2>1 DEF ClockInv, Resumable
  <2>3. entries[i].emp = t.emp BY <1>2, <1>5, <1>6, <2>1 DEF RowSound
  <2>4. /\ t.seen.start \in Nat /\ t.seen.start <= t.at
        /\ t.op = "switchJob" => entries[i].start # t.at
    BY <1>1, <1>2, <2>3 DEF Fresh, Row
  <2>5. entries[i].start <= t.at BY <1>1, <1>5, <2>2, <2>4
  <2>6. t.op = "switchJob" => entries[i].start < t.at BY <1>1, <1>5, <2>4, <2>5
  <2> QED BY <1>5, <2>5, <2>6 DEF Lasting
<1>7. new.shift = shift /\ new.type = type /\ new.start = t.at /\ new.job = job /\ ~new.deleted
  BY <1>3 DEF Begun
<1>8. \A k \in DOMAIN entries' : entries'[k].shift = shift => entries'[k].start <= new.start
  <2>1. \A k \in DOMAIN entries : entries'[k].shift = entries[k].shift BY <1>5 DEF Lasting
  <2>2. \A k \in DOMAIN entries : entries'[k].shift = shift =>
          entries'[k].start \in Nat /\ entries'[k].start <= t.at
    BY <1>6, <2>1
  <2> QED BY <1>1, <1>3, <1>7, <2>2
<1>9. CASE type = "work"
  <2>1. Work(entries', shift) = Work(entries, shift) \cup {n}
    BY <1>1, <1>3, <1>7, <1>9, CommitWork
  <2>2. /\ \A k \in Work(entries, shift) :
             /\ entries[k].start = entries'[k].start /\ entries[k].job = entries'[k].job
             /\ entries'[k].start \in Nat /\ entries'[k].start <= t.at
             /\ t.op = "switchJob" => entries'[k].start < t.at
        /\ n \notin Work(entries, shift)
    BY <1>1, <1>3, <1>6, CommitWork DEF Work
  <2>3. n \in Work(entries', shift) BY <2>1
  <2> HIDE DEF n
  <2>4. LastWorkJobs(entries', shift) = {job}
    <3>1. CASE t.op = "switchJob"
      <4>1. \A k \in Work(entries', shift) :
              k # n => entries'[k].start \in Nat /\ entries'[k].start < new.start
        BY <1>7, <2>1, <2>2, <3>1
      <4> QED BY <1>1, <1>7, <2>3, <4>1, LastWorkNew
    <3>2. CASE job = old
      <4>1. \A k \in Work(entries, shift) :
              /\ entries[k].start = entries'[k].start /\ entries[k].job = entries'[k].job
              /\ entries'[k].start \in Nat /\ entries'[k].start <= new.start
        BY <1>7, <2>2
      <4>2. new.start \in Nat /\ new.job = old BY <1>1, <1>7, <3>2
      <4> QED BY <2>1, <2>2, <3>2, <4>1, <4>2, LastWorkAgain
    <3> QED BY <1>9, <3>1, <3>2
  <2>5. Resumable(entries', n) BY <1>7, <1>8, <2>4 DEF Resumable
  <2> QED BY <1>4, <1>7, <1>9, <2>4, <2>5 DEF n
<1>10. CASE type # "work"
  <2>1. Work(entries', shift) = Work(entries, shift)
    <3>1. \A i \in DOMAIN entries' : i \notin DOMAIN entries => entries'[i].type # "work"
      BY <1>3, <1>7, <1>10
    <3>2. {i \in DOMAIN entries' : /\ i \notin DOMAIN entries /\ entries'[i].shift = shift
                                   /\ entries'[i].type = "work" /\ ~entries'[i].deleted} = {}
      BY <3>1
    <3> QED BY <1>1, <3>2, CommitWork
  <2>2. LastWorkJobs(entries', shift) = {old}
    BY <1>1, <2>1, CommitWork, LastWorkSame
  <2> HIDE DEF n
  <2>3. Resumable(entries', n) BY <1>7, <1>8, <2>2 DEF Resumable
  <2> QED BY <1>4, <1>7, <1>10, <2>2, <2>3 DEF n
<1> QED BY <1>9, <1>10

(* A clock-out, with a lunch or without, and the sweep leave nothing open. *)
LEMMA EndMoves ==
  ASSUME ClockInv, NEW s \in Transactions, Commit(s),
         txn[s].op \in {"clockOut", "lunchOut", "autoClose"}
  PROVE  OpenEntries(entries', txn[s].emp) = {}
<1> DEFINE t == txn[s]
<1>1. CommitShape(s) /\ Written(t) /\ Len(entries) \in Nat
  BY CommitShapes, CommitWritten DEF ClockInv, TimeInv, Written
<1>2. OpenEntries(entries, t.emp) = {t.id} BY <1>1 DEF CommitShape
<1>3. entries'[t.id].end # Null
  <2>1. entries'[t.id].end \in Nat BY CommitEnds DEF ClockInv
  <2> QED BY <2>1, NullAssumption
<1>4. ASSUME NEW i \in DOMAIN entries', i \notin DOMAIN entries PROVE ~IsOpen(entries'[i])
  <2>1. i \in (Len(entries) + 1)..Len(entries') BY <1>1, <1>4 DEF Written
  <2>2. CASE t.op \in {"clockOut", "autoClose"}
    <3>1. Len(entries') = Len(entries) BY <1>1, <2>2 DEF CommitShape, EndsShift, Grows
    <3> QED BY <1>1, <2>1, <3>1
  <2>3. CASE t.op = "lunchOut"
    <3>1. SplitsLunch(t) BY <1>1, <2>3 DEF CommitShape
    <3>2. i = Len(entries) + 1 \/ i = Len(entries) + 2
      BY <1>1, <2>1, <3>1 DEF SplitsLunch, Grows
    <3>3. LunchStart(t) + Lunch \in Nat /\ t.at \in Nat
      BY <2>3, LunchInside, CommitShapes DEF ClockInv, TimeInv
    <3>4. entries'[i].end \in Nat BY <3>1, <3>2, <3>3 DEF SplitsLunch, Begun
    <3> QED BY <3>4, NullAssumption DEF IsOpen
  <2> QED BY <2>2, <2>3
<1> QED BY <1>1, <1>2, <1>3, <1>4, CommitOpens

(* An employee with an open entry has one, with one job to go back to. *)
LEMMA OpenClock ==
  ASSUME ClockInv, NEW e, NEW i \in OpenEntries(entries, e)
  PROVE  /\ OpenEntries(entries, e) = {i} /\ Resumable(entries, i)
         /\ entries[i].type \in EntryTypes /\ entries[i].emp = e /\ i \in DOMAIN entries
<1>1. i \in DOMAIN entries /\ entries[i].emp = e /\ IsOpen(entries[i]) BY DEF OpenEntries
<1>2. OpenUnique(entries) /\ TypeOK BY DEF ClockInv, TimeInv, SafeInv, OpenInv, TypeInv
<1>3. entries[i] \in Row BY <1>1, <1>2, LenProperties, ElementOfSeq DEF TypeOK
<1> QED BY <1>1, <1>2, <1>3, OnlyOne DEF ClockInv, Row

(* Everybody else's open entries after a commit. *)
LEMMA OthersOpen ==
  ASSUME ClockInv, NEW s \in Transactions, Commit(s), NEW e, e # txn[s].emp
  PROVE  /\ OpenEntries(entries', e) = OpenEntries(entries, e)
         /\ \A i \in OpenEntries(entries, e) : entries'[i] = entries[i]
<1>1. RowsStay(e) BY CommitWritten, OthersStay DEF ClockInv, TimeInv
<1> QED BY <1>1 DEF RowsStay, OpenEntries

(* Everybody else's clock stands still, *)
LEMMA OthersClock ==
  ASSUME ClockInv, NEW s \in Transactions, Commit(s), NEW e, e # txn[s].emp
  PROVE  ClockAt(entries', e) = ClockAt(entries, e)
<1>1. CASE OpenEntries(entries, e) = {} BY <1>1, OthersOpen, ClockOff
<1>2. ASSUME NEW i \in OpenEntries(entries, e) PROVE ClockAt(entries', e) = ClockAt(entries, e)
  <2>1. OpenEntries(entries, e) = {i} /\ OpenEntries(entries', e) = {i} /\ entries'[i] = entries[i]
    BY <1>2, OpenClock, OthersOpen
  <2>2. PICK j : LastWorkJobs(entries, entries[i].shift) = {j} BY <1>2, OpenClock DEF Resumable
  <2>3. LastWorkJobs(entries', entries'[i].shift) = {j} BY <1>2, <2>2, OthersResume
  <2> QED BY <2>1, <2>2, <2>3, ClockOn
<1> QED BY <1>1, <1>2

(* and one's own moves as the punch says: it starts, *)
LEMMA StartClock ==
  ASSUME ClockInv, NEW s \in Transactions, Commit(s), txn[s].op = "clockIn"
  PROVE  /\ ClockAt(entries, txn[s].emp) = [state |-> "off", job |-> Null]
         /\ ClockAt(entries', txn[s].emp) = [state |-> "work", job |-> txn[s].job]
         /\ txn[s].job \in Jobs \cup {Null}
<1>1. SafeAt(s) /\ InTransaction(s) BY CommitShapes DEF ClockInv, TimeInv, SafeInv
<1>2. OpenEntries(entries, txn[s].emp) = {} BY <1>1 DEF SafeAt
<1> DEFINE n == Len(entries) + 1
<1>3. /\ OpenEntries(entries', txn[s].emp) = {n} /\ entries'[n].type = "work"
      /\ LastWorkJobs(entries', entries'[n].shift) = {txn[s].job} /\ txn[s].job \in Jobs \cup {Null}
  BY StartMoves
<1> HIDE DEF n
<1>4. ClockAt(entries', txn[s].emp) = [state |-> "work", job |-> txn[s].job]
  <2>1. PICK e : e = txn[s].emp OBVIOUS
  <2>2. PICK j : j = txn[s].job OBVIOUS
  <2>3. OpenEntries(entries', e) = {n} /\ LastWorkJobs(entries', entries'[n].shift) = {j}
    BY <1>3, <2>1, <2>2
  <2>4. ClockAt(entries', e) = [state |-> entries'[n].type, job |-> j]
    BY <2>3, ClockOn
  <2> QED BY <1>3, <2>1, <2>2, <2>4
<1> QED BY <1>2, <1>3, <1>4, ClockOff

(* goes on to the next stretch of the shift *)
LEMMA StretchClock ==
  ASSUME ClockInv, NEW s \in Transactions, Commit(s),
         txn[s].op \in {"breakIn", "breakOut", "switchJob"}
  PROVE  \E old \in Jobs \cup {Null} :
           LET t == txn[s]
               on(state, job) == [state |-> state, job |-> job]
           IN  /\ t.op = "breakIn" => /\ ClockAt(entries, t.emp) = on("work", old)
                                      /\ ClockAt(entries', t.emp) = on("break", old)
               /\ t.op = "breakOut" => /\ ClockAt(entries, t.emp) = on("break", old)
                                       /\ ClockAt(entries', t.emp) = on("work", old)
               /\ t.op = "switchJob" => /\ ClockAt(entries, t.emp) = on("work", old)
                                        /\ ClockAt(entries', t.emp) = on("work", t.job)
                                        /\ t.job \in Jobs
<1> DEFINE t == txn[s]
           n == Len(entries) + 1
<1>1. CommitShape(s) /\ Fresh(s) /\ InTransaction(s) BY CommitShapes DEF ClockInv, TimeInv
<1>2. OpenEntries(entries, t.emp) = {t.id} /\ entries[t.id] = t.seen BY <1>1 DEF CommitShape
<1>3. Resumable(entries, t.id) BY <1>2, OpenClock
<1>4. PICK old \in Jobs \cup {Null} : LastWorkJobs(entries, t.seen.shift) = {old}
  BY <1>2, <1>3 DEF Resumable
<1>5. ClockAt(entries, t.emp) = [state |-> t.seen.type, job |-> old]
  <2>1. PICK i : i = t.id OBVIOUS
  <2>2. PICK e : e = t.emp OBVIOUS
  <2>0. PICK j : j = old OBVIOUS
  <2>3. OpenEntries(entries, e) = {i} /\ LastWorkJobs(entries, entries[i].shift) = {j}
    BY <1>2, <1>4, <2>0, <2>1, <2>2
  <2>4. ClockAt(entries, e) = [state |-> entries[i].type, job |-> j]
    BY <2>3, ClockOn
  <2> QED BY <1>2, <2>0, <2>1, <2>2, <2>4
<1>6. ASSUME NEW type \in EntryTypes, NEW job \in Jobs \cup {Null}, NextStretch(t, type, job),
             type = "work" => job = old \/ t.op = "switchJob"
      PROVE  ClockAt(entries', t.emp) = [state |-> type, job |-> IF type = "work" THEN job ELSE old]
  <2>1. /\ OpenEntries(entries', t.emp) = {n} /\ entries'[n].type = type
        /\ LastWorkJobs(entries', entries'[n].shift) = {IF type = "work" THEN job ELSE old}
    BY <1>4, <1>6, StretchMoves
  <2> HIDE DEF n
  <2> QED BY <2>1, ClockOn
<1>7. CASE t.op = "breakIn"
  <2>1. NextStretch(t, "break", Null) /\ t.seen.type = "work" BY <1>1, <1>7 DEF CommitShape, Fresh
  <2>2. ClockAt(entries', t.emp) = [state |-> "break", job |-> old] BY <1>6, <2>1 DEF EntryTypes
  <2> QED BY <1>5, <1>7, <2>1, <2>2
<1>8. CASE t.op = "breakOut"
  <2>1. PICK j \in ResumeJobs(t) : NextStretch(t, "work", j) BY <1>1, <1>8 DEF CommitShape
  <2>2. j = old /\ t.seen.type = "break"
    BY <1>1, <1>4, <1>8, <2>1, ResumeSame DEF Fresh
  <2>3. ClockAt(entries', t.emp) = [state |-> "work", job |-> old] BY <1>6, <2>1, <2>2 DEF EntryTypes
  <2> QED BY <1>5, <1>8, <2>2, <2>3
<1>9. CASE t.op = "switchJob"
  <2>1. NextStretch(t, "work", t.job) /\ t.seen.type = "work" /\ t.job \in Jobs
    BY <1>1, <1>9 DEF CommitShape, Fresh
  <2>2. t.job \in Jobs \cup {Null} /\ "work" \in EntryTypes BY <2>1 DEF EntryTypes
  <2>3. \A job \in Jobs \cup {Null} : NextStretch(t, "work", job) =>
          ClockAt(entries', t.emp) = [state |-> "work", job |-> job]
    BY <1>6, <1>9, <2>2
  <2>4. ClockAt(entries', t.emp) = [state |-> "work", job |-> t.job] BY <2>1, <2>2, <2>3
  <2> QED BY <1>5, <1>9, <2>1, <2>4
<1> QED BY <1>7, <1>8, <1>9

(* or stops. *)
LEMMA EndClock ==
  ASSUME ClockInv, NEW s \in Transactions, Commit(s),
         txn[s].op \in {"clockOut", "lunchOut", "autoClose"}
  PROVE  /\ ClockAt(entries, txn[s].emp).state \in EntryTypes
         /\ ClockAt(entries', txn[s].emp) = [state |-> "off", job |-> Null]
<1> DEFINE t == txn[s]
<1>1. CommitShape(s) BY CommitShapes DEF ClockInv, TimeInv
<1>2. OpenEntries(entries, t.emp) = {t.id} BY <1>1 DEF CommitShape
<1>3. Resumable(entries, t.id) /\ entries[t.id].type \in EntryTypes BY <1>2, OpenClock
<1>4. PICK old : LastWorkJobs(entries, entries[t.id].shift) = {old} BY <1>3 DEF Resumable
<1>5. ClockAt(entries, t.emp) = [state |-> entries[t.id].type, job |-> old]
  <2>1. PICK i : i = t.id OBVIOUS
  <2>2. PICK e : e = t.emp OBVIOUS
  <2>3. OpenEntries(entries, e) = {i} /\ LastWorkJobs(entries, entries[i].shift) = {old}
    BY <1>2, <1>4, <2>1, <2>2
  <2>4. ClockAt(entries, e) = [state |-> entries[i].type, job |-> old]
    BY <2>3, ClockOn
  <2> QED BY <2>1, <2>2, <2>4
<1> QED BY <1>3, <1>5, EndMoves, ClockOff

(* Every step keeps what the clocks are read from. *)
LEMMA ClockStep ==
  ASSUME Editors = {}
  PROVE  ClockInv /\ [Next]_vars => ClockInv'
<1> SUFFICES ASSUME ClockInv, [Next]_vars PROVE ClockInv' OBVIOUS
<1>1. TimeInv' BY TimeStep DEF ClockInv
<1>2. CASE UNCHANGED entries BY <1>1, <1>2 DEF ClockInv
<1>3. ASSUME NEW s \in Transactions, Commit(s), NEW i \in DOMAIN entries', IsOpen(entries'[i])
      PROVE  Resumable(entries', i)
  <2> DEFINE e == entries'[i].emp
  <2>1. i \in OpenEntries(entries', e) BY <1>3 DEF OpenEntries
  <2>2. CASE e # txn[s].emp
    <3>1. i \in OpenEntries(entries, e) BY <1>3, <2>1, <2>2, OthersOpen
    <3> QED BY <1>3, <2>2, <3>1, OthersResume
  <2>3. CASE e = txn[s].emp
    <3>1. CommitShape(s) BY <1>3, CommitShapes DEF ClockInv, TimeInv
    <3>2. CASE txn[s].op = "clockIn" BY <1>3, <2>1, <2>3, <3>2, StartMoves
    <3>3. CASE txn[s].op \in {"breakIn", "breakOut", "switchJob"}
      <4>1. OpenEntries(entries, e) = {txn[s].id} /\ entries[txn[s].id] = txn[s].seen
        BY <2>3, <3>1, <3>3 DEF CommitShape
      <4>2. PICK old \in Jobs \cup {Null} : LastWorkJobs(entries, txn[s].seen.shift) = {old}
        BY <4>1, OpenClock DEF Resumable
      <4>3. ASSUME NEW type \in EntryTypes, NEW job \in Jobs \cup {Null},
                   NextStretch(txn[s], type, job),
                   type = "work" => job = old \/ txn[s].op = "switchJob"
            PROVE  Resumable(entries', i)
        BY <1>3, <2>1, <2>3, <3>3, <4>2, <4>3, StretchMoves
      <4>4. txn[s].op = "switchJob" => txn[s].job \in Jobs
        BY <1>3, CommitShapes DEF ClockInv, TimeInv, Fresh
      <4>5. txn[s].op = "breakOut" => ResumeJobs(txn[s]) = {old}
        BY <1>3, <4>2, ResumeSame
      <4> QED BY <3>1, <3>3, <4>3, <4>4, <4>5 DEF CommitShape, EntryTypes
    <3>4. CASE txn[s].op \in {"clockOut", "lunchOut", "autoClose"} BY <1>3, <2>1, <2>3, <3>4, EndMoves
    <3> QED BY <3>1, <3>2, <3>3, <3>4 DEF CommitShape, Ops
  <2> QED BY <2>2, <2>3
<1> QED BY <1>1, <1>2, <1>3, OnlyCommitsWrite DEF ClockInv

(* A commit is a step of the abstract clock of its employee. *)
LEMMA CommitIsAbstract ==
  ASSUME ClockInv, NEW s \in Transactions, Commit(s)
  PROVE  Abstract!Next
<1> DEFINE c  == [e \in Employees |-> ClockAt(entries, e)]
           cc == [e \in Employees |-> ClockAt(entries', e)]
           u  == txn[s].emp
           on(state, job) == [state |-> state, job |-> job]
<1>1. CommitShape(s) /\ u \in Employees BY CommitShapes DEF ClockInv, TimeInv
<1>2. c = [e \in Employees |-> ClockOf(e)] /\ cc = [e \in Employees |-> ClockOf(e)']
  BY DEF ClockOf, ClockAt
<1>3. \A e \in Employees : e # u => cc[e] = c[e] BY OthersClock
<1>4. \A v : cc[u] = v => cc = [c EXCEPT ![u] = v] BY <1>1, <1>3
<1>5. c[u] = ClockAt(entries, u) /\ cc[u] = ClockAt(entries', u) BY <1>1
<1> HIDE DEF c, cc
<1>6. CASE txn[s].op = "clockIn"
  <2>1. /\ c[u] = on("off", Null) /\ cc[u] = on("work", txn[s].job)
        /\ txn[s].job \in Jobs \cup {Null}
    BY <1>5, <1>6, StartClock
  <2>2. Abstract!ClockIn(u, txn[s].job)
    BY <1>2, <1>4, <2>1 DEF Abstract!ClockIn
  <2> QED BY <1>1, <2>1, <2>2 DEF Abstract!Next
<1>7. CASE txn[s].op = "breakIn"
  <2>1. PICK old : c[u] = on("work", old) /\ cc[u] = on("break", old)
    BY <1>5, <1>7, StretchClock
  <2>2. [c[u] EXCEPT !.state = "break"] = on("break", old) BY <2>1
  <2>3. cc = [c EXCEPT ![u].state = "break"] BY <1>4, <2>1, <2>2
  <2>4. Abstract!BreakIn(u) BY <1>2, <2>1, <2>3 DEF Abstract!BreakIn
  <2> QED BY <1>1, <2>4 DEF Abstract!Next
<1>8. CASE txn[s].op = "breakOut"
  <2>1. PICK old : c[u] = on("break", old) /\ cc[u] = on("work", old)
    BY <1>5, <1>8, StretchClock
  <2>2. [c[u] EXCEPT !.state = "work"] = on("work", old) BY <2>1
  <2>3. cc = [c EXCEPT ![u].state = "work"] BY <1>4, <2>1, <2>2
  <2>4. Abstract!BreakOut(u) BY <1>2, <2>1, <2>3 DEF Abstract!BreakOut
  <2> QED BY <1>1, <2>4 DEF Abstract!Next
<1>9. CASE txn[s].op = "switchJob"
  <2>1. PICK old : /\ c[u] = on("work", old) /\ cc[u] = on("work", txn[s].job)
                   /\ txn[s].job \in Jobs
    BY <1>5, <1>9, StretchClock
  <2>2. [c[u] EXCEPT !.job = txn[s].job] = on("work", txn[s].job) BY <2>1
  <2>3. cc = [c EXCEPT ![u].job = txn[s].job] BY <1>4, <2>1, <2>2
  <2>4. Abstract!SwitchJob(u, txn[s].job) BY <1>2, <2>1, <2>3 DEF Abstract!SwitchJob
  <2> QED BY <1>1, <2>1, <2>4 DEF Abstract!Next
<1>10. CASE txn[s].op \in {"clockOut", "lunchOut", "autoClose"}
  <2>1. c[u].state \in EntryTypes /\ cc[u] = on("off", Null) BY <1>5, <1>10, EndClock
  <2>2. c[u].state # "off" BY <2>1 DEF EntryTypes
  <2>3. Abstract!ClockOut(u) BY <1>2, <1>4, <2>1, <2>2 DEF Abstract!ClockOut, Abstract!Off
  <2> QED BY <1>1, <2>3 DEF Abstract!Next
<1> QED BY <1>1, <1>6, <1>7, <1>8, <1>9, <1>10 DEF CommitShape, Ops

(* Where nobody edits, the punch service implements one clock per employee:
   whatever surface a punch comes from and whatever it races, the open
   entries move as ShiftClock says, a break returns to the job it
   interrupted, and no lock, read, refusal or rollback is seen. *)
THEOREM ServiceIsShiftClock ==
  ASSUME Editors = {}
  PROVE  Spec => ImplementsShiftClock
<1>1. Init => ClockInv
  <2>1. Init => DOMAIN entries = {} BY DEF Init
  <2> QED BY <2>1, TimeInit DEF ClockInv
<1>2. Init => Abstract!Init
  <2> SUFFICES ASSUME Init PROVE Abstract!Init OBVIOUS
  <2>0. DOMAIN entries = {} BY DEF Init
  <2>1. \A e : OpenEntries(entries, e) = {} BY <2>0 DEF OpenEntries
  <2>2. \A e : ClockOf(e) = [state |-> "off", job |-> Null] BY <2>1 DEF ClockOf
  <2> QED BY <2>2 DEF Abstract!Init, Abstract!Off
<1>3. ClockInv /\ [Next]_vars => ClockInv' BY ClockStep
<1>4. ClockInv /\ [Next]_vars => [Abstract!Next]_([e \in Employees |-> ClockOf(e)])
  <2> SUFFICES ASSUME ClockInv, [Next]_vars
               PROVE  Abstract!Next \/ UNCHANGED [e \in Employees |-> ClockOf(e)]
    OBVIOUS
  <2>1. UNCHANGED entries => UNCHANGED [e \in Employees |-> ClockOf(e)]
    BY DEF ClockOf, OpenEntries, LastWorkJobs
  <2> QED BY <2>1, OnlyCommitsWrite, CommitIsAbstract
<1> QED BY <1>1, <1>2, <1>3, <1>4, PTL DEF Spec, ImplementsShiftClock, Abstract!Spec
=============================================================================
