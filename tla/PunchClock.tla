----------------------------- MODULE PunchClock -----------------------------
(***************************************************************************)
(* The punch service under concurrency.  A punch (clock in or out, break   *)
(* in or out, job switch, clock-out with a lunch) is a transaction that    *)
(* takes the employee's advisory lock, reads the open entry, and writes.   *)
(* The auto-clockout sweep takes the same lock.  A supervisor's edit,      *)
(* delete and create do not: they rely on row locks, or on nothing.        *)
(*                                                                         *)
(* Postgres runs at READ COMMITTED, so what a transaction writes is seen   *)
(* at its commit and what it has read may be stale by then.  A punch is    *)
(* therefore two steps, the read under the lock and the commit; an         *)
(* operation that locks the row it reads (SELECT ... FOR UPDATE) is one.   *)
(***************************************************************************)
EXTENDS TimeEntries

CONSTANTS
  Sessions,         \* connections that serve one punch request at a time
  OfflineSessions,  \* those that replay a phone's offline queue
  Editors,          \* supervisors and admins
  Patches,          \* the edits an editor may send
  NewEntries,       \* the entries an editor may add
  Undefined,        \* a field an edit leaves alone
  Cron,             \* the auto-clockout job
  AutoAfter,        \* auto_clockout_hours
  LunchPrompt,      \* KIOSK_LUNCH_PROMPT_SECONDS
  Lunch,            \* the lunch to deduct
  OfflineMaxAge,    \* OFFLINE_PUNCH_MAX_AGE_SECONDS
  MaxTime, MaxRows  \* bounds of the model

VARIABLES
  now,       \* the server's clock
  entries,   \* time_entries, as committed
  active,    \* employees.status = 'active'
  lock,      \* holder of each employee's advisory lock
  txn,       \* what each session's transaction knows
  due,       \* the sweep's candidates still to visit
  draft      \* an editor's new entry between its overlap check and insert

vars == <<now, entries, active, lock, txn, due, draft>>

Ops == {"clockIn", "clockOut", "lunchOut", "breakIn", "breakOut", "switchJob"}

Patch == [start : Nat \cup {Undefined},
          end   : Nat \cup {Null, Undefined},
          job   : Jobs \cup {Null, Undefined},
          type  : EntryTypes \cup {Undefined}]

Draft == [emp : Employees, type : EntryTypes, job : Jobs \cup {Null},
          start : Nat, end : Nat]

ASSUME PunchClockAssumption ==
  /\ OfflineSessions \subseteq Sessions
  /\ Cron \notin Sessions
  /\ Null \notin Sessions \cup {Cron} \cup Row \cup Draft
  /\ Patches \subseteq Patch /\ NewEntries \subseteq Draft
  /\ Undefined \notin Int \cup Jobs \cup EntryTypes \cup {Null}
  /\ AutoAfter \in Nat /\ OfflineMaxAge \in Nat
  /\ Lunch \in Nat /\ LunchPrompt \in Nat /\ Lunch <= LunchPrompt
  /\ MaxTime \in Nat /\ MaxRows \in Nat

Transactions == Sessions \cup {Cron}

Idle == [pc |-> "idle"]

(* A request that passed its checks and queues for the advisory lock. *)
Waiting == [pc : {"waiting"}, op : Ops, emp : Employees, job : Jobs \cup {Null}]

(* The lock is held and the open entry has been read: a clock-in has found
   none ... *)
Starting == [pc   : {"holding"},
             op   : {"clockIn"},
             emp  : Employees,
             job  : Jobs \cup {Null},
             at   : Nat,
             id   : {0},
             seen : {Null}]

(* ... and any other punch one to close: id and seen are that row.  at is
   the resolved instant. *)
Closing == [pc   : {"holding"},
            op   : (Ops \ {"clockIn"}) \cup {"autoClose"},
            emp  : Employees,
            job  : Jobs \cup {Null},
            at   : Nat,
            id   : Nat,
            seen : Row]

(* A lunch split that has read the open entry again (closeOpen's own read):
   id and first are what the second read returned. *)
Splitting == [pc    : {"splitting"},
              op    : {"lunchOut"},
              emp   : Employees,
              job   : Jobs \cup {Null},
              at    : Nat,
              id    : Nat,
              seen  : Row,
              first : Row]

(* The variables hold rows, sessions and times; a punch under the lock knows
   the row it acts on unless it is a clock-in. *)
TypeOK ==
  /\ now \in Nat
  /\ entries \in Seq(Row)
  /\ active \in [Employees -> BOOLEAN]
  /\ lock \in [Employees -> Transactions \cup {Null}]
  /\ txn \in [Transactions -> {Idle} \cup Waiting \cup Starting \cup Closing \cup Splitting]
  /\ due \subseteq 1..Len(entries)
  /\ draft \in [Editors -> Draft \cup {Null}]

Init ==
  /\ now = 0
  /\ entries = <<>>
  /\ active = [e \in Employees |-> TRUE]
  /\ lock = [e \in Employees |-> Null]
  /\ txn = [s \in Transactions |-> Idle]
  /\ due = {}
  /\ draft = [d \in Editors |-> Null]

-----------------------------------------------------------------------------
(* Requests, the lock, and the read under the lock *)

(* The checks made before the lock: only a clock-in asks whether the
   employee is active; Jobs are the ones ensurePunchableJob lets through. *)
Request(s, op, e, j) ==
  /\ txn[s] = Idle
  /\ op = "clockIn" => active[e]
  /\ j = Null => op # "switchJob"
  /\ j # Null => op \in {"clockIn", "switchJob"}
  /\ txn' = [txn EXCEPT ![s] = [pc |-> "waiting", op |-> op, emp |-> e, job |-> j]]
  /\ UNCHANGED <<now, entries, active, lock, due, draft>>

(* Mutant of LockFree: the read does not wait for the advisory lock. *)
LockIgnored(e) == TRUE

(* pg_advisory_xact_lock(employeeId) is granted. *)
LockFree(e) == lock[e] = Null

(* What a session may claim as the time of its punch.  Online it is the
   server's clock.  A replayed punch claims any instant up to now, the one an
   answered but unacknowledged attempt has used already included.  The phone
   queues no job switch: only the kiosk page sends one, online. *)
Claims(s, op) ==
  IF s \in OfflineSessions /\ op # "switchJob" THEN 0..now ELSE {now}

(* findOpenEntry: the id of an open row of e, or 0. *)
FindOpen(e) ==
  IF OpenEntries(entries, e) = {} THEN {0} ELSE OpenEntries(entries, e)

RowOrNull(id) == IF id = 0 THEN Null ELSE entries[id]

(* closeOpen's checks, and those clockOutWithLunch makes before it. *)
Closable(op, row, at) ==
  /\ row # Null
  /\ at >= row.start
  /\ op \in {"breakIn", "switchJob", "lunchOut"} => row.type = "work"
  /\ op = "breakOut" => row.type = "break"
  /\ op = "lunchOut" => SecondsBetween(row.start, at) >= LunchPrompt

(* Offline punches older than the retention window are refused. *)
Accepted(op, row, at) ==
  /\ now - at <= OfflineMaxAge
  /\ IF op = "clockIn" THEN row = Null ELSE Closable(op, row, at)

(* The lock is taken, the instant resolved and the open entry read.  Two
   punches of one employee never resolve to the same server instant, so
   the read uses up a tick. *)
LockAndRead(s) ==
  /\ txn[s].pc = "waiting"
  /\ LockFree(txn[s].emp)
  /\ now < MaxTime
  /\ \E at \in Claims(s, txn[s].op), id \in FindOpen(txn[s].emp) :
       /\ Accepted(txn[s].op, RowOrNull(id), at)
       /\ txn' = [txn EXCEPT ![s] =
                    [pc |-> "holding", op |-> @.op, emp |-> @.emp, job |-> @.job,
                     at |-> at, id |-> id, seen |-> RowOrNull(id)]]
  /\ lock' = [lock EXCEPT ![txn[s].emp] = s]
  /\ now' = now + 1
  /\ UNCHANGED <<entries, active, due, draft>>

(* A 400 or 409: the transaction rolls back having written nothing. *)
Refuse(s) ==
  /\ txn[s].pc = "waiting"
  /\ LockFree(txn[s].emp)
  /\ \E at \in Claims(s, txn[s].op), id \in FindOpen(txn[s].emp) :
       ~Accepted(txn[s].op, RowOrNull(id), at)
  /\ txn' = [txn EXCEPT ![s] = Idle]
  /\ UNCHANGED <<now, entries, active, lock, due, draft>>

(* The lunch is centred in the stretch that the first read showed. *)
LunchStart(t) ==
  t.seen.start + ((SecondsBetween(t.seen.start, t.at) - Lunch) \div 2)

(* clockOutWithLunch closes the open row through closeOpen, which reads it
   again. *)
ReadAgain(s) ==
  /\ txn[s].pc = "holding" /\ txn[s].op = "lunchOut"
  /\ \E id \in OpenEntries(entries, txn[s].emp) :
       /\ entries[id].type = "work"
       /\ LunchStart(txn[s]) >= entries[id].start
       /\ txn' = [txn EXCEPT ![s] =
                    [pc |-> "splitting", op |-> "lunchOut", emp |-> @.emp,
                     job |-> @.job, at |-> @.at, id |-> id, seen |-> @.seen,
                     first |-> entries[id]]]
  /\ UNCHANGED <<now, entries, active, lock, due, draft>>

-----------------------------------------------------------------------------
(* What each operation writes.  t is the transaction that writes it. *)

NewRow(e, shift, type, job, start, end, off) ==
  [emp |-> e, shift |-> shift, type |-> type, job |-> job,
   start |-> start, end |-> end,
   duration |-> IF end = Null THEN Null ELSE SecondsBetween(start, end),
   offline |-> off, auto |-> FALSE, deleted |-> FALSE]

(* Mutant of Ended: the duration is measured to the server's clock. *)
EndedAtNow(row, from, at) ==
  [row EXCEPT !.end = at, !.duration = SecondsBetween(from, now)]

Ended(row, from, at) ==
  [row EXCEPT !.end = at, !.duration = SecondsBetween(from, at)]

(* closeOpen's UPDATE ... WHERE id: the row is whatever it has become, the
   duration is measured from the start that was read. *)
Closed(id, from, at) == [entries EXCEPT ![id] = Ended(entries[id], from, at)]

(* Mutant of ClockedIn: a clock-in does not draw a shift id. *)
ClockedInNoShift(t, off) ==
  Append(entries, NewRow(t.emp, Null, "work", t.job, t.at, Null, off))

ClockedIn(t, off) ==
  Append(entries, NewRow(t.emp, Len(entries) + 1, "work", t.job, t.at, Null, off))

ClockedOut(t) == Closed(t.id, t.seen.start, t.at)

(* Mutant of Successor: the next segment starts a tick after the close. *)
SuccessorLate(t, type, job, off) ==
  Append(Closed(t.id, t.seen.start, t.at),
         NewRow(t.emp, t.seen.shift, type, job, t.at + 1, Null, off))

(* Break in, break out and job switch close the open row and open the next
   one of the same shift at the same instant. *)
Successor(t, type, job, off) ==
  Append(Closed(t.id, t.seen.start, t.at),
         NewRow(t.emp, t.seen.shift, type, job, t.at, Null, off))

(* Mutant of ResumeJobs: the break ends with the job unset. *)
ResumeNoJob(t) == {Null}

(* The jobs breakOut may resume on. *)
ResumeJobs(t) == LastWorkJobs(Closed(t.id, t.seen.start, t.at), t.seen.shift)

(* Mutant of LunchSplit: the second stretch starts where lunch starts. *)
LunchUndeducted(t) ==
  LET out == LunchStart(t)
      back == out + Lunch
  IN  Closed(t.id, t.first.start, out)
        \o <<NewRow(t.emp, t.seen.shift, "break", Null, out, back, FALSE),
             NewRow(t.emp, t.seen.shift, "work", t.seen.job, out, t.at, FALSE)>>

(* The open row is closed where lunch begins; the lunch and the rest of the
   stretch are inserted closed, on the job and shift of the first read. *)
LunchSplit(t) ==
  LET out == LunchStart(t)
      back == out + Lunch
  IN  Closed(t.id, t.first.start, out)
        \o <<NewRow(t.emp, t.seen.shift, "break", Null, out, back, FALSE),
             NewRow(t.emp, t.seen.shift, "work", t.seen.job, back, t.at, FALSE)>>

(* The sweep ends the shift AutoAfter past the start it read. *)
AutoEnded(row, at) ==
  [row EXCEPT !.end = at, !.duration = AutoAfter, !.auto = TRUE]

AutoClosed(t) == [entries EXCEPT ![t.id] = AutoEnded(entries[t.id], t.at)]

(* The tables a transaction may leave behind. *)
Outcomes(s, t) ==
  LET off == s \in OfflineSessions
  IN  CASE t.op = "clockIn"   -> {ClockedIn(t, off)}
        [] t.op = "clockOut"  -> {ClockedOut(t)}
        [] t.op = "breakIn"   -> {Successor(t, "break", Null, off)}
        [] t.op = "breakOut"  -> {Successor(t, "work", j, off) : j \in ResumeJobs(t)}
        [] t.op = "switchJob" -> {Successor(t, "work", t.job, off)}
        [] t.op = "lunchOut"  -> {LunchSplit(t)}
        [] t.op = "autoClose" -> {AutoClosed(t)}

(* A transaction with nothing left to read. *)
Ready(s) == \/ txn[s].pc = "holding" /\ txn[s].op # "lunchOut"
            \/ txn[s].pc = "splitting"

Acceptable(tbl) == Legal(tbl) /\ Len(tbl) <= MaxRows

(* The end of a transaction, which frees its advisory lock. *)
Release(s) ==
  /\ lock' = [lock EXCEPT ![txn[s].emp] = Null]
  /\ txn' = [txn EXCEPT ![s] = Idle]
  /\ due' = IF s = Cron THEN due \ {txn[s].id} ELSE due

Commit(s) ==
  /\ Ready(s)
  /\ \E tbl \in Outcomes(s, txn[s]) : Acceptable(tbl) /\ entries' = tbl
  /\ Release(s)
  /\ UNCHANGED <<now, active, draft>>

(* Mutant of Rollback: an error path returns without ending the
   transaction, so the lock stays held. *)
RollbackKeepsLock(s) ==
  /\ Ready(s)
  /\ \A tbl \in Outcomes(s, txn[s]) : ~Acceptable(tbl)
  /\ txn' = [txn EXCEPT ![s] = Idle]
  /\ UNCHANGED <<now, entries, active, lock, due, draft>>

(* The writes break a constraint, or the second read of a lunch split finds
   no entry it can close: the transaction rolls back. *)
Rollback(s) ==
  /\ \/ Ready(s) /\ \A tbl \in Outcomes(s, txn[s]) : ~Acceptable(tbl)
     \/ /\ txn[s].pc = "holding" /\ txn[s].op = "lunchOut"
        /\ \A id \in OpenEntries(entries, txn[s].emp) :
             entries[id].type # "work" \/ LunchStart(txn[s]) < entries[id].start
  /\ Release(s)
  /\ UNCHANGED <<now, entries, active, draft>>

(* The process or its connection dies: Postgres rolls back and frees the
   advisory lock.  A worker that dies also forgets its candidates. *)
Disconnect(s) ==
  /\ txn[s] # Idle
  /\ lock' = [e \in Employees |-> IF lock[e] = s THEN Null ELSE lock[e]]
  /\ txn' = [txn EXCEPT ![s] = Idle]
  /\ due' = IF s = Cron THEN {} ELSE due
  /\ UNCHANGED <<now, entries, active, draft>>

-----------------------------------------------------------------------------
(* The auto-clockout sweep *)

(* The scan reads without locks. *)
SweepScan ==
  /\ due = {} /\ txn[Cron] = Idle
  /\ due' = {i \in DOMAIN entries :
               IsOpen(entries[i]) /\ now > entries[i].start + AutoAfter}
  /\ due' # {}
  /\ UNCHANGED <<now, entries, active, lock, txn, draft>>

(* Mutant of StillOpen: the sweep trusts its scan. *)
StillOpenUnchecked(id) == TRUE

(* The re-check after the lock. *)
StillOpen(id) == IsOpen(entries[id])

(* Visit a candidate: lock its employee and read it again. *)
AutoRead(id) ==
  /\ id \in due /\ txn[Cron] = Idle
  /\ LockFree(entries[id].emp)
  /\ IF StillOpen(id)
     THEN /\ txn' = [txn EXCEPT ![Cron] =
                       [pc |-> "holding", op |-> "autoClose",
                        emp |-> entries[id].emp, job |-> Null,
                        at |-> entries[id].start + AutoAfter,
                        id |-> id, seen |-> entries[id]]]
          /\ lock' = [lock EXCEPT ![entries[id].emp] = Cron]
          /\ due' = due
     ELSE /\ due' = due \ {id}
          /\ UNCHANGED <<txn, lock>>
  /\ UNCHANGED <<now, entries, active, draft>>

-----------------------------------------------------------------------------
(* Supervisors and the roster *)

Pick(new, old) == IF new = Undefined THEN old ELSE new

(* editEntry on one row: the fields the patch names change, and the
   duration is recomputed when a time was among them. *)
Patched(row, p) ==
  LET start == Pick(p.start, row.start)
      end   == Pick(p.end, row.end)
  IN  [row EXCEPT !.start = start,
                  !.end = end,
                  !.job = Pick(p.job, row.job),
                  !.type = Pick(p.type, row.type),
                  !.duration = IF p.start = Undefined /\ p.end = Undefined
                               THEN row.duration
                               ELSE IF end = Null THEN Null
                               ELSE SecondsBetween(start, end)]

(* editEntry holds the row from read to commit, but not the advisory lock. *)
EditEntry(id, p) ==
  /\ ~entries[id].deleted
  /\ LET tbl == [entries EXCEPT ![id] = Patched(entries[id], p)]
     IN  Legal(tbl) /\ entries' = tbl
  /\ UNCHANGED <<now, active, lock, txn, due, draft>>

Deleted(row) == [row EXCEPT !.deleted = TRUE]

(* deleteEntry reads without a lock and writes by id; it writes nothing that
   it read, so that one step is as good as two. *)
DeleteEntry(id) ==
  /\ ~entries[id].deleted
  /\ entries' = [entries EXCEPT ![id] = Deleted(@)]
  /\ UNCHANGED <<now, active, lock, txn, due, draft>>

(* An unclosed row reaches to the end of time. *)
OverlapsSpan(row, from, to) ==
  row.start < to /\ (row.end = Null \/ row.end > from)

(* createEntryForEmployee: the overlap check reads without locks ... *)
CheckNewEntry(d, new) ==
  /\ draft[d] = Null
  /\ new.start < new.end
  /\ active[new.emp]
  /\ \A i \in DOMAIN entries :
       entries[i].emp = new.emp /\ ~entries[i].deleted =>
         ~OverlapsSpan(entries[i], new.start, new.end)
  /\ draft' = [draft EXCEPT ![d] =
                 [new EXCEPT !.job = IF new.type = "work" THEN @ ELSE Null]]
  /\ UNCHANGED <<now, entries, active, lock, txn, due>>

(* ... and the insert follows, in the same transaction. *)
InsertNewEntry(d) ==
  /\ draft[d] # Null
  /\ Len(entries) < MaxRows
  /\ entries' = Append(entries, NewRow(draft[d].emp, Len(entries) + 1, draft[d].type,
                                       draft[d].job, draft[d].start, draft[d].end, FALSE))
  /\ draft' = [draft EXCEPT ![d] = Null]
  /\ UNCHANGED <<now, active, lock, txn, due>>

(* updateEmployee with status 'terminated': open entries are left alone. *)
Terminate(e) ==
  /\ active[e]
  /\ active' = [active EXCEPT ![e] = FALSE]
  /\ UNCHANGED <<now, entries, lock, txn, due, draft>>

Tick ==
  /\ now < MaxTime
  /\ now' = now + 1
  /\ UNCHANGED <<entries, active, lock, txn, due, draft>>

-----------------------------------------------------------------------------
Punching ==
  \/ \E s \in Sessions :
       \/ \E op \in Ops, e \in Employees, j \in Jobs \cup {Null} : Request(s, op, e, j)
       \/ LockAndRead(s)
       \/ Refuse(s)
       \/ ReadAgain(s)
  \/ \E s \in Transactions : Commit(s) \/ Rollback(s) \/ Disconnect(s)

Sweeping == SweepScan \/ \E id \in due : AutoRead(id)

Reviewing ==
  \E d \in Editors :
    \/ \E id \in DOMAIN entries, p \in Patches : EditEntry(id, p)
    \/ \E id \in DOMAIN entries : DeleteEntry(id)
    \/ \E new \in NewEntries : CheckNewEntry(d, new)
    \/ InsertNewEntry(d)

Next ==
  \/ Punching
  \/ Sweeping
  \/ Reviewing
  \/ \E e \in Employees : Terminate(e)
  \/ Tick

Spec == Init /\ [][Next]_vars

(* A request that reached the server is carried through unless its process
   dies; the scheduler runs the sweep for ever, and a sweep that failed or
   was beaten to a lock visits the row again. *)
Serve(s) == LockAndRead(s) \/ Refuse(s) \/ ReadAgain(s) \/ Commit(s) \/ Rollback(s)

Fairness ==
  /\ WF_vars(Tick)
  /\ \A s \in Sessions : WF_vars(Serve(s))
  /\ WF_vars(SweepScan)
  /\ SF_vars(\E id \in due : AutoRead(id))
  /\ SF_vars(Commit(Cron))
  /\ WF_vars(Rollback(Cron))

FairSpec == Spec /\ Fairness

-----------------------------------------------------------------------------
(* Properties *)

(* What lockEmployee is for: between the read under the lock and the
   commit, the open entry the transaction acts on is still the employee's
   open entry, unchanged. *)
SnapshotCurrent ==
  \A s \in Transactions :
    txn[s].pc \in {"holding", "splitting"} =>
      IF txn[s].op = "clockIn"
      THEN OpenEntries(entries, txn[s].emp) = {}
      ELSE /\ OpenEntries(entries, txn[s].emp) = {txn[s].id}
           /\ entries[txn[s].id] = txn[s].seen

(* A closed row's duration_seconds, which reports add up, is the span
   between its times. *)
DurationMatches ==
  \A i \in DOMAIN entries :
    entries[i].end # Null =>
      entries[i].duration = SecondsBetween(entries[i].start, entries[i].end)

(* shift_id rebuilds a shift: every row but the first begins at the instant
   another row of the shift ended, so a shift has no gap and no overlap. *)
ShiftContiguous ==
  \A i \in DOMAIN entries :
    entries[i].shift # i =>
      \E k \in 1..(i - 1) : /\ entries[k].shift = entries[i].shift
                            /\ entries[k].emp = entries[i].emp
                            /\ entries[k].end = entries[i].start

Covers(row, t) == row.start <= t /\ (row.end = Null \/ t < row.end)

Overlap(a, b) == b.start # b.end /\ Covers(a, b.start)

(* Time is never counted twice: two rows of an employee overlap only when
   one of their shifts was begun by a replayed offline punch. *)
NoDoubleCounting ==
  \A i, k \in DOMAIN entries :
    i # k /\ entries[i].emp = entries[k].emp /\ Overlap(entries[i], entries[k]) =>
      entries[entries[i].shift].offline \/ entries[entries[k].shift].offline

ClosedRowsStay ==
  \A i \in DOMAIN entries : entries[i].end # Null => entries'[i] = entries[i]

(* A close is final: the sweep and a punch that race each other never
   rewrite a row that is already closed. *)
ClosedIsFinal == [][ClosedRowsStay]_vars

(* The employee's clock, read off the table. *)
ClockOf(e) ==
  LET open == OpenEntries(entries, e)
      row  == entries[CHOOSE i \in open : TRUE]
  IN  IF open = {}
      THEN [state |-> "off", job |-> Null]
      ELSE [state |-> row.type,
            job |-> CHOOSE j \in LastWorkJobs(entries, row.shift) : TRUE]

Abstract == INSTANCE ShiftClock WITH clock <- [e \in Employees |-> ClockOf(e)]

(* Without unlocked writers, the service implements one clock per employee. *)
ImplementsShiftClock == Abstract!Spec

(* A forgotten clock-out does not run for ever: a row open longer than the
   company's hours is ended by the sweep, whatever locks, failed candidates
   and edits stand in its way, unless somebody ends or moves it first. *)
NoShiftStaysOverdue ==
  LET Overdue(i) == /\ i \in DOMAIN entries
                    /\ IsOpen(entries[i])
                    /\ entries[i].start + AutoAfter < now
  IN  \A i \in 1..MaxRows : Overdue(i) ~> ~Overdue(i)
=============================================================================
